------------------------------ MODULE MCDataApi ------------------------------
(***************************************************************************)
(* Requests on a table of one key column and one other, whose remote name  *)
(* is the same or another.                                                 *)
(***************************************************************************)
EXTENDS DataApi

MCMappings == {[k |-> "k", v |-> "v"], [k |-> "k", v |-> "rv"]}
MCServed   == Protocols

F(c, o, val) == [col |-> c, op |-> o, val |-> val]

Raw(filters, groups, select, limit, offset) ==
    [filters |-> filters, groups |-> groups, select |-> select,
     limit |-> limit, offset |-> offset]

All == Raw(<<>>, {}, {}, -1, 0)

Filtered ==
    {Raw(<<f>>, {}, {}, -1, 0) :
        f \in {F("v", "eq", <<1>>), F("k", "eq", <<2>>), F("v", "neq", <<1>>),
              F("v", "gt", <<1>>), F("v", "is", <<>>), F("v", "in", <<1, 2>>)}}

Shaped ==
    {Raw(<<>>, {F("v", "eq", <<1>>), F("k", "eq", <<2>>)}, {}, -1, 0),
     Raw(<<F("k", "eq", <<1>>)>>, {F("v", "eq", <<1>>), F("v", "is", <<>>)}, {}, -1, 0),
     Raw(<<F("k", "gt", <<1>>), F("k", "neq", <<2>>)>>, {}, {}, -1, 0),
     Raw(<<F("k", "eq", <<1>>), F("v", "eq", <<2>>)>>, {}, {}, -1, 0)}

Paged ==
    {Raw(<<>>, {}, {"k", "v"}, 1, 0), Raw(<<>>, {}, {"k"}, -1, 1),
     Raw(<<F("v", "gt", <<1>>)>>, {}, {}, 1, 1), Raw(<<>>, {}, {}, 0, 0)}

Request(op, via, raw, body, repr, count, mode) ==
    [op |-> op, via |-> via, query |-> raw, body |-> body,
     repr |-> repr, count |-> count, mode |-> mode]

Gets ==
    {Request("select", "rest", raw, <<>>, FALSE, n, "list") :
        raw \in Filtered \cup Shaped \cup Paged, n \in BOOLEAN}
    \cup {Request("select", "rest", raw, <<>>, FALSE, FALSE, mode) :
        raw \in {All} \cup Shaped, mode \in {"single", "maybe"}}

Bodies ==
    {<<[k |-> 1, v |-> 2]>>, <<[k |-> 2]>>, <<[k |-> 1, v |-> 1], [k |-> 2, v |-> 2]>>}

Posts ==
    {Request(op, "rest", All, b, repr, FALSE, "list") :
        op \in {"insert", "upsert"}, b \in Bodies, repr \in BOOLEAN}

Changes ==
    {Request("update", "rest", raw, <<[v |-> 2]>>, repr, FALSE, "list") :
        raw \in {All} \cup Filtered \cup Shaped, repr \in BOOLEAN}
    \cup {Request("update", "rest", raw, <<[v |-> Null]>>, FALSE, FALSE, "list") :
        raw \in {All, Raw(<<F("k", "eq", <<2>>)>>, {}, {}, -1, 0)}}
    \cup {Request("delete", "rest", raw, <<>>, repr, FALSE, "list") :
        raw \in {All} \cup Filtered \cup Shaped, repr \in BOOLEAN}

Rpcs ==
    {Request("select", "rpc", q, <<>>, FALSE, FALSE, "list") :
        q \in {All, Raw(<<F("v", "eq", <<1>>)>>, {}, {}, -1, 0)}}
    \cup {Request(op, "rpc", Raw(<<F("k", "eq", <<1>>)>>, {}, {}, -1, 0),
                 <<[k |-> 1, v |-> 1]>>, FALSE, FALSE, "list") :
        op \in {"insert", "upsert", "delete", "invoke"}}
    \cup {Request("update", "rpc", Raw(<<F("k", "eq", <<1>>)>>, {}, {}, -1, 0),
                 <<[v |-> 1]>>, FALSE, FALSE, "list")}

MCRequests == Gets \cup Posts \cup Changes \cup Rpcs

=============================================================================
