------------------------------- MODULE DataApi -------------------------------
(***************************************************************************)
(* internal/api/rest and the table operations of internal/engine: one data *)
(* request from its arrival to its answer, against a remote table that     *)
(* others write to as well.  A step is one call of the driver; between two *)
(* calls of one request anything may happen to the table.                  *)
(***************************************************************************)
EXTENDS RemoteTable

CONSTANTS
    Served,     \* the protocols looked at
    Mappings,   \* column definitions a table may have: local name -> remote name
    Requests,   \* what clients send
    MaxOthers   \* bound on the writes of others

Methods == {"select", "insert", "upsert", "update", "delete", "invoke"}

\* Filters and rows that name columns of the table and have values for them.
Filters(m) == [col : DOMAIN m, op : Ops, val : Seq(Vals)]

BodyRows(m) == UNION {[names -> Vals \cup {Null}] : names \in SUBSET DOMAIN m}

QueryFits(raw, m) ==
    /\ raw.filters \in Seq(Filters(m)) /\ raw.groups \subseteq Filters(m)
    /\ \A f \in Range(raw.filters) \cup raw.groups : f.op # "is" => f.val # <<>>
    /\ raw.limit \in Nat \cup {-1} /\ raw.offset \in Nat

\* The parameters of a function: handleRPC reads no header, and invokeTableOp
\* makes an eq filter of every one of them, select and limit too.
RpcOnly(r) ==
    /\ r.mode = "list" /\ ~r.count
    /\ r.query.groups = {} /\ r.query.select = {} /\ r.query.limit = -1 /\ r.query.offset = 0
    /\ \A f \in Range(r.query.filters) : f.op = "eq"

\* op: GET, POST, POST with resolution=merge-duplicates, PATCH, DELETE, or the
\* operation of a function.  repr: return=representation.  mode: the Accept
\* header asks for one row ("single"), at most one ("maybe"), or a list.
ASSUME RequestAssumption ==
    /\ Served \subseteq Protocols /\ MaxOthers \in Nat
    /\ \A r \in Requests :
         /\ r.op \in Methods /\ r.via \in {"rest", "rpc"} /\ (r.via = "rpc" => RpcOnly(r))
         /\ r.repr \in BOOLEAN /\ r.count \in BOOLEAN /\ r.mode \in {"list", "single", "maybe"}
         /\ r.op \in {"insert", "upsert", "update"} => r.body # <<>>
         /\ r.op \in {"insert", "upsert"} =>
              \A h \in DOMAIN r.body : KeyCol \in DOMAIN r.body[h] /\ r.body[h][KeyCol] \in Vals
         /\ r.op = "update" => KeyCol \notin DOMAIN r.body[1]   \* no row is moved

\* A column has a remote name of its own, and every request is about the table.
ASSUME MappingAssumption ==
    \A m \in Mappings :
        /\ KeyCol \in DOMAIN m /\ m[KeyCol] = KeyCol /\ None \notin Rows(m)
        /\ \A c, d \in DOMAIN m : m[c] = m[d] => c = d
        /\ \A r \in Requests : QueryFits(r.query, m) /\ r.body \in Seq(BodyRows(m))

VARIABLES
    protocol, cols, \* the server's protocol, the table's columns; they do not change
    tbl,            \* the remote table
    phase,          \* where the request is
    req,            \* the request
    i,              \* InsertMany: rows written so far
    ans,            \* the answer
    start, alone,   \* history: nobody else wrote since the request arrived; the table then
    others          \* writes of others so far

fixed == <<protocol, cols>>
ghosts == <<start, alone, others>>
vars  == <<protocol, cols, tbl, phase, req, i, ans, start, alone, others>>

Phases   == {"idle", "call", "conflict", "count", "again", "done"}
Statuses == {"none", "ok", "error", "unsupported"}

\* rows: the rows of the body, by key; n, total: -1 when there is none.
NoRows   == [x \in {} |-> Null]
NoAnswer == [status |-> "none", rows |-> NoRows, n |-> -1, total |-> -1]

NoRequest == [op |-> "none"]

Query == IF req.via = "rpc" THEN ParseRPC(req.query) ELSE ParseQuery(req.query)

DataTypeOK ==
    /\ protocol \in Served /\ cols \in Mappings
    /\ tbl \in Tables(cols) /\ \A x \in Present(tbl) : tbl[x][KeyCol] = x
    /\ phase \in Phases
    /\ IF phase = "idle" THEN req = NoRequest ELSE req \in Requests
    /\ i \in Nat
    /\ ans.status \in Statuses /\ DOMAIN ans.rows \subseteq Vals
    /\ start \in Tables(cols) /\ alone \in BOOLEAN /\ others \in 0..MaxOthers

KeyedTables(m) == {t \in Tables(m) : \A x \in Present(t) : t[x][KeyCol] = x}

Init ==
    /\ protocol \in Served /\ cols \in Mappings
    /\ tbl \in KeyedTables(cols)
    /\ phase = "idle" /\ req = NoRequest /\ i = 0 /\ ans = NoAnswer
    /\ start = tbl /\ alone = TRUE /\ others = 0

(***************************************************************************)
(* The handler                                                             *)
(***************************************************************************)

\* handle, handleInsert, handleUpdate, handleRPC up to the first engine call.
\* Requests with an embedded select, an undecodable body, an empty list of rows or
\* another method are refused there and leave nothing behind.  An empty body,
\* which decodeInsertBody takes for one row without columns, is left out.
Arrive(r) ==
    /\ phase = "idle"
    /\ req' = r /\ phase' = "call" /\ i' = 0 /\ ans' = NoAnswer
    /\ start' = tbl /\ alone' = TRUE
    /\ UNCHANGED <<fixed, tbl, others>>

Refused(status) ==
    /\ phase' = "done"
    /\ ans' = [NoAnswer EXCEPT !.status = status]
    /\ UNCHANGED <<fixed, tbl, req, i, ghosts>>

\* The answer of writeSelectResult: one row or none where the client asked for it.
Coerced(rows, total) ==
    LET n == Cardinality(DOMAIN rows)
    IN  IF \/ req.mode = "single" /\ n # 1
           \/ req.mode = "maybe" /\ n > 1
        THEN [NoAnswer EXCEPT !.status = "error"]
        ELSE [NoAnswer EXCEPT !.status = "ok", !.rows = rows, !.total = total]

\* handleSelect and the select function: Engine.Select ...
SelectRows ==
    /\ phase = "call" /\ req.op = "select"
    /\ \E rows \in Answers(protocol, cols, Query, tbl) :
         IF req.count
         THEN phase' = "count" /\ ans' = [NoAnswer EXCEPT !.rows = rows]
         ELSE phase' = "done" /\ ans' = Coerced(rows, -1)
    /\ UNCHANGED <<fixed, tbl, req, i, ghosts>>

\* ... then Engine.Count, a second query.
CountRows ==
    /\ phase = "count"
    /\ phase' = "done"
    /\ ans' = Coerced(ans.rows, Count(protocol, cols, Query, tbl))
    /\ UNCHANGED <<fixed, tbl, req, i, ghosts>>

\* The row a driver hands back after an insert: PostgreSQL and MySQL none (MySQL
\* the generated id, when there is one), and none after the update of an upsert.
WithReturned(rows, row) ==
    IF phase = "call" /\ protocol \in {"mongo", "redis", "http"} /\ (req.repr \/ req.via = "rpc")
    THEN [x \in DOMAIN rows \cup {row[KeyCol]} |->
             IF x = row[KeyCol] THEN FromRemote(cols, ToRemote(cols, row)) ELSE rows[x]]
    ELSE rows

\* Engine.Insert is done with row i + 1: InsertMany goes on with the next.
RowDone ==
    LET rows == WithReturned(ans.rows, req.body[i + 1])
    IN  /\ i' = i + 1
        /\ IF i + 1 = Len(req.body)
           THEN phase' = "done" /\ ans' = [ans EXCEPT !.status = "ok", !.rows = rows]
           ELSE phase' = "call" /\ ans' = [ans EXCEPT !.rows = rows]

\* Fault: InsertMany skips a row that fails and goes on.
InsertRowSkipping ==
    /\ phase = "call" /\ req.op = "insert"
    /\ LET out == Insert(protocol, cols, tbl, req.body[i + 1])
       IN  tbl' = out.tbl
    /\ RowDone
    /\ UNCHANGED <<fixed, req, ghosts>>

\* handleInsert, Engine.Insert and InsertMany with driver.Insert.
InsertRow ==
    /\ phase = "call" /\ req.op = "insert"
    /\ LET out == Insert(protocol, cols, tbl, req.body[i + 1])
       IN  out.ok /\ tbl' = out.tbl
    /\ RowDone
    /\ UNCHANGED <<fixed, req, ghosts>>

OneCallUpsert == {"mysql", "mongo", "redis", "http"}

\* driver.Upsert where it is one call to the server.
UpsertRow ==
    /\ phase = "call" /\ req.op = "upsert"
    /\ protocol \in OneCallUpsert
    /\ LET out == UpsertAtOnce(protocol, cols, tbl, req.body[i + 1])
       IN  out.ok /\ tbl' = out.tbl
    /\ RowDone
    /\ UNCHANGED <<fixed, req, ghosts>>

\* Upsert of postgres, and of http against a server that does not merge
\* duplicates: an insert, and on a conflict ...
UpsertInsert ==
    /\ phase = "call" /\ req.op = "upsert"
    /\ protocol \in {"postgres", "http"}
    /\ LET out == Insert(protocol, cols, tbl, req.body[i + 1])
       IN  IF out.ok THEN tbl' = out.tbl /\ RowDone
           ELSE phase' = "conflict" /\ UNCHANGED <<tbl, i, ans>>
    /\ UNCHANGED <<fixed, req, ghosts>>

\* ... Update with the same request, which has no filters.
NoFilters == ParseQuery([filters |-> <<>>, groups |-> {}, select |-> {},
                         limit |-> -1, offset |-> 0])

UpsertUpdate ==
    /\ phase = "conflict"
    /\ LET out == Update(protocol, cols, tbl, req.body[i + 1], NoFilters)
       IN  out.ok /\ tbl' = out.tbl
    /\ RowDone
    /\ UNCHANGED <<fixed, req, ghosts>>

\* After a PATCH or DELETE: 204, or a Select with the same query for
\* return=representation; a function answers with the count.
Written(n) ==
    IF req.via = "rest" /\ req.repr
    THEN phase' = "again" /\ UNCHANGED ans
    ELSE /\ phase' = "done"
         /\ ans' = [ans EXCEPT !.status = "ok",
                               !.n = IF req.via = "rpc" THEN n ELSE -1]

\* handleUpdate, Engine.Update.
UpdateRows ==
    /\ phase = "call" /\ req.op = "update"
    /\ LET out == Update(protocol, cols, tbl, req.body[1], Query)
       IN  out.ok /\ tbl' = out.tbl /\ Written(out.n)
    /\ UNCHANGED <<fixed, req, i, ghosts>>

\* handleDelete, Engine.Delete.
DeleteRows ==
    /\ phase = "call" /\ req.op = "delete"
    /\ LET out == Delete(protocol, cols, tbl, Query)
       IN  out.ok /\ tbl' = out.tbl /\ Written(out.n)
    /\ UNCHANGED <<fixed, req, i, ghosts>>

\* The Select of return=representation.
SelectAgain ==
    /\ phase = "again"
    /\ \E rows \in Answers(protocol, cols, Query, tbl) :
         ans' = [ans EXCEPT !.status = "ok", !.rows = rows]
    /\ phase' = "done"
    /\ UNCHANGED <<fixed, tbl, req, i, ghosts>>

\* A function of operation invoke: only the http driver has one.
Invoke ==
    /\ phase = "call" /\ req.op = "invoke"
    /\ Refused(IF protocol = "http" THEN "ok" ELSE "unsupported")

\* driver.ErrNotSupported, through WrapNotSupported.
Unsupported ==
    /\ phase = "call" /\ protocol = "file"
    /\ req.op \in {"insert", "upsert", "update", "delete"}
    /\ Refused("unsupported")

\* The driver call fails: always where the server refuses it, and at any call
\* (resolving, connecting, the connection itself) for reasons of its own.
\* What earlier calls of the request did stays.
Fail ==
    /\ phase \in {"call", "conflict", "count", "again"}
    /\ Refused("error")

\* What the next call asks of the server.
NextCall ==
    CASE phase = "conflict" -> Update(protocol, cols, tbl, req.body[i + 1], NoFilters)
      [] phase = "call" /\ (req.op = "insert" \/ (req.op = "upsert" /\ protocol = "postgres")) ->
           Insert(protocol, cols, tbl, req.body[i + 1])
      [] phase = "call" /\ req.op = "upsert" /\ protocol \in OneCallUpsert ->
           UpsertAtOnce(protocol, cols, tbl, req.body[i + 1])
      [] phase = "call" /\ req.op = "update" -> Update(protocol, cols, tbl, req.body[1], Query)
      [] phase = "call" /\ req.op = "delete" -> Delete(protocol, cols, tbl, Query)
      [] OTHER -> Refusal(tbl)

\* The server did what was asked but its reply is lost (a timeout, a broken
\* connection): the client sees the error.
LoseReply ==
    /\ NextCall.ok /\ tbl' = NextCall.tbl
    /\ phase' = "done"
    /\ ans' = [NoAnswer EXCEPT !.status = "error"]
    /\ UNCHANGED <<fixed, req, i, ghosts>>

\* Delete of redis is a DEL for each eq filter: one fails after some of the others.
DeleteSomeKeys ==
    /\ phase = "call" /\ req.op = "delete" /\ protocol = "redis"
    /\ \E keys \in SUBSET NamedKeys(Query) : tbl' = Removed(tbl, keys)
    /\ phase' = "done"
    /\ ans' = [NoAnswer EXCEPT !.status = "error"]
    /\ UNCHANGED <<fixed, req, i, ghosts>>

\* UpdateMany and DeleteMany of MongoDB write one document after another: what ends
\* them in their middle leaves the documents that were written.  The writes of SQL
\* servers and of a PostgREST are transactions.
WriteSomeDocuments ==
    /\ phase = "call" /\ req.op \in {"update", "delete"} /\ protocol = "mongo"
    /\ \E keys \in SUBSET Selected("mongo", cols, Query, tbl) :
         tbl' = IF req.op = "delete" THEN Removed(tbl, keys)
                ELSE SetRows(tbl, keys, ToRemote(cols, req.body[1]))
    /\ phase' = "done"
    /\ ans' = [NoAnswer EXCEPT !.status = "error"]
    /\ UNCHANGED <<fixed, req, i, ghosts>>

Finish ==
    /\ phase = "done"
    /\ phase' = "idle" /\ req' = NoRequest /\ i' = 0 /\ ans' = NoAnswer
    /\ start' = tbl /\ alone' = TRUE
    /\ UNCHANGED <<fixed, tbl, others>>

\* Another client of the remote table, of this service or not, writes a row.
Others ==
    /\ others < MaxOthers /\ others' = others + 1
    /\ \E x \in Vals, row \in Rows(cols) \cup {None} :
         /\ row # None => row[KeyCol] = x
         /\ tbl' = [tbl EXCEPT ![x] = row]
    /\ alone' = (phase = "idle") /\ start' = tbl'
    /\ UNCHANGED <<fixed, phase, req, i, ans>>

Handler ==
    \/ SelectRows \/ CountRows \/ InsertRow \/ UpsertRow \/ UpsertInsert \/ UpsertUpdate
    \/ UpdateRows \/ DeleteRows \/ SelectAgain \/ Invoke \/ Unsupported
    \/ Fail \/ LoseReply \/ DeleteSomeKeys \/ WriteSomeDocuments \/ Finish

Next == Others \/ Handler \/ \E r \in Requests : Arrive(r)

Spec == Init /\ [][Next]_vars

(***************************************************************************)
(* What a request means: the PostgREST reading of the query as the client  *)
(* wrote it, independent of the parser and of the drivers.                 *)
(***************************************************************************)

FilterMeans(f, x) ==
    /\ x # Null \/ f.op = "is"
    /\ CASE f.op = "eq"  -> x = f.val[1]
         [] f.op = "neq" -> x # f.val[1]
         [] f.op = "gt"  -> x > f.val[1]
         [] f.op = "in"  -> x \in Range(f.val)
         [] f.op = "is"  -> x = Null

Meant(raw, t) ==
    {x \in Present(t) :
        /\ \A h \in DOMAIN raw.filters : FilterMeans(raw.filters[h], At(cols, t[x], raw.filters[h]))
        /\ raw.groups # {} => \E f \in raw.groups : FilterMeans(f, At(cols, t[x], f))}

MeantSize(raw, n) ==
    LET left == IF n > raw.offset THEN n - raw.offset ELSE 0
    IN  IF raw.limit >= 0 /\ raw.limit < left THEN raw.limit ELSE left

Operators(raw) == {raw.filters[h].op : h \in DOMAIN raw.filters} \cup {f.op : f \in raw.groups}

\* The part of the query language every driver of protocol p carries out as
\* PostgREST would; the README lists what falls outside, driver by driver.
Portable(p, raw) ==
    /\ raw.limit # 0
    /\ \A h, l \in DOMAIN raw.filters : raw.filters[h].col = raw.filters[l].col => h = l
    /\ p # "postgres" => raw.groups = {} \/ (p = "file" /\ raw.filters = <<>>)
    /\ Operators(raw) \subseteq
         CASE p = "http"     -> Ops
           [] p \in SqlDrivers -> {"eq", "neq", "gt", "is"}
           [] p = "mongo"    -> {"eq", "gt"}
           [] p = "redis"    -> {"eq"}
           [] p = "file"     -> {"eq", "gt", "is"}

\* Redis writes go by the key alone, and it has no null.
PortableWrite(p, raw) ==
    /\ Portable(p, raw)
    /\ p = "redis" => /\ Len(raw.filters) = 1 /\ raw.filters[1].col = KeyCol
                      /\ start[raw.filters[1].val[1]] # None
                      /\ req.op = "update" => Null \notin Range(req.body[1])

Answered200 == phase = "done" /\ ans.status = "ok"

Unrenamed == \A c \in DOMAIN cols : cols[c] = c

(***************************************************************************)
(* A GET that nobody writes during is answered with a page of exactly the  *)
(* rows its filters mean, of the size limit and offset ask for, and with   *)
(* the number of all of them as the total of count=exact, their columns    *)
(* intact where no column is renamed (redis adds _key to them); rows are   *)
(* read and counted by two queries built separately (Select and Count of   *)
(* each driver, handleSelect).                                             *)
(***************************************************************************)
AnswersMatchQuery ==
    alone /\ Answered200 /\ req.op = "select" /\ Portable(protocol, req.query) =>
        LET meant == Meant(req.query, tbl)
        IN  /\ DOMAIN ans.rows \subseteq meant
            /\ Cardinality(DOMAIN ans.rows) = MeantSize(req.query, Cardinality(meant))
            /\ req.count => ans.total = Cardinality(meant)
            /\ req.mode = "single" => Cardinality(DOMAIN ans.rows) = 1
            /\ Unrenamed => \A x \in DOMAIN ans.rows :
                 ans.rows[x] = IF req.query.select = {} THEN tbl[x]
                               ELSE Restrict(tbl[x], req.query.select \cap DOMAIN tbl[x])

\* What a PATCH or DELETE asks for.
Asked(raw, t) ==
    [x \in Vals |-> IF x \notin Meant(raw, t) THEN t[x]
                    ELSE IF req.op = "delete" THEN None
                    ELSE Over(ToRemote(cols, req.body[1]), t[x])]

(***************************************************************************)
(* A PATCH or DELETE that nobody else writes during has, at any point,     *)
(* left every row as it was or made of it what its filters and body mean,  *)
(* whether its reply was lost or the Select of return=representation       *)
(* failed; once it is answered with success all of it is done.  On every   *)
(* server but MongoDB it is done whole or not at all (handleUpdate,        *)
(* handleDelete, the WHERE built by each driver).                          *)
(***************************************************************************)
WritesAsAsked ==
    (/\ alone /\ phase # "idle" /\ req.op \in {"update", "delete"}
     /\ PortableWrite(protocol, req.query)) =>
        LET asked == Asked(req.query, start)
        IN  /\ \A x \in Vals : tbl[x] \in {start[x], asked[x]}
            /\ protocol # "mongo" => tbl \in {start, asked}
            /\ phase = "again" \/ Answered200 => tbl = asked

(***************************************************************************)
(* A POST without resolution=merge-duplicates never touches a row that is  *)
(* there, whoever wrote it and however the request ends.  Redis is the     *)
(* exception: its Insert is HSET or SET (redis.go, Insert).                *)
(***************************************************************************)
KeepsRows == \A x \in Present(tbl) : tbl'[x] = tbl[x]

InsertNeverOverwrites ==
    [][req.op = "insert" /\ Handler /\ protocol # "redis" => KeepsRows]_vars

(***************************************************************************)
(* An upsert touches the rows its body names by their key and no other.    *)
(* The Upsert of postgres, and of http where the server does not merge     *)
(* duplicates, falls back to an UPDATE without a WHERE and breaks this     *)
(* (postgres.go:246, http.go:252).                                         *)
(***************************************************************************)
BodyKeys == {req.body[h][KeyCol] : h \in DOMAIN req.body}

TouchesOnly(keys) == \A x \in Vals \ keys : tbl'[x] = tbl[x]

UpsertTouchesItsRow ==
    [][req.op = "upsert" /\ Handler => TouchesOnly(BodyKeys)]_vars

UpsertAtOnceTouchesItsRow ==
    [][req.op = "upsert" /\ Handler /\ protocol \in OneCallUpsert \ {"http"}
         => TouchesOnly(BodyKeys)]_vars

(***************************************************************************)
(* What a bulk POST leaves when nobody else writes: the first rows of its  *)
(* body, in order, and all of them if it is answered with success; a lost  *)
(* reply may hide one more than the client could count (InsertMany stops   *)
(* at the first error and keeps what is written).                          *)
(***************************************************************************)
Inserted(t, n) ==
    [x \in Vals |->
        IF \E h \in 1..n : req.body[h][KeyCol] = x
        THEN Over(ToRemote(cols, req.body[CHOOSE h \in 1..n : req.body[h][KeyCol] = x]),
                  Blank(cols, x))
        ELSE t[x]]

BulkInsertIsAPrefix ==
    alone /\ phase # "idle" /\ req.op = "insert" /\ protocol # "redis" =>
        /\ \E n \in i..i + 1 : n <= Len(req.body) /\ tbl = Inserted(start, n)
        /\ phase = "call" => tbl = Inserted(start, i)
        /\ Answered200 => tbl = Inserted(start, Len(req.body))

=============================================================================
