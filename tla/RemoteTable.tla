----------------------------- MODULE RemoteTable -----------------------------
(***************************************************************************)
(* What internal/postgrest and the drivers make of one data request: the   *)
(* query that is parsed, the rows it selects, and what each driver's       *)
(* Select, Insert, Upsert, Update and Delete do to the remote table.       *)
(* Constant-level: every operator takes the table it works on.             *)
(*                                                                         *)
(* A table is a function from the value of the key column to a row or      *)
(* None; a row maps remote column names to values.  NULL, a missing        *)
(* document field and a missing hash field are all Null.  The remote key   *)
(* is unique (a primary key or a unique index, redis keys by nature).      *)
(*                                                                         *)
(* A definition marked Fault is one of the next definition's mutations: a  *)
(* change to the code that could pass unnoticed.  Nothing uses it.         *)
(***************************************************************************)
EXTENDS Integers, FiniteSets, Sequences, Functions

CONSTANTS
    Vals,       \* column values; all texts, compared by their order
    Null, None, \* no value, no row
    NilText,    \* the text <nil>
    KeyCol      \* the one key column; its local name is its remote name

ASSUME TableAssumption ==
    /\ Vals \subseteq Nat
    /\ Null \notin Vals /\ NilText \in Vals

Protocols  == {"postgres", "mysql", "mongo", "redis", "http", "file"}
SqlDrivers == {"postgres", "mysql"}
Ops        == {"eq", "neq", "gt", "in", "is"}

\* cols: the column definitions of the resolved table, local name to remote.
RemoteNames(cols) == Range(cols)
Rows(cols)        == [RemoteNames(cols) -> Vals \cup {Null}]
Tables(cols)      == [Vals -> Rows(cols) \cup {None}]

Present(tbl) == {x \in Vals : tbl[x] # None}

(***************************************************************************)
(* The query                                                               *)
(*                                                                         *)
(* raw: what the client wrote: a sequence of filters, the alternatives of  *)
(* or=(...), select (a set of columns, {} for none), limit and offset      *)
(* (limit -1 when it is not given).  The val of a filter is a sequence,    *)
(* of one value except for in.(...).                                       *)
(***************************************************************************)

\* ParseQuery reads vals[0] of each parameter: the first filter of a column.
FirstPerColumn(filters) ==
    {filters[i] : i \in {j \in DOMAIN filters :
                           \A h \in 1..j - 1 : filters[h].col # filters[j].col}}

\* limit=0 and no limit are both 0, which every driver takes for "no limit".  An
\* and=, and an or= that does not parse, are dropped without an error; raw has none.
ParseQuery(raw) ==
    [filters |-> FirstPerColumn(raw.filters),
     groups  |-> raw.groups,
     select  |-> raw.select,
     limit   |-> IF raw.limit < 0 THEN 0 ELSE raw.limit,
     offset  |-> raw.offset]

\* invokeTableOp: the query parameters of an RPC are eq filters.
ParseRPC(raw) ==
    [ParseQuery(raw) EXCEPT !.groups = {}, !.select = {}, !.limit = 0, !.offset = 0]

\* MapFilters: the local name of a column becomes the remote one.
RemoteName(cols, name) == IF name \in DOMAIN cols THEN cols[name] ELSE name

\* MapRowToRemote.
ToRemote(cols, row) ==
    [n \in {RemoteName(cols, c) : c \in DOMAIN row} |->
        row[CHOOSE c \in DOMAIN row : RemoteName(cols, c) = n]]

\* MapRowsFromRemote, one row.
LocalName(cols, name) ==
    IF name \in RemoteNames(cols) THEN CHOOSE c \in DOMAIN cols : cols[c] = name ELSE name

FromRemote(cols, row) ==
    [c \in {LocalName(cols, n) : n \in DOMAIN row} |->
        row[CHOOSE n \in DOMAIN row : LocalName(cols, n) = c]]

\* The members of in.(1,2,3) that can match.  The parentheses stay in the
\* text that is split at the commas, so the first and the last never do.
InMembers(val) == {val[i] : i \in 2..Len(val) - 1}

(***************************************************************************)
(* Which rows a query selects                                              *)
(***************************************************************************)

\* buildWhere: SQL comparisons, false on NULL.
SqlHolds(f, x) ==
    \/ f.op = "eq"  /\ x = f.val[1] /\ x # Null
    \/ f.op = "neq" /\ x # f.val[1] /\ x # Null
    \/ f.op = "gt"  /\ x # Null /\ x > f.val[1]
    \/ f.op = "in"  /\ x \in InMembers(f.val)
    \/ f.op = "is"  /\ x = Null

\* filtersToBSON: $ne also selects documents without the field, and is.null
\* falls to the default, equality with the text "null".
BsonHolds(f, x) ==
    \/ f.op = "eq"  /\ x = f.val[1]
    \/ f.op = "neq" /\ x # f.val[1]
    \/ f.op = "gt"  /\ x # Null /\ x > f.val[1]
    \/ f.op = "in"  /\ x \in InMembers(f.val)

\* matchFilters of the redis driver: every operator but eq selects every row.
RedisHolds(f, x) == f.op = "eq" => x = f.val[1]

\* matchFilter of postgrest, which the file driver uses.  A row without a value
\* lacks the column; a null in a JSON file would compare as the text <nil>.
TextHolds(f, x) ==
    \/ f.op = "eq"  /\ x = f.val[1]
    \/ f.op = "neq" /\ x # f.val[1]
    \/ f.op = "gt"  /\ x # Null /\ x > f.val[1]
    \/ f.op = "in"  /\ x \in InMembers(f.val)
    \/ f.op = "is"  /\ x = Null

\* Value of the column filter f is about.
At(cols, row, f) == row[RemoteName(cols, f.col)]

\* Fault: the groups of or= are one more list of alternatives to the filters.
PostgresSelectsEither(cols, q, row) ==
    \/ \A f \in q.filters : SqlHolds(f, At(cols, row, f))
    \/ \E f \in q.groups : SqlHolds(f, At(cols, row, f))

\* whereClause of postgres; the or= groups reach no other server.
PostgresSelects(cols, q, row) ==
    /\ \A f \in q.filters : SqlHolds(f, At(cols, row, f))
    /\ q.groups # {} => \E f \in q.groups : SqlHolds(f, At(cols, row, f))

\* buildWhereMySQL.
MySqlSelects(cols, q, row) == \A f \in q.filters : SqlHolds(f, At(cols, row, f))

\* FiltersToQueryValues: the filters go to the server, a PostgREST, as they came.
HttpHolds(f, x) == IF f.op = "in" THEN x \in Range(f.val) ELSE SqlHolds(f, x)

HttpSelects(cols, q, row) == \A f \in q.filters : HttpHolds(f, At(cols, row, f))

MongoSelects(cols, q, row) == \A f \in q.filters : BsonHolds(f, At(cols, row, f))

RedisSelects(cols, q, row) == \A f \in q.filters : RedisHolds(f, At(cols, row, f))

\* MatchQuery of postgrest: with groups the filters are not looked at.
MatchQuery(cols, q, row) ==
    IF q.groups # {} THEN \E f \in q.groups : TextHolds(f, At(cols, row, f))
    ELSE \A f \in q.filters : TextHolds(f, At(cols, row, f))

Selects(p, cols, q, row) ==
    CASE p = "postgres" -> PostgresSelects(cols, q, row)
      [] p = "mysql"    -> MySqlSelects(cols, q, row)
      [] p = "http"     -> HttpSelects(cols, q, row)
      [] p = "mongo"    -> MongoSelects(cols, q, row)
      [] p = "redis"    -> RedisSelects(cols, q, row)
      [] p = "file"     -> MatchQuery(cols, q, row)

Selected(p, cols, q, tbl) == {x \in Present(tbl) : Selects(p, cols, q, tbl[x])}

(***************************************************************************)
(* Select and Count                                                        *)
(*                                                                         *)
(* A Select gives the set of its possible answers, functions from keys to  *)
(* answered rows: none where the server refuses the query, several where   *)
(* which rows are on the page is up to the order.                          *)
(***************************************************************************)

PageSize(n, limit, offset) ==
    LET left == IF n > offset THEN n - offset ELSE 0
    IN  IF limit > 0 /\ limit < left THEN limit ELSE left

Pages(p, cols, q, tbl) ==
    LET hits == Selected(p, cols, q, tbl)
    IN  {s \in SUBSET hits : Cardinality(s) = PageSize(Cardinality(hits), q.limit, q.offset)}

\* applySelect, projectBSON, the column list of SELECT: local names, but
\* looked up among the remote ones.
Columns(q, row) ==
    IF q.select = {} THEN row ELSE Restrict(row, q.select \cap DOMAIN row)

\* A name the table does not have is an error in SQL.
Known(cols, q) == q.select \subseteq RemoteNames(cols)

AsStored(q, tbl, page)      == [x \in page |-> Columns(q, tbl[x])]
Renamed(cols, q, tbl, page) == [x \in page |-> FromRemote(cols, Columns(q, tbl[x]))]

\* scanRows names the values as the server does.
PostgresSelect(cols, q, tbl) ==
    {AsStored(q, tbl, page) : page \in
        {s \in Pages("postgres", cols, q, tbl) : Known(cols, q)}}

\* No OFFSET without LIMIT in MySQL.
MySqlSelect(cols, q, tbl) ==
    {AsStored(q, tbl, page) : page \in
        {s \in Pages("mysql", cols, q, tbl) : Known(cols, q) /\ (q.offset > 0 => q.limit > 0)}}

\* MapRowsFromRemote, in every driver below.
HttpSelect(cols, q, tbl) ==
    {Renamed(cols, q, tbl, page) : page \in
        {s \in Pages("http", cols, q, tbl) : Known(cols, q)}}

\* Its documents also come with their _id, which is left out.
MongoSelect(cols, q, tbl) ==
    {Renamed(cols, q, tbl, page) : page \in Pages("mongo", cols, q, tbl)}

\* The scan and the reads of its keys are taken for one step; _key is left out.
RedisSelect(cols, q, tbl) ==
    {Renamed(cols, q, tbl, page) : page \in Pages("redis", cols, q, tbl)}

FileSelect(cols, q, tbl) ==
    {Renamed(cols, q, tbl, page) : page \in Pages("file", cols, q, tbl)}

Answers(p, cols, q, tbl) ==
    CASE p = "postgres" -> PostgresSelect(cols, q, tbl)
      [] p = "mysql"    -> MySqlSelect(cols, q, tbl)
      [] p = "http"     -> HttpSelect(cols, q, tbl)
      [] p = "mongo"    -> MongoSelect(cols, q, tbl)
      [] p = "redis"    -> RedisSelect(cols, q, tbl)
      [] p = "file"     -> FileSelect(cols, q, tbl)

\* SELECT COUNT(*) with the same WHERE.
PostgresCount(cols, q, tbl) ==
    Cardinality({x \in Present(tbl) : PostgresSelects(cols, q, tbl[x])})

\* Fault: the request's limit and offset are left in the query that counts.
CountOfPage(p, cols, q, tbl) ==
    PageSize(Cardinality(Selected(p, cols, q, tbl)), q.limit, q.offset)

\* driver.Count: the other drivers count what a Select without page answers.
Count(p, cols, q, tbl) ==
    IF p = "postgres" THEN PostgresCount(cols, q, tbl)
    ELSE Cardinality(Selected(p, cols, q, tbl))

(***************************************************************************)
(* Writes: [ok, tbl, n], with n the count the driver reports               *)
(***************************************************************************)

Outcome(ok, tbl, n) == [ok |-> ok, tbl |-> tbl, n |-> n]

\* An error, and nothing written.
Refusal(tbl) == Outcome(FALSE, tbl, 0)

\* The row given, over what the row had.
Over(row, old) == [c \in DOMAIN old |-> IF c \in DOMAIN row THEN row[c] ELSE old[c]]

\* Fault: the key is stored in the name of the record but not in the record.
BlankWithoutKey(cols, key) == [n \in RemoteNames(cols) |-> Null]

Blank(cols, key) == [n \in RemoteNames(cols) |-> IF n = KeyCol THEN key ELSE Null]

\* rowToColsNonKeys.
NonKeys(row) == Restrict(row, DOMAIN row \ {KeyCol})

\* Every row of keys overwritten with the given columns.
SetRows(tbl, keys, row) ==
    [x \in Vals |-> IF x \in keys THEN Over(row, tbl[x]) ELSE tbl[x]]

PutRow(cols, tbl, key, row) ==
    [tbl EXCEPT ![key] = Over(row, IF tbl[key] = None THEN Blank(cols, key) ELSE tbl[key])]

Changed(old, new) == Cardinality({x \in Vals : old[x] # new[x]})

Removed(tbl, keys) == [x \in Vals |-> IF x \in keys THEN None ELSE tbl[x]]

(***************************************************************************)
(* Insert                                                                  *)
(***************************************************************************)

\* A unique key: a duplicate is an error.
InsertNew(cols, tbl, r) ==
    IF tbl[r[KeyCol]] = None THEN Outcome(TRUE, PutRow(cols, tbl, r[KeyCol], r), 1)
    ELSE Refusal(tbl)

PostgresInsert(cols, tbl, row) == InsertNew(cols, tbl, ToRemote(cols, row))

MySqlInsert(cols, tbl, row) == InsertNew(cols, tbl, ToRemote(cols, row))

MongoInsert(cols, tbl, row) == InsertNew(cols, tbl, ToRemote(cols, row))

HttpInsert(cols, tbl, row) == InsertNew(cols, tbl, ToRemote(cols, row))

\* fmt.Sprint: a null is stored as a text.
Sprint(row) == [c \in DOMAIN row |-> IF row[c] = Null THEN NilText ELSE row[c]]

\* HSET: what is there is overwritten, field by field.
RedisInsert(cols, tbl, row) ==
    LET r == Sprint(ToRemote(cols, row))
    IN  Outcome(TRUE, PutRow(cols, tbl, r[KeyCol], r), 1)

\* Fault: a duplicate key is overwritten everywhere.
InsertOverwriting(p, cols, tbl, row) ==
    IF p = "file" THEN Refusal(tbl) ELSE RedisInsert(cols, tbl, row)

Insert(p, cols, tbl, row) ==
    CASE p = "postgres" -> PostgresInsert(cols, tbl, row)
      [] p = "mysql"    -> MySqlInsert(cols, tbl, row)
      [] p = "mongo"    -> MongoInsert(cols, tbl, row)
      [] p = "http"     -> HttpInsert(cols, tbl, row)
      [] p = "redis"    -> RedisInsert(cols, tbl, row)
      [] p = "file"     -> Refusal(tbl)

(***************************************************************************)
(* Upsert, where it is one call to the server                              *)
(***************************************************************************)

\* ON DUPLICATE KEY UPDATE.
MySqlUpsert(cols, tbl, row) ==
    LET r == ToRemote(cols, row)
    IN  Outcome(TRUE, PutRow(cols, tbl, r[KeyCol], r), 1)

\* Fault: the filter is empty, and UpdateOne takes the first document.
MongoUpsertFirst(cols, tbl, row) ==
    LET r     == ToRemote(cols, row)
        first == CHOOSE x \in Present(tbl) : \A y \in Present(tbl) : x <= y
    IN  Outcome(TRUE, IF Present(tbl) = {} THEN PutRow(cols, tbl, r[KeyCol], r)
                      ELSE SetRows(tbl, {first}, NonKeys(r)), 1)

\* UpdateOne with upsert, by the key columns the body has.
MongoUpsert(cols, tbl, row) ==
    LET r == ToRemote(cols, row)
    IN  IF KeyCol \in DOMAIN r THEN Outcome(TRUE, PutRow(cols, tbl, r[KeyCol], r), 1)
        ELSE Refusal(tbl)

RedisUpsert(cols, tbl, row) == RedisInsert(cols, tbl, row)

\* A server that merges duplicates when it is asked to.
HttpUpsert(cols, tbl, row) ==
    LET r == ToRemote(cols, row)
    IN  Outcome(TRUE, PutRow(cols, tbl, r[KeyCol], r), 1)

UpsertAtOnce(p, cols, tbl, row) ==
    CASE p = "mysql" -> MySqlUpsert(cols, tbl, row)
      [] p = "mongo" -> MongoUpsert(cols, tbl, row)
      [] p = "redis" -> RedisUpsert(cols, tbl, row)
      [] p = "http"  -> HttpUpsert(cols, tbl, row)

(***************************************************************************)
(* Update                                                                  *)
(***************************************************************************)

\* SQL and HTTP leave the key columns of the body out.
PostgresUpdate(cols, tbl, row, q) ==
    LET r    == NonKeys(ToRemote(cols, row))
        hits == Selected("postgres", cols, q, tbl)
    IN  IF DOMAIN r = {} THEN Refusal(tbl)
        ELSE Outcome(TRUE, SetRows(tbl, hits, r), Cardinality(hits))

\* MySQL reports the rows that changed.
MySqlUpdate(cols, tbl, row, q) ==
    LET r    == NonKeys(ToRemote(cols, row))
        next == SetRows(tbl, Selected("mysql", cols, q, tbl), r)
    IN  IF DOMAIN r = {} THEN Refusal(tbl) ELSE Outcome(TRUE, next, Changed(tbl, next))

MongoUpdate(cols, tbl, row, q) ==
    LET next == SetRows(tbl, Selected("mongo", cols, q, tbl), ToRemote(cols, row))
    IN  Outcome(TRUE, next, Changed(tbl, next))

\* The number of rows is not known.
HttpUpdate(cols, tbl, row, q) ==
    Outcome(TRUE, SetRows(tbl, Selected("http", cols, q, tbl), NonKeys(ToRemote(cols, row))), 1)

\* The value of the one eq filter is the key, whatever its column; the key is
\* made if it is not there.
RedisUpdate(cols, tbl, row, q) ==
    IF Cardinality(q.filters) = 1 /\ \A f \in q.filters : f.op = "eq"
    THEN Outcome(TRUE, PutRow(cols, tbl, (CHOOSE f \in q.filters : TRUE).val[1],
                              Sprint(ToRemote(cols, row))), 1)
    ELSE Refusal(tbl)

Update(p, cols, tbl, row, q) ==
    CASE p = "postgres" -> PostgresUpdate(cols, tbl, row, q)
      [] p = "mysql"    -> MySqlUpdate(cols, tbl, row, q)
      [] p = "mongo"    -> MongoUpdate(cols, tbl, row, q)
      [] p = "http"     -> HttpUpdate(cols, tbl, row, q)
      [] p = "redis"    -> RedisUpdate(cols, tbl, row, q)
      [] p = "file"     -> Refusal(tbl)

(***************************************************************************)
(* Delete                                                                  *)
(***************************************************************************)

PostgresDelete(cols, tbl, q) ==
    LET hits == Selected("postgres", cols, q, tbl)
    IN  Outcome(TRUE, Removed(tbl, hits), Cardinality(hits))

MySqlDelete(cols, tbl, q) ==
    LET hits == Selected("mysql", cols, q, tbl)
    IN  Outcome(TRUE, Removed(tbl, hits), Cardinality(hits))

MongoDelete(cols, tbl, q) ==
    LET hits == Selected("mongo", cols, q, tbl)
    IN  Outcome(TRUE, Removed(tbl, hits), Cardinality(hits))

HttpDelete(cols, tbl, q) == Outcome(TRUE, Removed(tbl, Selected("http", cols, q, tbl)), 1)

\* The keys the eq filters name, whatever their columns.
NamedKeys(q) == {f.val[1] : f \in {g \in q.filters : g.op = "eq"}}

RedisDelete(cols, tbl, q) ==
    Outcome(TRUE, Removed(tbl, NamedKeys(q)),
            Cardinality({f \in q.filters : f.op = "eq"}))

Delete(p, cols, tbl, q) ==
    CASE p = "postgres" -> PostgresDelete(cols, tbl, q)
      [] p = "mysql"    -> MySqlDelete(cols, tbl, q)
      [] p = "mongo"    -> MongoDelete(cols, tbl, q)
      [] p = "http"     -> HttpDelete(cols, tbl, q)
      [] p = "redis"    -> RedisDelete(cols, tbl, q)
      [] p = "file"     -> Refusal(tbl)

=============================================================================
