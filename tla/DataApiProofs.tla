---------------------------- MODULE DataApiProofs ----------------------------
(***************************************************************************)
(* Proofs about DataApi for any column values, mappings and requests, and  *)
(* any number of writes of others.                                         *)
(***************************************************************************)
EXTENDS DataApi, FiniteSetTheorems, TLAPS

(***************************************************************************)
(* Rows and tables                                                         *)
(***************************************************************************)

\* A row as a driver gets it: remote names, values.
RemoteRow(m, r) ==
    DOMAIN r \subseteq RemoteNames(m) /\ \A n \in DOMAIN r : r[n] \in Vals \cup {Null}

LEMMA MappingFacts ==
    ASSUME NEW m \in Mappings
    PROVE  /\ KeyCol \in DOMAIN m /\ m[KeyCol] = KeyCol /\ KeyCol \in RemoteNames(m)
           /\ \A c, d \in DOMAIN m : m[c] = m[d] => c = d
           /\ \A r \in Requests : QueryFits(r.query, m) /\ r.body \in Seq(BodyRows(m))
  BY MappingAssumption DEF RemoteNames, Range

LEMMA ToRemoteRow ==
    ASSUME NEW m \in Mappings, NEW row \in BodyRows(m)
    PROVE  /\ RemoteRow(m, ToRemote(m, row))
           /\ KeyCol \in DOMAIN ToRemote(m, row) <=> KeyCol \in DOMAIN row
           /\ KeyCol \in DOMAIN row => ToRemote(m, row)[KeyCol] = row[KeyCol]
           /\ \A n \in DOMAIN ToRemote(m, row) : \E c \in DOMAIN row :
                n = m[c] /\ ToRemote(m, row)[n] = row[c]
  <1>1. DOMAIN row \subseteq DOMAIN m /\ \A c \in DOMAIN row : row[c] \in Vals \cup {Null}
    BY DEF BodyRows
  <1>2. \A c \in DOMAIN row : RemoteName(m, c) = m[c]
    BY <1>1 DEF RemoteName
  <1>3. DOMAIN ToRemote(m, row) = {m[c] : c \in DOMAIN row}
    BY <1>2 DEF ToRemote
  <1>4. ASSUME NEW c \in DOMAIN row
        PROVE  ToRemote(m, row)[m[c]] = row[c]
    <2>1. PICK d : d = CHOOSE e \in DOMAIN row : RemoteName(m, e) = m[c]
      OBVIOUS
    <2>2. d \in DOMAIN row /\ m[d] = m[c]
      BY <1>2, <2>1
    <2>3. d = c
      BY <1>1, <2>2, MappingFacts
    <2>4. m[c] \in {RemoteName(m, e) : e \in DOMAIN row}
      BY <1>2
    <2> QED
      BY <2>1, <2>3, <2>4 DEF ToRemote
  <1>5. KeyCol \in DOMAIN ToRemote(m, row) <=> KeyCol \in DOMAIN row
    BY <1>1, <1>3, MappingFacts
  <1>6. KeyCol \in DOMAIN row => ToRemote(m, row)[KeyCol] = row[KeyCol]
    BY <1>4, MappingFacts
  <1>7. \A c \in DOMAIN row : m[c] \in RemoteNames(m)
    BY <1>1 DEF RemoteNames, Range
  <1>8. RemoteRow(m, ToRemote(m, row))
    BY <1>1, <1>3, <1>4, <1>7 DEF RemoteRow
  <1> QED
    BY <1>3, <1>4, <1>5, <1>6, <1>8

LEMMA OverRow ==
    ASSUME NEW m, NEW old \in Rows(m), NEW r, RemoteRow(m, r), KeyCol \in RemoteNames(m)
    PROVE  /\ Over(r, old) \in Rows(m)
           /\ Over(r, old)[KeyCol] = IF KeyCol \in DOMAIN r THEN r[KeyCol] ELSE old[KeyCol]
  BY DEF Over, Rows, RemoteRow

LEMMA KeyedRows ==
    ASSUME NEW m, NEW t \in KeyedTables(m), NEW x \in Vals, t[x] # None
    PROVE  t[x] \in Rows(m) /\ t[x][KeyCol] = x
  BY DEF KeyedTables, Tables, Present

\* A row under its key, new or over the one that is there.
LEMMA PutRowKeyed ==
    ASSUME NEW m \in Mappings, NEW t \in KeyedTables(m), NEW key \in Vals, NEW r, RemoteRow(m, r),
           KeyCol \in DOMAIN r => r[KeyCol] = key
    PROVE  /\ PutRow(m, t, key, r) \in KeyedTables(m)
           /\ \A x \in Vals \ {key} : PutRow(m, t, key, r)[x] = t[x]
           /\ t[key] # None => PutRow(m, t, key, r)[key] = Over(r, t[key])
  <1>1. PICK old : old = IF t[key] = None THEN Blank(m, key) ELSE t[key]
    OBVIOUS
  <1>2. Blank(m, key) \in Rows(m) /\ Blank(m, key)[KeyCol] = key
    BY MappingFacts DEF Blank, Rows
  <1>3. old \in Rows(m) /\ old[KeyCol] = key
    BY <1>1, <1>2, KeyedRows
  <1>4. PICK new : new = Over(r, old)
    OBVIOUS
  <1>5. new \in Rows(m) /\ new[KeyCol] = key
    BY <1>3, <1>4, OverRow, MappingFacts
  <1>6. t \in [Vals -> Rows(m) \cup {None}]
    BY DEF KeyedTables, Tables
  <1>7. PutRow(m, t, key, r) = [t EXCEPT ![key] = new]
    BY <1>1, <1>4 DEF PutRow
  <1>8. PICK u : u = [t EXCEPT ![key] = new]
    OBVIOUS
  <1>9. u \in [Vals -> Rows(m) \cup {None}] /\ u[key] = new /\ \A x \in Vals \ {key} : u[x] = t[x]
    BY <1>5, <1>6, <1>8
  <1>10. \A x \in Vals : u[x] # None => u[x][KeyCol] = x
    BY <1>5, <1>9, KeyedRows
  <1>11. u \in KeyedTables(m)
    BY <1>9, <1>10 DEF KeyedTables, Tables, Present
  <1> QED
    BY <1>1, <1>4, <1>7, <1>8, <1>9, <1>11

LEMMA SetRowsKeyed ==
    ASSUME NEW m \in Mappings, NEW t \in KeyedTables(m), NEW keys \in SUBSET Present(t),
           NEW r, RemoteRow(m, r), KeyCol \notin DOMAIN r
    PROVE  SetRows(t, keys, r) \in KeyedTables(m)
  <1>1. \A x \in keys : x \in Vals /\ t[x] # None
    BY DEF Present
  <1>2. ASSUME NEW x \in keys
        PROVE  Over(r, t[x]) \in Rows(m) /\ Over(r, t[x])[KeyCol] = x
    BY <1>1, KeyedRows, OverRow, MappingFacts
  <1>3. t \in [Vals -> Rows(m) \cup {None}]
    BY DEF KeyedTables, Tables
  <1>4. PICK u : u = SetRows(t, keys, r)
    OBVIOUS
  <1>5. u = [x \in Vals |-> IF x \in keys THEN Over(r, t[x]) ELSE t[x]]
    BY <1>4 DEF SetRows
  <1>6. u \in [Vals -> Rows(m) \cup {None}]
    BY <1>2, <1>3, <1>5
  <1>7. \A x \in Vals : u[x] # None => u[x][KeyCol] = x
    BY <1>2, <1>5, KeyedRows
  <1> QED
    BY <1>4, <1>6, <1>7 DEF KeyedTables, Tables, Present

LEMMA RemovedKeyed ==
    ASSUME NEW m, NEW t \in KeyedTables(m), NEW keys
    PROVE  Removed(t, keys) \in KeyedTables(m)
  <1>1. PICK u : u = Removed(t, keys)
    OBVIOUS
  <1>2. u = [x \in Vals |-> IF x \in keys THEN None ELSE t[x]]
    BY <1>1 DEF Removed
  <1>3. u \in [Vals -> Rows(m) \cup {None}]
    BY <1>2 DEF KeyedTables, Tables
  <1>4. \A x \in Vals : u[x] # None => u[x][KeyCol] = x
    BY <1>2, KeyedRows
  <1> QED
    BY <1>1, <1>3, <1>4 DEF KeyedTables, Tables, Present

(***************************************************************************)
(* What the drivers' writes leave                                          *)
(***************************************************************************)

\* A row of a POST.
KeyedRow(m, row) == row \in BodyRows(m) /\ KeyCol \in DOMAIN row /\ row[KeyCol] \in Vals

\* A parsed query about columns of the table.
QueryOK(m, q) == \A f \in q.filters : f \in Filters(m) /\ (f.op # "is" => f.val # <<>>)

\* HSET's texts, of a row of the remote table.
LEMMA SprintRow ==
    ASSUME NEW m, NEW r, RemoteRow(m, r)
    PROVE  /\ RemoteRow(m, Sprint(r)) /\ DOMAIN Sprint(r) = DOMAIN r
           /\ \A c \in DOMAIN r : r[c] # Null => Sprint(r)[c] = r[c]
  BY TableAssumption DEF Sprint, RemoteRow

LEMMA PutText ==
    ASSUME NEW m \in Mappings, NEW t \in KeyedTables(m), NEW row, KeyedRow(m, row)
    PROVE  LET r == Sprint(ToRemote(m, row))
           IN  /\ PutRow(m, t, r[KeyCol], r) \in KeyedTables(m)
               /\ \A x \in Vals \ {row[KeyCol]} : PutRow(m, t, r[KeyCol], r)[x] = t[x]
  <1>1. PICK w, r : w = ToRemote(m, row) /\ r = Sprint(w)
    OBVIOUS
  <1>2. RemoteRow(m, w) /\ KeyCol \in DOMAIN w /\ w[KeyCol] = row[KeyCol] /\ w[KeyCol] \in Vals
    BY <1>1, ToRemoteRow DEF KeyedRow
  <1>3. RemoteRow(m, r) /\ r[KeyCol] = row[KeyCol] /\ r[KeyCol] \in Vals
    BY <1>1, <1>2, SprintRow, TableAssumption
  <1> QED
    BY <1>1, <1>3, PutRowKeyed

LEMMA PutRemote ==
    ASSUME NEW m \in Mappings, NEW t \in KeyedTables(m), NEW row, KeyedRow(m, row)
    PROVE  LET r == ToRemote(m, row)
           IN  /\ KeyCol \in DOMAIN r /\ r[KeyCol] = row[KeyCol] /\ r[KeyCol] \in Vals
               /\ PutRow(m, t, r[KeyCol], r) \in KeyedTables(m)
               /\ \A x \in Vals \ {row[KeyCol]} : PutRow(m, t, r[KeyCol], r)[x] = t[x]
  <1>1. PICK r : r = ToRemote(m, row)
    OBVIOUS
  <1>2. RemoteRow(m, r) /\ KeyCol \in DOMAIN r /\ r[KeyCol] = row[KeyCol] /\ r[KeyCol] \in Vals
    BY <1>1, ToRemoteRow DEF KeyedRow
  <1> QED
    BY <1>1, <1>2, PutRowKeyed

LEMMA InsertFacts ==
    ASSUME NEW m \in Mappings, NEW t \in KeyedTables(m), NEW row, KeyedRow(m, row),
           NEW p \in Protocols
    PROVE  /\ Insert(p, m, t, row).tbl \in KeyedTables(m)
           /\ \A x \in Vals \ {row[KeyCol]} : Insert(p, m, t, row).tbl[x] = t[x]
           /\ p # "redis" => \A x \in Present(t) : Insert(p, m, t, row).tbl[x] = t[x]
  <1>1. PICK r : r = ToRemote(m, row)
    OBVIOUS
  <1>2. PICK u : u = PutRow(m, t, r[KeyCol], r)
    OBVIOUS
  <1>3. /\ r[KeyCol] = row[KeyCol] /\ r[KeyCol] \in Vals /\ u \in KeyedTables(m)
        /\ \A x \in Vals \ {row[KeyCol]} : u[x] = t[x]
    BY <1>1, <1>2, PutRemote
  <1>4. CASE p \in {"postgres", "mysql", "mongo", "http"}
    <2>1. Insert(p, m, t, row) = InsertNew(m, t, r)
      BY <1>1, <1>4 DEF Insert, PostgresInsert, MySqlInsert, MongoInsert, HttpInsert
    <2>2. CASE t[r[KeyCol]] = None
      BY <1>2, <1>3, <2>1, <2>2 DEF InsertNew, Outcome, Present
    <2>3. CASE t[r[KeyCol]] # None
      BY <2>1, <2>3 DEF InsertNew, Refusal, Outcome
    <2> QED
      BY <2>2, <2>3
  <1>5. CASE p = "redis"
    <2>1. PICK w : w = Sprint(ToRemote(m, row))
      OBVIOUS
    <2>2. Insert(p, m, t, row).tbl = PutRow(m, t, w[KeyCol], w)
      BY <1>5, <2>1 DEF Insert, RedisInsert, Outcome
    <2> QED
      BY <1>5, <2>1, <2>2, PutText
  <1>6. CASE p = "file"
    BY <1>6 DEF Insert, Refusal, Outcome
  <1> QED
    BY <1>4, <1>5, <1>6 DEF Protocols

LEMMA UpsertFacts ==
    ASSUME NEW m \in Mappings, NEW t \in KeyedTables(m), NEW row, KeyedRow(m, row),
           NEW p \in OneCallUpsert
    PROVE  /\ UpsertAtOnce(p, m, t, row).tbl \in KeyedTables(m)
           /\ \A x \in Vals \ {row[KeyCol]} : UpsertAtOnce(p, m, t, row).tbl[x] = t[x]
  <1>1. PICK r : r = ToRemote(m, row)
    OBVIOUS
  <1>2. PICK u : u = PutRow(m, t, r[KeyCol], r)
    OBVIOUS
  <1>3. KeyCol \in DOMAIN r /\ u \in KeyedTables(m)
        /\ \A x \in Vals \ {row[KeyCol]} : u[x] = t[x]
    BY <1>1, <1>2, PutRemote
  <1>4. CASE p \in {"mysql", "mongo", "http"}
    <2>1. UpsertAtOnce(p, m, t, row) = Outcome(TRUE, u, 1)
      <3>1. CASE p = "mysql"
        BY <1>1, <1>2, <3>1 DEF UpsertAtOnce, MySqlUpsert
      <3>2. CASE p = "mongo"
        BY <1>1, <1>2, <1>3, <3>2 DEF UpsertAtOnce, MongoUpsert
      <3>3. CASE p = "http"
        BY <1>1, <1>2, <3>3 DEF UpsertAtOnce, HttpUpsert
      <3> QED
        BY <1>4, <3>1, <3>2, <3>3
    <2> QED
      BY <1>3, <2>1 DEF Outcome
  <1>5. CASE p = "redis"
    <2>1. PICK w : w = Sprint(ToRemote(m, row))
      OBVIOUS
    <2>2. UpsertAtOnce(p, m, t, row).tbl = PutRow(m, t, w[KeyCol], w)
      BY <1>5, <2>1 DEF UpsertAtOnce, RedisUpsert, RedisInsert, Outcome
    <2> QED
      BY <2>1, <2>2, PutText
  <1> QED
    BY <1>4, <1>5 DEF OneCallUpsert

LEMMA NonKeysRow ==
    ASSUME NEW m, NEW r, RemoteRow(m, r)
    PROVE  /\ RemoteRow(m, NonKeys(r)) /\ KeyCol \notin DOMAIN NonKeys(r)
  BY DEF NonKeys, Restrict, RemoteRow

LEMMA SelectedPresent == \A p, m, q, t : Selected(p, m, q, t) \subseteq Present(t)
  BY DEF Selected

\* The UPDATE of a PATCH, and the one an upsert falls back to.
LEMMA UpdateKeyed ==
    ASSUME NEW m \in Mappings, NEW t \in KeyedTables(m), NEW row \in BodyRows(m),
           NEW q, QueryOK(m, q), NEW p \in Protocols,
           KeyCol \notin DOMAIN row \/ p \in {"postgres", "http"}
    PROVE  Update(p, m, t, row, q).tbl \in KeyedTables(m)
  <1>1. PICK r : r = ToRemote(m, row)
    OBVIOUS
  <1>2. RemoteRow(m, r) /\ (KeyCol \notin DOMAIN row => KeyCol \notin DOMAIN r)
    BY <1>1, ToRemoteRow
  <1>3. PICK w : w = NonKeys(r)
    OBVIOUS
  <1>4. RemoteRow(m, w) /\ KeyCol \notin DOMAIN w
    BY <1>2, <1>3, NonKeysRow
  <1>5. SetRows(t, Selected(p, m, q, t), w) \in KeyedTables(m)
    BY <1>4, SelectedPresent, SetRowsKeyed
  <1>6. CASE p = "postgres"
    BY <1>1, <1>3, <1>5, <1>6 DEF Update, PostgresUpdate, Refusal, Outcome
  <1>7. CASE p = "mysql"
    BY <1>1, <1>3, <1>5, <1>7 DEF Update, MySqlUpdate, Refusal, Outcome
  <1>8. CASE p = "http"
    BY <1>1, <1>3, <1>5, <1>8 DEF Update, HttpUpdate, Outcome
  <1>9. CASE p = "mongo"
    <2>1. SetRows(t, Selected(p, m, q, t), r) \in KeyedTables(m)
      BY <1>2, <1>9, SelectedPresent, SetRowsKeyed
    <2> QED
      BY <1>1, <1>9, <2>1 DEF Update, MongoUpdate, Outcome
  <1>10. CASE p = "redis"
    <2>1. CASE Cardinality(q.filters) = 1 /\ \A f \in q.filters : f.op = "eq"
      <3>1. PICK f : f = CHOOSE g \in q.filters : TRUE
        OBVIOUS
      <3>2. q.filters # {}
        BY <2>1, FS_EmptySet
      <3>3. f \in q.filters
        BY <3>1, <3>2
      <3>4. f \in Filters(m) /\ f.val # <<>>
        BY <2>1, <3>3 DEF QueryOK
      <3>5. f.val[1] \in Vals
        BY <3>4 DEF Filters
      <3>6. PutRow(m, t, f.val[1], Sprint(r)) \in KeyedTables(m)
        BY <1>2, <1>10, <3>5, SprintRow, PutRowKeyed
      <3> QED
        BY <1>1, <1>10, <2>1, <3>1, <3>6 DEF Update, RedisUpdate, Outcome
    <2>2. CASE ~(Cardinality(q.filters) = 1 /\ \A f \in q.filters : f.op = "eq")
      BY <1>10, <2>2 DEF Update, RedisUpdate, Refusal, Outcome
    <2> QED
      BY <2>1, <2>2
  <1>11. CASE p = "file"
    BY <1>11 DEF Update, Refusal, Outcome
  <1> QED
    BY <1>6, <1>7, <1>8, <1>9, <1>10, <1>11 DEF Protocols

LEMMA DeleteKeyed ==
    ASSUME NEW m, NEW t \in KeyedTables(m), NEW q, NEW p \in Protocols
    PROVE  Delete(p, m, t, q).tbl \in KeyedTables(m)
  <1>1. \A keys : Removed(t, keys) \in KeyedTables(m)
    BY RemovedKeyed
  <1> QED
    BY <1>1 DEF Delete, PostgresDelete, MySqlDelete, MongoDelete, HttpDelete, RedisDelete,
                Refusal, Outcome, Protocols

(***************************************************************************)
(* The invariant                                                           *)
(*                                                                         *)
(* DataTypeOK, with what the phases say of the request: a row is left to   *)
(* write, a conflict is that of an upsert in two calls, the second Select  *)
(* follows a PATCH or DELETE.                                              *)
(***************************************************************************)
FixedOK == protocol \in Served /\ protocol \in Protocols /\ cols \in Mappings

TablesOK == tbl \in KeyedTables(cols) /\ start \in KeyedTables(cols)

RequestOK ==
    /\ phase \in Phases /\ i \in Nat
    /\ phase = "idle" => req = NoRequest
    /\ phase # "idle" => req \in Requests

PhaseOK ==
    /\ phase \in {"call", "conflict"} /\ req.op \in {"insert", "upsert"} => i + 1 \in DOMAIN req.body
    /\ phase = "conflict" => req.op = "upsert" /\ protocol \in {"postgres", "http"}
    /\ phase = "count" => req.op = "select"
    /\ phase = "again" => req.op \in {"update", "delete"}

AnswerOK ==
    /\ ans = [status |-> ans.status, rows |-> ans.rows, n |-> ans.n, total |-> ans.total]
    /\ ans.status \in Statuses /\ DOMAIN ans.rows \subseteq Vals

GhostsOK == alone \in BOOLEAN /\ others \in 0..MaxOthers

DataInv == FixedOK /\ TablesOK /\ RequestOK /\ PhaseOK /\ AnswerOK /\ GhostsOK

LEMMA RequestFacts ==
    ASSUME NEW r \in Requests, NEW m \in Mappings
    PROVE  /\ r.op \in Methods /\ QueryFits(r.query, m) /\ r.body \in Seq(BodyRows(m))
           /\ r.op \in {"insert", "upsert"} => \A h \in DOMAIN r.body : KeyedRow(m, r.body[h])
           /\ r.op = "update" => r.body[1] \in BodyRows(m) /\ KeyCol \notin DOMAIN r.body[1]
           /\ r.op \in {"insert", "upsert", "update"} => 1 \in DOMAIN r.body
  <1>1. r.op \in Methods /\ QueryFits(r.query, m) /\ r.body \in Seq(BodyRows(m))
    BY RequestAssumption, MappingFacts
  <1>2. r.op \in {"insert", "upsert", "update"} => 1 \in DOMAIN r.body
    BY <1>1, RequestAssumption
  <1>3. r.op \in {"insert", "upsert"} => \A h \in DOMAIN r.body : KeyedRow(m, r.body[h])
    BY <1>1, RequestAssumption DEF KeyedRow
  <1>4. r.op = "update" => r.body[1] \in BodyRows(m) /\ KeyCol \notin DOMAIN r.body[1]
    BY <1>1, <1>2, RequestAssumption
  <1> QED
    BY <1>1, <1>2, <1>3, <1>4

LEMMA QueryIsOK ==
    ASSUME DataInv, phase # "idle"
    PROVE  QueryOK(cols, Query) /\ QueryOK(cols, NoFilters)
  <1>1. QueryFits(req.query, cols)
    BY RequestFacts DEF DataInv, RequestOK, FixedOK
  <1>2. FirstPerColumn(req.query.filters) \subseteq Range(req.query.filters)
    BY DEF FirstPerColumn, Range
  <1>3. Query.filters = FirstPerColumn(req.query.filters)
    BY DEF Query, ParseRPC, ParseQuery
  <1>4. Range(req.query.filters) \subseteq Filters(cols)
    BY <1>1 DEF QueryFits, Range
  <1>5. QueryOK(cols, Query)
    BY <1>1, <1>2, <1>3, <1>4 DEF QueryOK, QueryFits
  <1>6. NoFilters.filters = {}
    BY DEF NoFilters, ParseQuery, FirstPerColumn
  <1> QED
    BY <1>5, <1>6 DEF QueryOK

LEMMA InitData == Init => DataInv
  <1> SUFFICES ASSUME Init PROVE DataInv
    OBVIOUS
  <1>1. FixedOK /\ TablesOK /\ GhostsOK
    BY RequestAssumption DEF Init, FixedOK, TablesOK, GhostsOK
  <1>2. RequestOK /\ PhaseOK
    BY DEF Init, RequestOK, PhaseOK, Phases
  <1>3. AnswerOK
    BY DEF Init, AnswerOK, NoAnswer, NoRows, Statuses
  <1> QED
    BY <1>1, <1>2, <1>3 DEF DataInv

LEMMA NoAnswerOK ==
    ASSUME NEW status \in Statuses, ans' = [NoAnswer EXCEPT !.status = status]
    PROVE  AnswerOK'
  BY DEF AnswerOK, NoAnswer, NoRows

LEMMA RowsAnswered ==
    ASSUME FixedOK, NEW t, NEW q, NEW rows \in Answers(protocol, cols, q, t)
    PROVE  DOMAIN rows \subseteq Vals
  <1>1. \A p, page : page \in Pages(p, cols, q, t) => page \subseteq Vals
    BY DEF Pages, Selected, Present
  <1>2. \E page \in Pages(protocol, cols, q, t) :
          rows = AsStored(q, t, page) \/ rows = Renamed(cols, q, t, page)
    BY DEF FixedOK, Protocols, Answers, PostgresSelect, MySqlSelect, HttpSelect, MongoSelect,
           RedisSelect, FileSelect
  <1> QED
    BY <1>1, <1>2 DEF AsStored, Renamed

LEMMA CoercedOK ==
    ASSUME NEW rows, NEW total, DOMAIN rows \subseteq Vals, ans' = Coerced(rows, total)
    PROVE  AnswerOK'
  BY DEF Coerced, AnswerOK, NoAnswer, NoRows, Statuses

LEMMA RowDoneOK ==
    ASSUME DataInv, phase \in {"call", "conflict"}, req.op \in {"insert", "upsert"}, RowDone,
           UNCHANGED <<protocol, cols, req>>
    PROVE  RequestOK' /\ PhaseOK' /\ AnswerOK' /\ phase' \in {"call", "done"}
  <1>1. i \in Nat /\ i + 1 \in 1..Len(req.body) /\ req \in Requests
    <2>1. req \in Requests /\ i \in Nat /\ i + 1 \in DOMAIN req.body
      BY DEF DataInv, RequestOK, PhaseOK
    <2>2. req.body \in Seq(BodyRows(cols))
      BY <2>1, RequestFacts DEF DataInv, FixedOK
    <2> QED
      BY <2>1, <2>2
  <1>2. req.body[i + 1][KeyCol] \in Vals
    BY <1>1, RequestFacts DEF DataInv, FixedOK, PhaseOK, KeyedRow
  <1>3. PICK rows : rows = WithReturned(ans.rows, req.body[i + 1])
    OBVIOUS
  <1>4. DOMAIN rows \subseteq Vals
    BY <1>2, <1>3 DEF WithReturned, DataInv, AnswerOK
  <1>5. i' = i + 1 /\ IF i + 1 = Len(req.body)
                      THEN phase' = "done" /\ ans' = [ans EXCEPT !.status = "ok", !.rows = rows]
                      ELSE phase' = "call" /\ ans' = [ans EXCEPT !.rows = rows]
    BY <1>3 DEF RowDone
  <1>6. RequestOK' /\ phase' \in {"call", "done"}
    BY <1>1, <1>5 DEF RequestOK, Phases
  <1>7. PhaseOK'
    <2>1. req.body \in Seq(BodyRows(cols))
      BY <1>1, RequestFacts DEF DataInv, FixedOK
    <2>2. phase' = "call" => i + 2 \in 1..Len(req.body)
      BY <1>1, <1>5, <2>1
    <2>3. i' + 1 = i + 2 /\ req' = req /\ DOMAIN req.body = 1..Len(req.body)
      BY <1>1, <1>5, <2>1
    <2>4. phase' = "call" => i' + 1 \in DOMAIN req'.body
      BY <2>2, <2>3
    <2> QED
      BY <1>6, <2>4 DEF PhaseOK
  <1>8. AnswerOK'
    <2>1. ans = [status |-> ans.status, rows |-> ans.rows, n |-> ans.n, total |-> ans.total]
          /\ ans.status \in Statuses
      BY DEF DataInv, AnswerOK
    <2>2. \/ ans' = [status |-> "ok", rows |-> rows, n |-> ans.n, total |-> ans.total]
          \/ ans' = [status |-> ans.status, rows |-> rows, n |-> ans.n, total |-> ans.total]
      BY <1>5, <2>1
    <2>3. PICK a : a = ans'
      OBVIOUS
    <2>4. a = [status |-> a.status, rows |-> a.rows, n |-> a.n, total |-> a.total]
          /\ a.status \in Statuses /\ a.rows = rows
      BY <2>1, <2>2, <2>3 DEF Statuses
    <2> QED
      BY <1>4, <2>3, <2>4 DEF AnswerOK
  <1> QED
    BY <1>6, <1>7, <1>8

LEMMA Ended ==
    ASSUME DataInv, phase # "idle", phase' = "done", TablesOK', AnswerOK',
           UNCHANGED <<protocol, cols, req, i, alone, others>>
    PROVE  DataInv'
  BY DEF DataInv, FixedOK, RequestOK, PhaseOK, GhostsOK, Phases

LEMMA Refuses ==
    ASSUME DataInv, phase # "idle", NEW status \in Statuses, Refused(status)
    PROVE  DataInv'
  <1>1. AnswerOK'
    BY NoAnswerOK DEF Refused
  <1>2. TablesOK'
    BY DEF Refused, fixed, ghosts, DataInv, TablesOK
  <1> QED
    BY <1>1, <1>2, Ended DEF Refused, fixed, ghosts

\* A write of the row the request is at.
LEMMA RowKeyed ==
    ASSUME DataInv, phase \in {"call", "conflict"}, req.op \in {"insert", "upsert"}
    PROVE  KeyedRow(cols, req.body[i + 1])
  BY RequestFacts DEF DataInv, FixedOK, RequestOK, PhaseOK

LEMMA ConflictKeyed ==
    ASSUME DataInv, phase = "conflict"
    PROVE  Update(protocol, cols, tbl, req.body[i + 1], NoFilters).tbl \in KeyedTables(cols)
  BY RowKeyed, QueryIsOK, UpdateKeyed DEF DataInv, FixedOK, TablesOK, PhaseOK, KeyedRow

LEMMA PatchKeyed ==
    ASSUME DataInv, phase = "call", req.op = "update"
    PROVE  Update(protocol, cols, tbl, req.body[1], Query).tbl \in KeyedTables(cols)
  BY RequestFacts, QueryIsOK, UpdateKeyed DEF DataInv, FixedOK, TablesOK, RequestOK

\* What the next call is.
LEMMA NextCallCases ==
    ASSUME NextCall.ok
    PROVE  \/ /\ phase = "conflict"
              /\ NextCall = Update(protocol, cols, tbl, req.body[i + 1], NoFilters)
           \/ /\ phase = "call" /\ req.op \in {"insert", "upsert"}
              /\ NextCall = Insert(protocol, cols, tbl, req.body[i + 1])
              /\ req.op = "upsert" => protocol = "postgres"
           \/ /\ phase = "call" /\ req.op = "upsert" /\ protocol \in OneCallUpsert
              /\ NextCall = UpsertAtOnce(protocol, cols, tbl, req.body[i + 1])
           \/ /\ phase = "call" /\ req.op = "update"
              /\ NextCall = Update(protocol, cols, tbl, req.body[1], Query)
           \/ /\ phase = "call" /\ req.op = "delete"
              /\ NextCall = Delete(protocol, cols, tbl, Query)
  <1>1. Refusal(tbl).ok = FALSE
    BY DEF Refusal, Outcome
  <1> QED
    BY <1>1 DEF NextCall, OneCallUpsert

LEMMA NextCallKeyed ==
    ASSUME DataInv, NextCall.ok
    PROVE  NextCall.tbl \in KeyedTables(cols) /\ phase # "idle"
  <1>1. FixedOK /\ TablesOK
    BY DEF DataInv
  <1> QED
    BY <1>1, NextCallCases, ConflictKeyed, PatchKeyed, RowKeyed, InsertFacts, UpsertFacts, DeleteKeyed
       DEF FixedOK, TablesOK

LEMMA HandlerStep ==
    ASSUME DataInv, Handler
    PROVE  DataInv'
  <1> USE DEF fixed, ghosts
  <1>0. FixedOK /\ TablesOK /\ RequestOK /\ PhaseOK /\ AnswerOK /\ GhostsOK
    BY DEF DataInv
  <1>1. CASE SelectRows
    <2>1. PICK rows \in Answers(protocol, cols, Query, tbl) :
            IF req.count
            THEN phase' = "count" /\ ans' = [NoAnswer EXCEPT !.rows = rows]
            ELSE phase' = "done" /\ ans' = Coerced(rows, -1)
      BY <1>1 DEF SelectRows
    <2>2. DOMAIN rows \subseteq Vals
      BY <1>0, RowsAnswered
    <2>3. AnswerOK'
      <3>1. CASE ans' = [NoAnswer EXCEPT !.rows = rows]
        BY <2>2, <3>1 DEF AnswerOK, NoAnswer, Statuses
      <3>2. CASE ans' = Coerced(rows, -1)
        BY <2>2, <3>2, CoercedOK
      <3> QED
        BY <2>1, <3>1, <3>2
    <2>4. phase' \in {"count", "done"} /\ phase = "call" /\ req.op = "select"
          /\ UNCHANGED <<protocol, cols, tbl, req, i, start, alone, others>>
      BY <1>1, <2>1 DEF SelectRows
    <2>5. RequestOK' /\ PhaseOK' /\ TablesOK' /\ FixedOK' /\ GhostsOK'
      BY <1>0, <2>4 DEF RequestOK, PhaseOK, TablesOK, FixedOK, GhostsOK, Phases
    <2> QED
      BY <2>3, <2>5 DEF DataInv
  <1>2. CASE CountRows
    <2>1. AnswerOK'
      BY <1>0, <1>2, CoercedOK DEF CountRows, AnswerOK
    <2>2. TablesOK'
      BY <1>0, <1>2 DEF CountRows, TablesOK
    <2> QED
      BY <1>2, <2>1, <2>2, Ended DEF CountRows
  <1>3. CASE InsertRow \/ UpsertRow \/ UpsertUpdate \/ (UpsertInsert /\ RowDone)
    <2>1. /\ phase \in {"call", "conflict"} /\ req.op \in {"insert", "upsert"} /\ RowDone
          /\ UNCHANGED <<protocol, cols, req, start, alone, others>>
      BY <1>0, <1>3 DEF InsertRow, UpsertRow, UpsertUpdate, UpsertInsert, PhaseOK
    <2>2. RequestOK' /\ PhaseOK' /\ AnswerOK'
      BY <2>1, RowDoneOK
    <2>3. tbl' \in KeyedTables(cols) \/ UNCHANGED tbl
      <3>1. CASE InsertRow \/ UpsertInsert
        BY <1>0, <2>1, <3>1, RowKeyed, InsertFacts DEF InsertRow, UpsertInsert, FixedOK, TablesOK
      <3>2. CASE UpsertRow
        BY <1>0, <2>1, <3>2, RowKeyed, UpsertFacts DEF UpsertRow, FixedOK, TablesOK
      <3>3. CASE UpsertUpdate
        BY <3>3, ConflictKeyed DEF UpsertUpdate
      <3> QED
        BY <1>3, <3>1, <3>2, <3>3
    <2> QED
      BY <1>0, <2>1, <2>2, <2>3 DEF DataInv, FixedOK, TablesOK, GhostsOK
  <1>4. CASE UpsertInsert /\ ~RowDone
    <2>1. /\ phase = "call" /\ req.op = "upsert" /\ protocol \in {"postgres", "http"}
          /\ phase' = "conflict"
          /\ UNCHANGED <<protocol, cols, tbl, i, ans, req, start, alone, others>>
      BY <1>4 DEF UpsertInsert
    <2> QED
      BY <1>0, <2>1 DEF DataInv, FixedOK, TablesOK, RequestOK, PhaseOK, AnswerOK, GhostsOK, Phases
  <1>5. CASE UpdateRows \/ DeleteRows
    <2>1. PICK out : /\ phase = "call" /\ req.op \in {"update", "delete"}
                     /\ tbl' = out.tbl /\ Written(out.n) /\ out.tbl \in KeyedTables(cols)
                     /\ UNCHANGED <<protocol, cols, req, i, start, alone, others>>
      BY <1>0, <1>5, PatchKeyed, DeleteKeyed DEF UpdateRows, DeleteRows, FixedOK, TablesOK
    <2>2. TablesOK'
      BY <1>0, <2>1 DEF TablesOK
    <2>3. CASE phase' = "again" /\ UNCHANGED ans
      BY <1>0, <2>1, <2>2, <2>3
         DEF DataInv, FixedOK, RequestOK, PhaseOK, AnswerOK, GhostsOK, Phases
    <2>4. CASE phase' = "done" /\ \E n : ans' = [ans EXCEPT !.status = "ok", !.n = n]
      <3>1. PICK n : ans' = [ans EXCEPT !.status = "ok", !.n = n]
        BY <2>4
      <3>2. PICK a : a = ans'
        OBVIOUS
      <3>3. a = [status |-> "ok", rows |-> ans.rows, n |-> n, total |-> ans.total]
        BY <1>0, <3>1, <3>2 DEF AnswerOK
      <3>4. AnswerOK'
        BY <1>0, <3>2, <3>3 DEF AnswerOK, Statuses
      <3> QED
        BY <2>1, <2>2, <2>4, <3>4, Ended
    <2> QED
      BY <2>1, <2>3, <2>4 DEF Written
  <1>6. CASE SelectAgain
    <2>1. PICK rows \in Answers(protocol, cols, Query, tbl) :
            ans' = [ans EXCEPT !.status = "ok", !.rows = rows]
      BY <1>6 DEF SelectAgain
    <2>2. PICK a : a = ans'
      OBVIOUS
    <2>3. a = [status |-> "ok", rows |-> rows, n |-> ans.n, total |-> ans.total]
          /\ DOMAIN rows \subseteq Vals
      BY <1>0, <2>1, <2>2, RowsAnswered DEF AnswerOK
    <2>4. AnswerOK'
      BY <2>2, <2>3 DEF AnswerOK, Statuses
    <2>5. TablesOK'
      BY <1>0, <1>6 DEF SelectAgain, TablesOK
    <2> QED
      BY <1>6, <2>4, <2>5, Ended DEF SelectAgain
  <1>7. CASE Invoke \/ Unsupported \/ Fail
    <2>1. \E status \in Statuses : Refused(status)
      BY <1>7 DEF Invoke, Unsupported, Fail, Statuses
    <2>2. phase # "idle"
      BY <1>7 DEF Invoke, Unsupported, Fail
    <2> QED
      BY <2>1, <2>2, Refuses
  <1>8. CASE LoseReply \/ DeleteSomeKeys
    <2>1. phase # "idle" /\ tbl' \in KeyedTables(cols)
      BY <1>0, <1>8, NextCallKeyed, RemovedKeyed DEF LoseReply, DeleteSomeKeys, TablesOK
    <2>2. AnswerOK'
      BY <1>8, NoAnswerOK DEF LoseReply, DeleteSomeKeys, Statuses
    <2>3. TablesOK'
      BY <1>0, <1>8, <2>1 DEF LoseReply, DeleteSomeKeys, TablesOK
    <2> QED
      BY <1>8, <2>1, <2>2, <2>3, Ended DEF LoseReply, DeleteSomeKeys
  <1>10. CASE WriteSomeDocuments
    <2>1. PICK keys \in SUBSET Present(tbl) :
            tbl' = IF req.op = "delete" THEN Removed(tbl, keys)
                   ELSE SetRows(tbl, keys, ToRemote(cols, req.body[1]))
      BY <1>10, SelectedPresent DEF WriteSomeDocuments
    <2>2. ASSUME req.op = "delete"
          PROVE tbl' \in KeyedTables(cols)
      <3>1. tbl' = Removed(tbl, keys)
        BY <2>1, <2>2
      <3> QED
        BY <1>0, <3>1, RemovedKeyed DEF TablesOK
    <2>3. ASSUME req.op = "update"
          PROVE tbl' \in KeyedTables(cols)
      <3>1. /\ req.body[1] \in BodyRows(cols) /\ KeyCol \notin DOMAIN req.body[1]
            /\ cols \in Mappings
        BY <1>0, <1>10, <2>3, RequestFacts DEF WriteSomeDocuments, FixedOK, RequestOK
      <3>2. RemoteRow(cols, ToRemote(cols, req.body[1]))
            /\ KeyCol \notin DOMAIN ToRemote(cols, req.body[1])
        BY <3>1, ToRemoteRow
      <3>3. tbl' = SetRows(tbl, keys, ToRemote(cols, req.body[1]))
        BY <2>1, <2>3
      <3>4. tbl \in KeyedTables(cols) /\ keys \subseteq Present(tbl)
        BY <1>0, <2>1 DEF TablesOK
      <3> QED
        BY <3>1, <3>2, <3>3, <3>4, SetRowsKeyed
    <2>4. phase # "idle" /\ tbl' \in KeyedTables(cols)
      BY <1>10, <2>2, <2>3 DEF WriteSomeDocuments
    <2>5. AnswerOK'
      BY <1>10, NoAnswerOK DEF WriteSomeDocuments, Statuses
    <2>6. TablesOK'
      BY <1>0, <1>10, <2>4 DEF WriteSomeDocuments, TablesOK
    <2> QED
      BY <1>10, <2>4, <2>5, <2>6, Ended DEF WriteSomeDocuments
  <1>9. CASE Finish
    <2>1. AnswerOK'
      BY <1>9 DEF Finish, AnswerOK, NoAnswer, NoRows, Statuses
    <2>2. FixedOK' /\ TablesOK' /\ RequestOK' /\ PhaseOK' /\ GhostsOK'
      BY <1>0, <1>9 DEF Finish, FixedOK, TablesOK, RequestOK, PhaseOK, GhostsOK, Phases
    <2> QED
      BY <2>1, <2>2 DEF DataInv
  <1> QED
    BY <1>1, <1>2, <1>3, <1>4, <1>5, <1>6, <1>7, <1>8, <1>9, <1>10 DEF Handler

LEMMA ArriveStep ==
    ASSUME DataInv, NEW r \in Requests, Arrive(r)
    PROVE  DataInv'
  <1> USE DEF fixed
  <1>1. 1 \in DOMAIN r.body \/ r.op \notin {"insert", "upsert"}
    BY RequestFacts DEF DataInv, FixedOK
  <1>2. AnswerOK'
    BY DEF Arrive, AnswerOK, NoAnswer, NoRows, Statuses
  <1>3. FixedOK' /\ TablesOK' /\ RequestOK' /\ GhostsOK'
    BY DEF Arrive, DataInv, FixedOK, TablesOK, RequestOK, GhostsOK, Phases
  <1>4. PhaseOK'
    BY <1>1 DEF Arrive, PhaseOK
  <1> QED
    BY <1>2, <1>3, <1>4 DEF DataInv

LEMMA OthersStep ==
    ASSUME DataInv, Others
    PROVE  DataInv'
  <1> USE DEF fixed
  <1>1. PICK x \in Vals, row \in Rows(cols) \cup {None} :
          (row # None => row[KeyCol] = x) /\ tbl' = [tbl EXCEPT ![x] = row]
    BY DEF Others
  <1>2. PICK t : t = tbl
    OBVIOUS
  <1>3. t \in [Vals -> Rows(cols) \cup {None}] /\ \A y \in Vals : t[y] # None => t[y][KeyCol] = y
    BY <1>2, KeyedRows DEF DataInv, TablesOK, KeyedTables, Tables
  <1>4. PICK u : u = [t EXCEPT ![x] = row]
    OBVIOUS
  <1>5. u \in [Vals -> Rows(cols) \cup {None}] /\ u[x] = row /\ \A y \in Vals \ {x} : u[y] = t[y]
    BY <1>3, <1>4
  <1>6. u \in KeyedTables(cols)
    BY <1>1, <1>3, <1>5 DEF KeyedTables, Tables, Present
  <1>7. TablesOK'
    BY <1>1, <1>2, <1>4, <1>6 DEF Others, TablesOK
  <1>8. GhostsOK'
    BY RequestAssumption DEF Others, GhostsOK, DataInv
  <1>9. FixedOK' /\ RequestOK' /\ PhaseOK' /\ AnswerOK'
    BY DEF Others, DataInv, FixedOK, RequestOK, PhaseOK, AnswerOK
  <1> QED
    BY <1>7, <1>8, <1>9 DEF DataInv

LEMMA DataInductive == DataInv /\ [Next]_vars => DataInv'
  <1> SUFFICES ASSUME DataInv, [Next]_vars PROVE DataInv'
    OBVIOUS
  <1>1. CASE Next
    BY <1>1, HandlerStep, ArriveStep, OthersStep DEF Next
  <1>2. CASE UNCHANGED vars
    BY <1>2 DEF vars, DataInv, FixedOK, TablesOK, RequestOK, PhaseOK, AnswerOK, GhostsOK
  <1> QED
    BY <1>1, <1>2

LEMMA AlwaysDataInv == Spec => []DataInv
  BY InitData, DataInductive, PTL DEF Spec

(***************************************************************************)
(* Whatever a driver is asked to write, every row of the remote table has  *)
(* the columns of the mapping under their remote names, and its own key in *)
(* the key column: the name mapping, the updates that leave the key out,   *)
(* the Redis writes that go by a filter's value.                           *)
(***************************************************************************)
THEOREM DataTypeCorrect == Spec => []DataTypeOK
  <1>1. DataInv => DataTypeOK
    <2> SUFFICES ASSUME DataInv PROVE DataTypeOK
      OBVIOUS
    <2>1. tbl \in Tables(cols) /\ start \in Tables(cols) /\ \A x \in Present(tbl) : tbl[x][KeyCol] = x
      BY DEF DataInv, TablesOK, KeyedTables
    <2>2. IF phase = "idle" THEN req = NoRequest ELSE req \in Requests
      BY DEF DataInv, RequestOK
    <2> QED
      BY <2>1, <2>2 DEF DataInv, FixedOK, RequestOK, AnswerOK, GhostsOK, DataTypeOK
  <1> QED
    BY <1>1, AlwaysDataInv, PTL

(***************************************************************************)
(* A POST without resolution=merge-duplicates leaves every row that is     *)
(* there as it is, however many rows it has, whoever writes in between,    *)
(* and whether or not its reply is lost, on every server but redis.        *)
(***************************************************************************)
THEOREM InsertsKeepRows == Spec => InsertNeverOverwrites
  <1>1. ASSUME DataInv, req.op = "insert", Handler, protocol # "redis"
        PROVE  KeepsRows
    <2>1. CASE UNCHANGED tbl
      BY <2>1 DEF KeepsRows
    <2>2. CASE InsertRow \/ LoseReply
      <3>1. phase = "call" /\ tbl' = Insert(protocol, cols, tbl, req.body[i + 1]).tbl
        BY <1>1, <2>2, NextCallCases DEF InsertRow, LoseReply, DataInv, PhaseOK
      <3>2. KeyedRow(cols, req.body[i + 1])
        BY <1>1, <3>1, RowKeyed
      <3> QED
        BY <1>1, <3>1, <3>2, InsertFacts DEF DataInv, FixedOK, TablesOK, KeepsRows
    <2>3. CASE \/ SelectRows \/ CountRows \/ SelectAgain \/ Invoke \/ Unsupported \/ Fail \/ Finish
      BY <2>1, <2>3 DEF SelectRows, CountRows, SelectAgain, Invoke, Unsupported, Fail, Refused, Finish
    <2> QED
      BY <1>1, <2>2, <2>3
         DEF Handler, UpsertRow, UpsertInsert, UpsertUpdate, UpdateRows, DeleteRows, DeleteSomeKeys,
             WriteSomeDocuments, DataInv, PhaseOK
  <1>2. ASSUME DataInv, [Next]_vars
        PROVE  [req.op = "insert" /\ Handler /\ protocol # "redis" => KeepsRows]_vars
    BY <1>1, <1>2
  <1> QED
    BY <1>2, AlwaysDataInv, PTL DEF Spec, InsertNeverOverwrites

(***************************************************************************)
(* Where an upsert is one call to the server (MySQL, MongoDB, redis) it    *)
(* touches the rows its body names by their key, and no other.             *)
(***************************************************************************)
THEOREM UpsertsTouchTheirRows == Spec => UpsertAtOnceTouchesItsRow
  <1>1. ASSUME DataInv, req.op = "upsert", Handler, protocol \in OneCallUpsert \ {"http"}
        PROVE  TouchesOnly(BodyKeys)
    <2>1. CASE UNCHANGED tbl
      BY <2>1 DEF TouchesOnly
    <2>2. CASE UpsertRow \/ LoseReply
      <3>1. phase = "call" /\ tbl' = UpsertAtOnce(protocol, cols, tbl, req.body[i + 1]).tbl
        BY <1>1, <2>2, NextCallCases DEF UpsertRow, LoseReply, OneCallUpsert, DataInv, PhaseOK
      <3>2. KeyedRow(cols, req.body[i + 1]) /\ i + 1 \in DOMAIN req.body
        BY <1>1, <3>1, RowKeyed DEF DataInv, PhaseOK
      <3>3. req.body[i + 1][KeyCol] \in BodyKeys
        BY <3>2 DEF BodyKeys
      <3> QED
        BY <1>1, <3>1, <3>2, <3>3, UpsertFacts DEF DataInv, FixedOK, TablesOK, TouchesOnly
    <2>3. CASE \/ SelectRows \/ CountRows \/ SelectAgain \/ Invoke \/ Unsupported \/ Fail \/ Finish
      BY <2>1, <2>3 DEF SelectRows, CountRows, SelectAgain, Invoke, Unsupported, Fail, Refused, Finish
    <2> QED
      BY <1>1, <2>2, <2>3
         DEF Handler, InsertRow, UpsertInsert, UpsertUpdate, UpdateRows, DeleteRows, DeleteSomeKeys,
             WriteSomeDocuments, DataInv, PhaseOK, OneCallUpsert
  <1>2. ASSUME DataInv, [Next]_vars
        PROVE  [req.op = "upsert" /\ Handler /\ protocol \in OneCallUpsert \ {"http"}
                  => TouchesOnly(BodyKeys)]_vars
    BY <1>1, <1>2
  <1> QED
    BY <1>2, AlwaysDataInv, PTL DEF Spec, UpsertAtOnceTouchesItsRow

(***************************************************************************)
(* PATCH and DELETE                                                        *)
(***************************************************************************)

\* Every operator a driver is asked to carry out means what the client meant.
LEMMA FiltersMeant ==
    ASSUME NEW m \in Mappings, NEW f \in Filters(m), f.op # "is" => f.val # <<>>,
           NEW x \in Vals \cup {Null}
    PROVE  /\ f.op # "in" => (SqlHolds(f, x) <=> FilterMeans(f, x))
           /\ HttpHolds(f, x) <=> FilterMeans(f, x)
           /\ f.op \in {"eq", "gt"} => (BsonHolds(f, x) <=> FilterMeans(f, x))
           /\ f.op = "eq" => (RedisHolds(f, x) <=> FilterMeans(f, x))
           /\ f.op \in {"eq", "gt", "is"} => (TextHolds(f, x) <=> FilterMeans(f, x))
  <1>1. f.op \in {"eq", "neq", "gt", "in", "is"} /\ f.val \in Seq(Vals)
    BY DEF Filters, Ops
  <1>2. f.op # "is" => f.val[1] \in Vals
    BY <1>1
  <1>3. Range(f.val) \subseteq Vals
    BY <1>1 DEF Range
  <1>4. Null \notin Vals
    BY TableAssumption
  <1>5. CASE f.op = "eq"
    BY <1>2, <1>4, <1>5 DEF SqlHolds, HttpHolds, BsonHolds, RedisHolds, TextHolds, FilterMeans
  <1>6. CASE f.op = "neq"
    BY <1>2, <1>4, <1>6 DEF SqlHolds, HttpHolds, FilterMeans
  <1>7. CASE f.op = "gt"
    BY <1>2, <1>4, <1>7 DEF SqlHolds, HttpHolds, BsonHolds, TextHolds, FilterMeans
  <1>8. CASE f.op = "in"
    BY <1>3, <1>4, <1>8 DEF HttpHolds, FilterMeans
  <1>9. CASE f.op = "is"
    BY <1>9 DEF SqlHolds, HttpHolds, TextHolds, FilterMeans
  <1> QED
    BY <1>1, <1>5, <1>6, <1>7, <1>8, <1>9

LEMMA DistinctColumns ==
    ASSUME NEW m, NEW filters \in Seq(Filters(m)),
           \A h, l \in DOMAIN filters : filters[h].col = filters[l].col => h = l
    PROVE  FirstPerColumn(filters) = {filters[h] : h \in DOMAIN filters}
  <1>1. \A j \in DOMAIN filters : \A h \in 1..j - 1 : h \in DOMAIN filters /\ h # j
    OBVIOUS
  <1>2. {j \in DOMAIN filters : \A h \in 1..j - 1 : filters[h].col # filters[j].col} = DOMAIN filters
    BY <1>1
  <1> QED
    BY <1>2 DEF FirstPerColumn

LEMMA QueryParts ==
    ASSUME DataInv, phase # "idle"
    PROVE  /\ Query.filters = FirstPerColumn(req.query.filters)
           /\ Query.groups = req.query.groups
           /\ Query.select = req.query.select /\ Query.offset = req.query.offset
           /\ Query.limit = IF req.query.limit < 0 THEN 0 ELSE req.query.limit
  <1>1. req \in Requests
    BY DEF DataInv, RequestOK
  <1>2. req.via = "rpc" => /\ req.query.groups = {} /\ req.query.select = {}
                           /\ req.query.limit = -1 /\ req.query.offset = 0
    BY <1>1, RequestAssumption DEF RpcOnly
  <1> QED
    BY <1>2 DEF Query, ParseRPC, ParseQuery

(***************************************************************************)
(* In the part of the query language where a driver is meant to agree with *)
(* PostgREST, what its WHERE selects, over the parsed and mapped query, is *)
(* what the client's filters mean, for every table, mapping and query.     *)
(***************************************************************************)
THEOREM SelectedMeant ==
    ASSUME NEW p \in Protocols, NEW raw, NEW q,
           NEW t \in KeyedTables(cols), cols \in Mappings, QueryFits(raw, cols), Portable(p, raw),
           q.filters = FirstPerColumn(raw.filters), q.groups = raw.groups
    PROVE  Selected(p, cols, q, t) = Meant(raw, t)
  <1>1. /\ raw.filters \in Seq(Filters(cols)) /\ raw.groups \subseteq Filters(cols)
        /\ \A h \in DOMAIN raw.filters : raw.filters[h].op # "is" => raw.filters[h].val # <<>>
        /\ \A f \in raw.groups : f.op # "is" => f.val # <<>>
    BY DEF QueryFits, Range
  <1>2. q.filters = {raw.filters[h] : h \in DOMAIN raw.filters}
    BY <1>1, DistinctColumns DEF Portable
  <1>3. ASSUME NEW x \in Present(t), NEW f \in Filters(cols)
        PROVE  At(cols, t[x], f) \in Vals \cup {Null}
    <2>1. t[x] \in Rows(cols)
      BY KeyedRows DEF Present
    <2>2. RemoteName(cols, f.col) \in RemoteNames(cols)
      BY DEF Filters, RemoteName, RemoteNames, Range
    <2> QED
      BY <2>1, <2>2 DEF At, Rows
  <1>4. \A h \in DOMAIN raw.filters : raw.filters[h] \in Filters(cols)
                                      /\ raw.filters[h].op \in Operators(raw)
    BY <1>1 DEF Operators
  <1>5. \A f \in raw.groups : f.op \in Operators(raw)
    BY DEF Operators
  <1>6. ASSUME NEW x \in Present(t)
        PROVE  Selects(p, cols, q, t[x]) <=>
                 /\ \A h \in DOMAIN raw.filters :
                      FilterMeans(raw.filters[h], At(cols, t[x], raw.filters[h]))
                 /\ raw.groups # {} => \E f \in raw.groups : FilterMeans(f, At(cols, t[x], f))
    <2>1. CASE p = "postgres"
      <3>1. Operators(raw) \subseteq {"eq", "neq", "gt", "is"}
        BY <2>1 DEF Portable, SqlDrivers
      <3>2. \A h \in DOMAIN raw.filters :
              SqlHolds(raw.filters[h], At(cols, t[x], raw.filters[h]))
                <=> FilterMeans(raw.filters[h], At(cols, t[x], raw.filters[h]))
        BY <1>1, <1>3, <1>4, <3>1, FiltersMeant
      <3>3. ASSUME NEW f \in raw.groups
            PROVE  SqlHolds(f, At(cols, t[x], f)) <=> FilterMeans(f, At(cols, t[x], f))
        <4>1. f \in Filters(cols) /\ (f.op # "is" => f.val # <<>>)
          BY <1>1
        <4>2. At(cols, t[x], f) \in Vals \cup {Null}
          BY <1>3, <4>1
        <4>3. f.op # "in"
          BY <1>5, <3>1
        <4> QED
          BY <4>1, <4>2, <4>3, FiltersMeant
      <3>4. PostgresSelects(cols, q, t[x]) <=>
              /\ \A f \in q.filters : SqlHolds(f, At(cols, t[x], f))
              /\ raw.groups # {} => \E f \in raw.groups : SqlHolds(f, At(cols, t[x], f))
        BY DEF PostgresSelects
      <3>5. (\A f \in q.filters : SqlHolds(f, At(cols, t[x], f))) <=>
              \A h \in DOMAIN raw.filters :
                SqlHolds(raw.filters[h], At(cols, t[x], raw.filters[h]))
        BY <1>2
      <3>6. Selects(p, cols, q, t[x]) <=> PostgresSelects(cols, q, t[x])
        BY <2>1 DEF Selects
      <3> QED
        BY <3>2, <3>3, <3>4, <3>5, <3>6
    <2>2. CASE p = "mysql"
      <3>1. Operators(raw) \subseteq {"eq", "neq", "gt", "is"} /\ raw.groups = {}
        BY <2>2 DEF Portable, SqlDrivers
      <3>2. \A h \in DOMAIN raw.filters :
              SqlHolds(raw.filters[h], At(cols, t[x], raw.filters[h]))
                <=> FilterMeans(raw.filters[h], At(cols, t[x], raw.filters[h]))
        BY <1>1, <1>3, <1>4, <3>1, FiltersMeant
      <3> QED
        BY <1>2, <2>2, <3>1, <3>2 DEF Selects, MySqlSelects
    <2>3. CASE p = "mongo"
      <3>1. Operators(raw) \subseteq {"eq", "gt"} /\ raw.groups = {}
        BY <2>3 DEF Portable, SqlDrivers
      <3>2. \A h \in DOMAIN raw.filters :
              BsonHolds(raw.filters[h], At(cols, t[x], raw.filters[h]))
                <=> FilterMeans(raw.filters[h], At(cols, t[x], raw.filters[h]))
        BY <1>1, <1>3, <1>4, <3>1, FiltersMeant
      <3> QED
        BY <1>2, <2>3, <3>1, <3>2 DEF Selects, MongoSelects
    <2>4. CASE p = "http"
      <3>1. raw.groups = {}
        BY <2>4 DEF Portable
      <3>2. \A h \in DOMAIN raw.filters :
              HttpHolds(raw.filters[h], At(cols, t[x], raw.filters[h]))
                <=> FilterMeans(raw.filters[h], At(cols, t[x], raw.filters[h]))
        BY <1>1, <1>3, <1>4, FiltersMeant
      <3> QED
        BY <1>2, <2>4, <3>1, <3>2 DEF Selects, HttpSelects
    <2>5. CASE p = "redis"
      <3>1. Operators(raw) \subseteq {"eq"} /\ raw.groups = {}
        BY <2>5 DEF Portable, SqlDrivers
      <3>2. \A h \in DOMAIN raw.filters :
              RedisHolds(raw.filters[h], At(cols, t[x], raw.filters[h]))
                <=> FilterMeans(raw.filters[h], At(cols, t[x], raw.filters[h]))
        BY <1>1, <1>3, <1>4, <3>1, FiltersMeant
      <3> QED
        BY <1>2, <2>5, <3>1, <3>2 DEF Selects, RedisSelects
    <2>6. CASE p = "file"
      <3>1. Operators(raw) \subseteq {"eq", "gt", "is"}
            /\ (raw.groups = {} \/ raw.filters = <<>>)
        BY <2>6 DEF Portable, SqlDrivers
      <3>2. \A h \in DOMAIN raw.filters :
              TextHolds(raw.filters[h], At(cols, t[x], raw.filters[h]))
                <=> FilterMeans(raw.filters[h], At(cols, t[x], raw.filters[h]))
        BY <1>1, <1>3, <1>4, <3>1, FiltersMeant
      <3>3. ASSUME NEW f \in raw.groups
            PROVE  TextHolds(f, At(cols, t[x], f)) <=> FilterMeans(f, At(cols, t[x], f))
        <4>1. f \in Filters(cols) /\ (f.op # "is" => f.val # <<>>)
          BY <1>1
        <4>2. At(cols, t[x], f) \in Vals \cup {Null}
          BY <1>3, <4>1
        <4>3. f.op \in {"eq", "gt", "is"}
          BY <1>5, <3>1
        <4> QED
          BY <4>1, <4>2, <4>3, FiltersMeant
      <3>4. Selects(p, cols, q, t[x]) <=> MatchQuery(cols, q, t[x])
        BY <2>6 DEF Selects
      <3>5. (\A f \in q.filters : TextHolds(f, At(cols, t[x], f))) <=>
              \A h \in DOMAIN raw.filters :
                TextHolds(raw.filters[h], At(cols, t[x], raw.filters[h]))
        BY <1>2
      <3>6. CASE raw.groups = {}
        BY <3>2, <3>4, <3>5, <3>6 DEF MatchQuery
      <3>7. CASE raw.groups # {} /\ raw.filters = <<>>
        BY <3>3, <3>4, <3>7 DEF MatchQuery
      <3> QED
        BY <3>1, <3>6, <3>7
    <2> QED
      BY <2>1, <2>2, <2>3, <2>4, <2>5, <2>6 DEF Protocols
  <1> QED
    BY <1>6 DEF Selected, Meant

\* A portable query of redis names one key that is there.
LEMMA RedisMeant ==
    ASSUME NEW raw, NEW q, NEW t \in KeyedTables(cols), cols \in Mappings, QueryFits(raw, cols),
           Portable("redis", raw), Len(raw.filters) = 1, raw.filters[1].col = KeyCol,
           t[raw.filters[1].val[1]] # None,
           q.filters = FirstPerColumn(raw.filters)
    PROVE  LET key == raw.filters[1].val[1]
           IN  /\ key \in Vals /\ Meant(raw, t) = {key}
               /\ q.filters = {raw.filters[1]} /\ raw.filters[1].op = "eq"
  <1>1. /\ raw.filters \in Seq(Filters(cols)) /\ DOMAIN raw.filters = {1}
        /\ \A h \in DOMAIN raw.filters : raw.filters[h].op # "is" => raw.filters[h].val # <<>>
    BY DEF QueryFits, Range
  <1>2. PICK f : f = raw.filters[1]
    OBVIOUS
  <1>3. f \in Filters(cols) /\ f.col = KeyCol /\ (f.op # "is" => f.val # <<>>)
    BY <1>1, <1>2
  <1>4. f.op \in Operators(raw)
    BY <1>1, <1>2 DEF Operators
  <1>5. Operators(raw) \subseteq {"eq"} /\ raw.groups = {}
    BY DEF Portable, SqlDrivers
  <1>6. f.op = "eq" /\ f.val[1] \in Vals
    BY <1>3, <1>4, <1>5 DEF Filters
  <1>7. q.filters = {f}
    BY <1>1, <1>2, DistinctColumns DEF Portable
  <1>8. ASSUME NEW x \in Present(t)
        PROVE  At(cols, t[x], f) = x
    BY <1>3, KeyedRows, MappingFacts DEF At, RemoteName, Present
  <1>9. \A x \in Vals : FilterMeans(f, x) <=> x = f.val[1]
    BY <1>6, TableAssumption DEF FilterMeans
  <1>10. Meant(raw, t) = {x \in Present(t) : x = f.val[1]}
    <2>1. Meant(raw, t) = {x \in Present(t) : FilterMeans(f, At(cols, t[x], f))}
      BY <1>1, <1>2, <1>5 DEF Meant
    <2>2. \A x \in Present(t) : FilterMeans(f, At(cols, t[x], f)) <=> x = f.val[1]
      BY <1>8, <1>9 DEF Present
    <2> QED
      BY <2>1, <2>2
  <1>11. f.val[1] \in Present(t)
    BY <1>2, <1>6 DEF Present
  <1> QED
    BY <1>2, <1>6, <1>7, <1>10, <1>11

\* A remote row has the values of the row it is made from.
LEMMA RemoteValues ==
    ASSUME NEW m, NEW row, \A c \in DOMAIN row : row[c] # Null
    PROVE  \A n \in DOMAIN ToRemote(m, row) : ToRemote(m, row)[n] # Null
  <1> SUFFICES ASSUME NEW n \in DOMAIN ToRemote(m, row)
               PROVE  ToRemote(m, row)[n] # Null
    OBVIOUS
  <1>1. n \in {RemoteName(m, c) : c \in DOMAIN row}
    BY DEF ToRemote
  <1>2. ToRemote(m, row)[n] = row[CHOOSE c \in DOMAIN row : RemoteName(m, c) = n]
    BY <1>1 DEF ToRemote
  <1>3. (CHOOSE c \in DOMAIN row : RemoteName(m, c) = n) \in DOMAIN row
    BY <1>1
  <1> QED
    BY <1>2, <1>3

\* A write of the part of the language that is portable does what is asked.
LEMMA UpdateAsked ==
    ASSUME DataInv, phase = "call", req.op = "update", tbl = start,
           PortableWrite(protocol, req.query),
           Update(protocol, cols, tbl, req.body[1], Query).ok
    PROVE  Update(protocol, cols, tbl, req.body[1], Query).tbl = Asked(req.query, start)
  <1>1. PICK r : r = ToRemote(cols, req.body[1])
    OBVIOUS
  <1>2. PICK raw : raw = req.query
    OBVIOUS
  <1>3. PICK q : q = Query
    OBVIOUS
  <1>4. /\ cols \in Mappings /\ protocol \in Protocols /\ tbl \in KeyedTables(cols)
        /\ QueryFits(raw, cols) /\ q.filters = FirstPerColumn(raw.filters) /\ q.groups = raw.groups
        /\ req.body[1] \in BodyRows(cols) /\ KeyCol \notin DOMAIN req.body[1]
    BY <1>2, <1>3, QueryParts, RequestFacts DEF DataInv, FixedOK, TablesOK, RequestOK
  <1>5. KeyCol \notin DOMAIN r /\ RemoteRow(cols, r)
    BY <1>1, <1>4, ToRemoteRow
  <1>6. Portable(protocol, raw)
    BY <1>2 DEF PortableWrite
  <1>7. \A old : Over(NonKeys(r), old) = Over(r, old)
    BY <1>5 DEF NonKeys, Restrict, Over
  <1>8. Asked(raw, tbl) = [x \in Vals |-> IF x \notin Meant(raw, tbl) THEN tbl[x]
                                           ELSE Over(r, tbl[x])]
    BY <1>1 DEF Asked
  <1>9. CASE protocol \in {"postgres", "mysql", "mongo", "http"}
    <2>1. Selected(protocol, cols, q, tbl) = Meant(raw, tbl)
      BY <1>4, <1>6, <1>9, SelectedMeant
    <2>2. SetRows(tbl, Meant(raw, tbl), r) = Asked(raw, tbl)
          /\ SetRows(tbl, Meant(raw, tbl), NonKeys(r)) = Asked(raw, tbl)
      BY <1>7, <1>8 DEF SetRows
    <2>3. \/ Update(protocol, cols, tbl, req.body[1], q).tbl = SetRows(tbl, Meant(raw, tbl), r)
          \/ Update(protocol, cols, tbl, req.body[1], q).tbl
               = SetRows(tbl, Meant(raw, tbl), NonKeys(r))
      BY <1>1, <1>3, <1>9, <2>1
         DEF Update, PostgresUpdate, MySqlUpdate, MongoUpdate, HttpUpdate, Outcome, Refusal
    <2> QED
      BY <1>2, <1>3, <2>2, <2>3
  <1>10. CASE protocol = "redis"
    <2>1. Len(raw.filters) = 1 /\ raw.filters[1].col = KeyCol
          /\ tbl[raw.filters[1].val[1]] # None
      BY <1>2, <1>10 DEF PortableWrite
    <2>2. PICK key : key = raw.filters[1].val[1]
      OBVIOUS
    <2>3. key \in Vals /\ Meant(raw, tbl) = {key} /\ q.filters = {raw.filters[1]}
      BY <1>4, <1>6, <1>10, <2>1, <2>2, RedisMeant
    <2>8. Sprint(r) = r
      <3>1. \A c \in DOMAIN req.body[1] : req.body[1][c] # Null
        BY <1>10 DEF PortableWrite, Range
      <3>2. \A c \in DOMAIN r : r[c] # Null
        BY <1>1, <1>4, <3>1, RemoteValues
      <3>3. r = [c \in DOMAIN r |-> r[c]]
        BY <1>1 DEF ToRemote
      <3> QED
        BY <3>2, <3>3 DEF Sprint
    <2>4. Update(protocol, cols, tbl, req.body[1], q).tbl = PutRow(cols, tbl, key, r)
      BY <1>1, <1>3, <1>10, <2>2, <2>3, <2>8 DEF Update, RedisUpdate, Outcome, Refusal
    <2>5. PutRow(cols, tbl, key, r) = [tbl EXCEPT ![key] = Over(r, tbl[key])]
      BY <2>1, <2>2 DEF PutRow
    <2>6. tbl \in [Vals -> Rows(cols) \cup {None}]
      BY <1>4 DEF KeyedTables, Tables
    <2>7. [tbl EXCEPT ![key] = Over(r, tbl[key])] = Asked(raw, tbl)
      BY <1>8, <2>3, <2>6
    <2> QED
      BY <1>2, <1>3, <2>4, <2>5, <2>7
  <1>11. CASE protocol = "file"
    BY <1>11 DEF Update, Refusal, Outcome
  <1> QED
    BY <1>4, <1>9, <1>10, <1>11 DEF Protocols

LEMMA DeleteAsked ==
    ASSUME DataInv, phase = "call", req.op = "delete", tbl = start,
           PortableWrite(protocol, req.query)
    PROVE  /\ Delete(protocol, cols, tbl, Query).ok =>
                Delete(protocol, cols, tbl, Query).tbl = Asked(req.query, start)
           /\ protocol = "redis" => \A keys \in SUBSET NamedKeys(Query) :
                Removed(tbl, keys) \in {start, Asked(req.query, start)}
  <1>1. PICK raw : raw = req.query
    OBVIOUS
  <1>2. PICK q : q = Query
    OBVIOUS
  <1>3. /\ cols \in Mappings /\ protocol \in Protocols /\ tbl \in KeyedTables(cols)
        /\ QueryFits(raw, cols) /\ q.filters = FirstPerColumn(raw.filters) /\ q.groups = raw.groups
    BY <1>1, <1>2, QueryParts, RequestFacts DEF DataInv, FixedOK, TablesOK, RequestOK
  <1>4. Portable(protocol, raw)
    BY <1>1 DEF PortableWrite
  <1>5. Removed(tbl, Meant(raw, tbl)) = Asked(raw, tbl)
    BY DEF Asked, Removed
  <1>6. CASE protocol \in {"postgres", "mysql", "mongo", "http"}
    <2>1. Selected(protocol, cols, q, tbl) = Meant(raw, tbl)
      BY <1>3, <1>4, <1>6, SelectedMeant
    <2>2. Delete(protocol, cols, tbl, q).tbl = Removed(tbl, Meant(raw, tbl))
      BY <1>6, <2>1 DEF Delete, PostgresDelete, MySqlDelete, MongoDelete, HttpDelete, Outcome
    <2> QED
      BY <1>1, <1>2, <1>5, <1>6, <2>2
  <1>7. CASE protocol = "redis"
    <2>1. Len(raw.filters) = 1 /\ raw.filters[1].col = KeyCol
          /\ tbl[raw.filters[1].val[1]] # None
      BY <1>1, <1>7 DEF PortableWrite
    <2>2. PICK key : key = raw.filters[1].val[1]
      OBVIOUS
    <2>3. /\ key \in Vals /\ Meant(raw, tbl) = {key}
          /\ q.filters = {raw.filters[1]} /\ raw.filters[1].op = "eq"
      BY <1>3, <1>4, <1>7, <2>1, <2>2, RedisMeant
    <2>4. NamedKeys(q) = {key}
      BY <2>2, <2>3 DEF NamedKeys
    <2>5. Delete(protocol, cols, tbl, q).tbl = Removed(tbl, {key})
      BY <1>7, <2>4 DEF Delete, RedisDelete, Outcome
    <2>6. Removed(tbl, {}) = tbl
      BY <1>3 DEF Removed, KeyedTables, Tables
    <2>7. \A keys \in SUBSET {key} : keys = {} \/ keys = {key}
      OBVIOUS
    <2> QED
      BY <1>1, <1>2, <1>5, <2>3, <2>4, <2>5, <2>6, <2>7
  <1>8. CASE protocol = "file"
    BY <1>8 DEF Delete, Refusal, Outcome
  <1> QED
    BY <1>3, <1>6, <1>7, <1>8 DEF Protocols

\* The documents MongoDB has written when it is stopped are as asked, the others as
\* they were.
LEMMA DocumentsAsked ==
    ASSUME DataInv, WriteSomeDocuments, tbl = start, PortableWrite(protocol, req.query)
    PROVE  \A x \in Vals : tbl'[x] \in {start[x], Asked(req.query, start)[x]}
  <1>1. PICK keys \in SUBSET Selected("mongo", cols, Query, tbl) :
          tbl' = IF req.op = "delete" THEN Removed(tbl, keys)
                 ELSE SetRows(tbl, keys, ToRemote(cols, req.body[1]))
    BY DEF WriteSomeDocuments
  <1>2. /\ cols \in Mappings /\ tbl \in KeyedTables(cols) /\ QueryFits(req.query, cols)
        /\ Query.filters = FirstPerColumn(req.query.filters) /\ Query.groups = req.query.groups
    BY QueryParts, RequestFacts DEF DataInv, FixedOK, TablesOK, RequestOK, WriteSomeDocuments
  <1>3. protocol = "mongo" /\ Portable("mongo", req.query) /\ "mongo" \in Protocols
        /\ req.op \in {"update", "delete"}
    BY DEF WriteSomeDocuments, PortableWrite, Protocols
  <1>4. keys \subseteq Meant(req.query, tbl)
    BY <1>1, <1>2, <1>3, SelectedMeant
  <1> SUFFICES ASSUME NEW x \in Vals
               PROVE  tbl'[x] \in {start[x], Asked(req.query, start)[x]}
    OBVIOUS
  <1>5. CASE req.op = "delete"
    BY <1>1, <1>4, <1>5 DEF Removed, Asked
  <1>6. CASE req.op = "update"
    BY <1>1, <1>4, <1>6 DEF SetRows, Asked
  <1> QED
    BY <1>3, <1>5, <1>6

\* WritesAsAsked, and that nothing is done before the one call.
Watched ==
    /\ alone /\ phase # "idle" /\ req.op \in {"update", "delete"}
    /\ PortableWrite(protocol, req.query)

Done == Asked(req.query, start)

\* Whole or not at all; by documents on MongoDB.
Between ==
    \/ tbl \in {start, Done}
    \/ protocol = "mongo" /\ \A x \in Vals : tbl[x] \in {start[x], Done[x]}

WriteInv ==
    Watched => /\ Between /\ (phase = "call" => tbl = start)
               /\ phase = "again" \/ Answered200 => tbl = Done

LEMMA WriteHandler ==
    ASSUME DataInv, WriteInv, Handler, phase' # "idle"
    PROVE  WriteInv'
  <1> USE DEF fixed, ghosts
  <1>1. UNCHANGED <<protocol, cols, req, start, alone>>
    BY DEF Handler, SelectRows, CountRows, InsertRow, UpsertRow, UpsertInsert, UpsertUpdate,
           UpdateRows, DeleteRows, SelectAgain, Invoke, Unsupported, Fail, Refused, LoseReply,
           DeleteSomeKeys, WriteSomeDocuments, Finish
  <1>2. phase # "idle"
    BY NextCallKeyed
       DEF Handler, SelectRows, CountRows, InsertRow, UpsertRow, UpsertInsert, UpsertUpdate,
           UpdateRows, DeleteRows, SelectAgain, Invoke, Unsupported, Fail, LoseReply,
           DeleteSomeKeys, WriteSomeDocuments, Finish
  <1>3. SUFFICES ASSUME Watched
                 PROVE  /\ \/ tbl' \in {start, Done}
                           \/ /\ protocol = "mongo"
                              /\ \A x \in Vals : tbl'[x] \in {start[x], Done[x]}
                        /\ phase' = "call" => tbl' = start
                        /\ phase' = "again" \/ Answered200' => tbl' = Done
    BY <1>1, <1>2 DEF WriteInv, Between, Watched, Done, Asked, Meant, PortableWrite
  <1>4. /\ req.op \in {"update", "delete"} /\ PortableWrite(protocol, req.query)
        /\ \/ tbl \in {start, Done}
           \/ protocol = "mongo" /\ \A x \in Vals : tbl[x] \in {start[x], Done[x]}
        /\ phase = "call" => tbl = start
        /\ phase = "again" \/ Answered200 => tbl = Done
        /\ PhaseOK
    BY <1>3 DEF WriteInv, Between, Watched, DataInv
  <1>5. CASE UpdateRows
    <2>1. tbl' = Done
      BY <1>4, <1>5, UpdateAsked DEF UpdateRows, Done
    <2> QED
      BY <1>5, <2>1 DEF UpdateRows, Written
  <1>6. CASE DeleteRows
    <2>1. tbl' = Done
      BY <1>4, <1>6, DeleteAsked DEF DeleteRows, Done
    <2> QED
      BY <1>6, <2>1 DEF DeleteRows, Written
  <1>7. CASE LoseReply
    <2>1. phase = "call"
      BY <1>4, <1>7, NextCallCases DEF LoseReply, PhaseOK
    <2>2. tbl' = Done
      BY <1>4, <1>7, <2>1, NextCallCases, UpdateAsked, DeleteAsked DEF LoseReply, Done
    <2> QED
      BY <1>7, <2>2 DEF LoseReply
  <1>8. CASE DeleteSomeKeys
    <2>1. tbl' \in {start, Done}
      BY <1>4, <1>8, DeleteAsked DEF DeleteSomeKeys, Done
    <2>2. phase' = "done" /\ ans'.status = "error"
      BY <1>8 DEF DeleteSomeKeys, NoAnswer
    <2> QED
      BY <2>1, <2>2 DEF Answered200
  <1>11. CASE WriteSomeDocuments
    <2>1. protocol = "mongo" /\ \A x \in Vals : tbl'[x] \in {start[x], Done[x]}
      BY <1>4, <1>11, DocumentsAsked DEF WriteSomeDocuments, Done
    <2>2. phase' = "done" /\ ans'.status = "error"
      BY <1>11 DEF WriteSomeDocuments, NoAnswer
    <2> QED
      BY <2>1, <2>2 DEF Answered200
  <1>9. CASE SelectAgain
    BY <1>4, <1>9 DEF SelectAgain
  <1>10. CASE Unsupported \/ Fail
    <2>1. \E status \in {"unsupported", "error"} : ans' = [NoAnswer EXCEPT !.status = status]
      BY <1>10 DEF Unsupported, Fail, Refused
    <2>2. ans'.status # "ok"
      BY <2>1 DEF NoAnswer
    <2>3. phase' = "done" /\ UNCHANGED tbl
      BY <1>10 DEF Unsupported, Fail, Refused
    <2> QED
      BY <1>4, <2>2, <2>3 DEF Answered200
  <1> QED
    BY <1>4, <1>5, <1>6, <1>7, <1>8, <1>9, <1>10, <1>11
       DEF Handler, SelectRows, CountRows, InsertRow, UpsertRow, UpsertInsert, UpsertUpdate,
           Invoke, Finish, PhaseOK

(***************************************************************************)
(* A PATCH or DELETE in the portable part of the query language that       *)
(* nobody else writes during does exactly what its filters mean or nothing *)
(* at all, on MongoDB to each row, and all of it once it is answered with  *)
(* success: every driver's WHERE, the mapping of names, the parser, for    *)
(* every table and request, with writes that stop at any document, replies *)
(* that are lost and a second Select that fails.                           *)
(***************************************************************************)
THEOREM PortableWritesAreExact == Spec => []WritesAsAsked
  <1>1. Init => WriteInv
    BY DEF Init, WriteInv, Watched
  <1>2. ASSUME DataInv, WriteInv, [Next]_vars
        PROVE  WriteInv'
    <2>1. CASE Handler /\ phase' # "idle"
      BY <1>2, <2>1, WriteHandler
    <2>2. CASE \E r \in Requests : Arrive(r)
      <3>1. phase' = "call" /\ tbl' = start'
        BY <2>2 DEF Arrive
      <3> QED
        BY <3>1 DEF WriteInv, Between, Answered200
    <2>3. CASE Others \/ phase' = "idle"
      BY <2>3 DEF Others, WriteInv, Watched
    <2>4. CASE UNCHANGED vars
      BY <1>2, <2>4 DEF vars, WriteInv, Between, Watched, Done, Asked, Meant, PortableWrite, Answered200
    <2> QED
      BY <1>2, <2>1, <2>2, <2>3, <2>4 DEF Next
  <1>3. WriteInv => WritesAsAsked
    BY DEF WriteInv, Between, Watched, Done, WritesAsAsked
  <1> QED
    BY <1>1, <1>2, <1>3, AlwaysDataInv, PTL DEF Spec

(***************************************************************************)
(* Bulk inserts                                                            *)
(***************************************************************************)
Key(h) == req.body[h][KeyCol]

Distinct(n) == \A h, l \in 1..n : Key(h) = Key(l) => h = l

\* What row h leaves under its key.
NewRow(h) == Over(ToRemote(cols, req.body[h]), Blank(cols, Key(h)))

LEMMA InsertedRows ==
    ASSUME NEW t, NEW n \in Nat, Distinct(n)
    PROVE  /\ \A h \in 1..n : Key(h) \in Vals => Inserted(t, n)[Key(h)] = NewRow(h)
           /\ \A x \in Vals : (\A h \in 1..n : Key(h) # x) => Inserted(t, n)[x] = t[x]
  <1>1. ASSUME NEW h \in 1..n, Key(h) \in Vals
        PROVE  Inserted(t, n)[Key(h)] = NewRow(h)
    <2>1. PICK x : x = Key(h)
      OBVIOUS
    <2>2. PICK g : g = CHOOSE l \in 1..n : req.body[l][KeyCol] = x
      OBVIOUS
    <2>3. g \in 1..n /\ req.body[g][KeyCol] = x
      BY <2>1, <2>2 DEF Key
    <2>4. g = h
      BY <2>1, <2>3 DEF Distinct, Key
    <2>5. Inserted(t, n)[x] = Over(ToRemote(cols, req.body[g]), Blank(cols, x))
      BY <1>1, <2>1, <2>2, <2>3 DEF Inserted
    <2> QED
      BY <2>1, <2>4, <2>5 DEF NewRow
  <1>2. ASSUME NEW x \in Vals, \A h \in 1..n : Key(h) # x
        PROVE  Inserted(t, n)[x] = t[x]
    BY <1>2 DEF Inserted, Key
  <1> QED
    BY <1>1, <1>2

LEMMA NextInserted ==
    ASSUME DataInv, phase = "call", req.op = "insert", protocol # "redis",
           Distinct(i), tbl = Inserted(start, i),
           Insert(protocol, cols, tbl, req.body[i + 1]).ok
    PROVE  /\ Insert(protocol, cols, tbl, req.body[i + 1]).tbl = Inserted(start, i + 1)
           /\ Distinct(i + 1)
  <1>1. PICK n \in Nat : n = i + 1
    BY DEF DataInv, RequestOK
  <1>2. /\ cols \in Mappings /\ i \in Nat /\ protocol \in Protocols
        /\ tbl \in KeyedTables(cols) /\ start \in KeyedTables(cols)
        /\ \A h \in 1..n : KeyedRow(cols, req.body[h])
    <2>1. req \in Requests /\ cols \in Mappings /\ n \in DOMAIN req.body
      BY <1>1 DEF DataInv, RequestOK, FixedOK, PhaseOK
    <2>2. req.body \in Seq(BodyRows(cols))
      BY <2>1, RequestFacts
    <2>3. \A h \in 1..n : h \in DOMAIN req.body
      BY <2>1, <2>2
    <2> QED
      BY <2>1, <2>3, RequestFacts DEF DataInv, FixedOK, TablesOK, RequestOK
  <1>3. PICK r : r = ToRemote(cols, req.body[n])
    OBVIOUS
  <1>4. PICK key \in Vals : key = Key(n) /\ r[KeyCol] = key
    BY <1>1, <1>2, <1>3, PutRemote DEF Key
  <1>5. Insert(protocol, cols, tbl, req.body[n]) = InsertNew(cols, tbl, r)
    BY <1>1, <1>2, <1>3 DEF Insert, PostgresInsert, MySqlInsert, MongoInsert, HttpInsert,
                            Refusal, Outcome, Protocols
  <1>6. tbl[key] = None /\ Insert(protocol, cols, tbl, req.body[n]).tbl = PutRow(cols, tbl, key, r)
    BY <1>1, <1>4, <1>5 DEF InsertNew, Refusal, Outcome
  <1>7. PICK t : t = PutRow(cols, tbl, key, r)
    OBVIOUS
  <1>8. /\ t[key] = NewRow(n) /\ (\A x \in Vals \ {key} : t[x] = tbl[x])
        /\ t = [x \in Vals |-> t[x]]
    <2>1. t = [tbl EXCEPT ![key] = Over(r, Blank(cols, key))]
      BY <1>6, <1>7 DEF PutRow
    <2>2. tbl \in [Vals -> Rows(cols) \cup {None}]
      BY <1>2 DEF KeyedTables, Tables
    <2> QED
      BY <1>3, <1>4, <2>1, <2>2 DEF NewRow
  <1>9. ASSUME NEW h \in 1..i
        PROVE  Key(h) # key /\ Key(h) \in Vals
    <2>1. KeyedRow(cols, req.body[h])
      BY <1>1, <1>2
    <2>2. Key(h) \in Vals
      BY <2>1 DEF Key, KeyedRow
    <2>3. tbl[Key(h)] = NewRow(h)
      BY <1>2, <2>2, InsertedRows
    <2>4. NewRow(h) \in Rows(cols)
      <3>1. Blank(cols, Key(h)) \in Rows(cols)
        BY <2>2 DEF Blank, Rows
      <3>2. RemoteRow(cols, ToRemote(cols, req.body[h]))
        BY <1>2, <2>1, ToRemoteRow DEF KeyedRow
      <3> QED
        BY <1>2, <3>1, <3>2, OverRow, MappingFacts DEF NewRow
    <2>5. NewRow(h) # None
      BY <1>2, <2>4, MappingAssumption
    <2> QED
      BY <1>6, <2>2, <2>3, <2>5
  <1>10. \A h \in 1..n : h \in 1..i \/ h = n
    BY <1>1, <1>2
  <1>11. Distinct(n)
    BY <1>4, <1>9, <1>10 DEF Distinct
  <1>12. ASSUME NEW x \in Vals
         PROVE  t[x] = Inserted(start, n)[x]
    <2>1. CASE x = key
      <3>1. n \in 1..n
        BY <1>1, <1>2
      <3> QED
        BY <1>4, <1>8, <1>11, <2>1, <3>1, InsertedRows
    <2>2. CASE \E h \in 1..i : Key(h) = x
      <3>1. PICK h \in 1..i : Key(h) = x
        BY <2>2
      <3>2. h \in 1..n /\ x # key
        BY <1>1, <1>2, <1>9, <3>1
      <3>3. Inserted(start, n)[x] = NewRow(h)
        BY <1>11, <3>1, <3>2, InsertedRows
      <3>4. Inserted(start, i)[x] = NewRow(h)
        BY <1>2, <3>1, InsertedRows
      <3> QED
        BY <1>8, <3>2, <3>3, <3>4
    <2>3. CASE x # key /\ \A h \in 1..i : Key(h) # x
      <3>1. Inserted(start, n)[x] = start[x]
        BY <1>4, <1>10, <1>11, <2>3, InsertedRows
      <3>2. Inserted(start, i)[x] = start[x]
        BY <1>2, <2>3, InsertedRows
      <3> QED
        BY <1>8, <2>3, <3>1, <3>2
    <2> QED
      BY <2>1, <2>2, <2>3
  <1>13. t = Inserted(start, n)
    <2>1. Inserted(start, n) = [x \in Vals |-> Inserted(start, n)[x]]
      BY DEF Inserted
    <2> QED
      BY <1>8, <1>12, <2>1
  <1> QED
    BY <1>1, <1>6, <1>7, <1>11, <1>13

BulkWatched == alone /\ phase # "idle" /\ req.op = "insert" /\ protocol # "redis"

BulkInv ==
    BulkWatched =>
        /\ phase = "call" => Distinct(i) /\ tbl = Inserted(start, i)
        /\ phase = "done" => \E n \in i..i + 1 : n <= Len(req.body) /\ tbl = Inserted(start, n)
        /\ Answered200 => tbl = Inserted(start, Len(req.body))

LEMMA BulkLength ==
    ASSUME DataInv, phase = "call", req.op = "insert"
    PROVE  i \in Nat /\ Len(req.body) \in Nat /\ i + 1 <= Len(req.body)
  <1>1. req \in Requests /\ cols \in Mappings /\ i \in Nat /\ i + 1 \in DOMAIN req.body
    BY DEF DataInv, FixedOK, RequestOK, PhaseOK
  <1>2. req.body \in Seq(BodyRows(cols))
    BY <1>1, RequestFacts
  <1> QED
    BY <1>1, <1>2

LEMMA BulkHandler ==
    ASSUME DataInv, BulkInv, Handler, phase' # "idle"
    PROVE  BulkInv'
  <1> USE DEF fixed, ghosts
  <1>1. UNCHANGED <<protocol, cols, req, start, alone>> /\ phase # "idle"
    BY NextCallKeyed
       DEF Handler, SelectRows, CountRows, InsertRow, UpsertRow, UpsertInsert, UpsertUpdate,
           UpdateRows, DeleteRows, SelectAgain, Invoke, Unsupported, Fail, Refused, LoseReply,
           DeleteSomeKeys, WriteSomeDocuments, Finish
  <1>2. SUFFICES ASSUME BulkWatched
                 PROVE  /\ phase' = "call" => Distinct(i') /\ tbl' = Inserted(start, i')
                        /\ phase' = "done" => \E n \in i'..i' + 1 :
                             n <= Len(req.body) /\ tbl' = Inserted(start, n)
                        /\ Answered200' => tbl' = Inserted(start, Len(req.body))
    BY <1>1 DEF BulkInv, BulkWatched, Distinct, Key, Inserted
  <1>3. /\ req.op = "insert" /\ protocol # "redis" /\ PhaseOK
        /\ phase = "call" => Distinct(i) /\ tbl = Inserted(start, i)
    BY <1>2 DEF BulkInv, BulkWatched, DataInv
  <1>4. CASE InsertRow
    <2>1. phase = "call" /\ tbl' = Inserted(start, i + 1) /\ Distinct(i + 1)
      BY <1>3, <1>4, NextInserted DEF InsertRow
    <2>2. i' = i + 1 /\ IF i' = Len(req.body) THEN phase' = "done" ELSE phase' = "call"
      BY <1>4 DEF InsertRow, RowDone
    <2>3. i \in Nat /\ Len(req.body) \in Nat /\ i + 1 <= Len(req.body)
      BY <1>3, <2>1, BulkLength
    <2> QED
      BY <2>1, <2>2, <2>3 DEF Answered200
  <1>5. CASE LoseReply
    <2>1. phase = "call" /\ NextCall = Insert(protocol, cols, tbl, req.body[i + 1])
      BY <1>3, <1>5, NextCallCases DEF LoseReply, PhaseOK
    <2>2. tbl' = Inserted(start, i + 1)
      BY <1>3, <1>5, <2>1, NextInserted DEF LoseReply
    <2>3. i \in Nat /\ Len(req.body) \in Nat /\ i + 1 <= Len(req.body)
      BY <1>3, <2>1, BulkLength
    <2>4. phase' = "done" /\ i' = i /\ ans'.status = "error"
      BY <1>5 DEF LoseReply, NoAnswer
    <2> QED
      BY <2>2, <2>3, <2>4 DEF Answered200
  <1>6. CASE Unsupported \/ Fail
    <2>1. phase = "call"
      BY <1>3, <1>6 DEF Unsupported, Fail, PhaseOK
    <2>2. \E status \in {"unsupported", "error"} : ans' = [NoAnswer EXCEPT !.status = status]
      BY <1>6 DEF Unsupported, Fail, Refused
    <2>3. ans'.status # "ok"
      BY <2>2 DEF NoAnswer
    <2>4. phase' = "done" /\ UNCHANGED <<tbl, i>>
      BY <1>6 DEF Unsupported, Fail, Refused
    <2>5. i \in Nat /\ Len(req.body) \in Nat /\ i + 1 <= Len(req.body)
      BY <1>3, <2>1, BulkLength
    <2> QED
      BY <1>3, <2>1, <2>3, <2>4, <2>5 DEF Answered200
  <1> QED
    BY <1>3, <1>4, <1>5, <1>6
       DEF Handler, SelectRows, CountRows, UpsertRow, UpsertInsert, UpsertUpdate, UpdateRows,
           DeleteRows, SelectAgain, DeleteSomeKeys, WriteSomeDocuments, Invoke,
           Finish, PhaseOK

LEMMA BulkArrives ==
    ASSUME DataInv, NEW r \in Requests, Arrive(r)
    PROVE  BulkInv'
  <1>1. phase' = "call" /\ tbl' = tbl /\ start' = tbl /\ i' = 0
    BY DEF Arrive, fixed
  <1>2. \A h : h \notin 1..0
    OBVIOUS
  <1>3. tbl = [x \in Vals |-> tbl[x]]
    BY DEF DataInv, TablesOK, KeyedTables, Tables
  <1>4. Distinct(i)'
    BY <1>1, <1>2 DEF Distinct
  <1>5. Inserted(start, i)' = [x \in Vals |-> tbl[x]]
    BY <1>1, <1>2 DEF Inserted
  <1>6. (tbl = Inserted(start, i))'
    BY <1>1, <1>3, <1>5
  <1> QED
    BY <1>1, <1>4, <1>6 DEF BulkInv, Answered200

(***************************************************************************)
(* A bulk POST that nobody else writes during leaves a prefix of its rows, *)
(* however many: InsertMany stops at the first row that fails, a lost      *)
(* reply hides at most one more row, and success means all of them.        *)
(***************************************************************************)
THEOREM BulkInsertsLeaveAPrefix == Spec => []BulkInsertIsAPrefix
  <1>1. Init => BulkInv
    BY DEF Init, BulkInv, BulkWatched
  <1>2. ASSUME DataInv, BulkInv, [Next]_vars
        PROVE  BulkInv'
    <2>1. CASE Handler /\ phase' # "idle"
      BY <1>2, <2>1, BulkHandler
    <2>2. CASE \E r \in Requests : Arrive(r)
      BY <1>2, <2>2, BulkArrives
    <2>3. CASE Others \/ phase' = "idle"
      BY <2>3 DEF Others, BulkInv, BulkWatched
    <2>4. CASE UNCHANGED vars
      <3>1. /\ cols' = cols /\ tbl' = tbl /\ phase' = phase /\ req' = req /\ i' = i
            /\ ans' = ans /\ start' = start /\ alone' = alone /\ protocol' = protocol
        BY <2>4 DEF vars
      <3>2. /\ Distinct(i)' <=> Distinct(i)
            /\ BulkWatched' <=> BulkWatched
            /\ Answered200' <=> Answered200
        BY <3>1 DEF Distinct, Key, BulkWatched, Answered200
      <3>3. \A n : Inserted(start, n)' = Inserted(start, n)
        BY <3>1 DEF Inserted
      <3>4. /\ Inserted(start, i)' = Inserted(start, i)
            /\ Inserted(start, Len(req.body))' = Inserted(start, Len(req.body))
        BY <3>1 DEF Inserted
      <3> QED
        BY <1>2, <3>1, <3>2, <3>3, <3>4 DEF BulkInv
    <2> QED
      BY <1>2, <2>1, <2>2, <2>3, <2>4 DEF Next
  <1>3. ASSUME DataInv, BulkInv
        PROVE  BulkInsertIsAPrefix
    <2> SUFFICES ASSUME BulkWatched
                 PROVE  /\ \E n \in i..i + 1 : n <= Len(req.body) /\ tbl = Inserted(start, n)
                        /\ phase = "call" => tbl = Inserted(start, i)
                        /\ Answered200 => tbl = Inserted(start, Len(req.body))
      BY DEF BulkInsertIsAPrefix, BulkWatched
    <2>1. phase \in {"call", "done"}
      BY <1>3 DEF BulkWatched, DataInv, RequestOK, PhaseOK, Phases
    <2>2. CASE phase = "call"
      <3>1. i \in Nat /\ Len(req.body) \in Nat /\ i + 1 <= Len(req.body)
        BY <1>3, <2>2, BulkLength DEF BulkWatched
      <3> QED
        BY <1>3, <2>2, <3>1 DEF BulkInv, Answered200
    <2>3. CASE phase = "done"
      BY <1>3, <2>3 DEF BulkInv
    <2> QED
      BY <2>1, <2>2, <2>3
  <1> QED
    BY <1>1, <1>2, <1>3, AlwaysDataInv, PTL DEF Spec

(***************************************************************************)
(* Answers                                                                 *)
(***************************************************************************)

\* What a driver answers with is a page of the rows its query selects.
LEMMA AnsweredPage ==
    ASSUME FixedOK, NEW q, NEW t, NEW rows \in Answers(protocol, cols, q, t)
    PROVE  LET hits == Selected(protocol, cols, q, t)
           IN  /\ DOMAIN rows \subseteq hits
               /\ Cardinality(DOMAIN rows) = PageSize(Cardinality(hits), q.limit, q.offset)
               /\ \/ rows = AsStored(q, t, DOMAIN rows)
                  \/ rows = Renamed(cols, q, t, DOMAIN rows)
  <1>1. PICK page \in Pages(protocol, cols, q, t) :
          rows = AsStored(q, t, page) \/ rows = Renamed(cols, q, t, page)
    BY DEF FixedOK, Protocols, Answers, PostgresSelect, MySqlSelect, HttpSelect, MongoSelect,
           RedisSelect, FileSelect
  <1>2. DOMAIN rows = page
    BY <1>1 DEF AsStored, Renamed
  <1> QED
    BY <1>1, <1>2 DEF Pages

\* With no column renamed, giving the columns their local names changes nothing.
LEMMA SameNames ==
    ASSUME FixedOK, Unrenamed, NEW names, names \subseteq RemoteNames(cols), NEW row,
           row = [n \in names |-> row[n]]
    PROVE  FromRemote(cols, row) = row
  <1>1. ASSUME NEW n \in names
        PROVE  LocalName(cols, n) = n
    <2>1. n \in DOMAIN cols /\ n \in RemoteNames(cols)
      BY <1>1 DEF RemoteNames, Range, Unrenamed
    <2>2. LocalName(cols, n) = CHOOSE c \in DOMAIN cols : cols[c] = n
      BY <2>1 DEF LocalName
    <2>3. \A c \in DOMAIN cols : cols[c] = n <=> c = n
      BY DEF Unrenamed
    <2> QED
      BY <2>1, <2>2, <2>3
  <1>2. DOMAIN row = names
    OBVIOUS
  <1>3. {LocalName(cols, n) : n \in DOMAIN row} = names
    BY <1>1, <1>2
  <1>4. DOMAIN FromRemote(cols, row) = names
    BY <1>3 DEF FromRemote
  <1>5. ASSUME NEW c \in names
        PROVE  FromRemote(cols, row)[c] = row[c]
    <2>1. PICK d : d = CHOOSE n \in DOMAIN row : LocalName(cols, n) = c
      OBVIOUS
    <2>2. \A n \in DOMAIN row : LocalName(cols, n) = c <=> n = c
      BY <1>1, <1>2
    <2>3. d = c
      BY <1>2, <2>1, <2>2
    <2> QED
      BY <1>3, <2>1, <2>3 DEF FromRemote
  <1>6. FromRemote(cols, row) = [c \in names |-> FromRemote(cols, row)[c]]
    BY <1>4 DEF FromRemote
  <1> QED
    BY <1>5, <1>6

\* The columns a query asks for, as the table has them.
Intact(raw, row) ==
    IF raw.select = {} THEN row ELSE Restrict(row, raw.select \cap DOMAIN row)

\* A page of exactly the rows a query means.
PageOf(raw, t, rows) ==
    /\ DOMAIN rows \subseteq Meant(raw, t)
    /\ Cardinality(DOMAIN rows) = MeantSize(raw, Cardinality(Meant(raw, t)))
    /\ Unrenamed => \A x \in DOMAIN rows : rows[x] = Intact(raw, t[x])

LEMMA PortableAnswer ==
    ASSUME DataInv, phase # "idle", Portable(protocol, req.query),
           NEW rows \in Answers(protocol, cols, Query, tbl)
    PROVE  PageOf(req.query, tbl, rows)
  <1>1. PICK raw : raw = req.query
    OBVIOUS
  <1>2. PICK q : q = Query
    OBVIOUS
  <1>3. /\ FixedOK /\ cols \in Mappings /\ protocol \in Protocols /\ tbl \in KeyedTables(cols)
        /\ QueryFits(raw, cols) /\ q.filters = FirstPerColumn(raw.filters) /\ q.groups = raw.groups
        /\ q.select = raw.select /\ q.offset = raw.offset
        /\ q.limit = IF raw.limit < 0 THEN 0 ELSE raw.limit
    BY <1>1, <1>2, QueryParts, RequestFacts DEF DataInv, FixedOK, TablesOK, RequestOK
  <1>4. Portable(protocol, raw) /\ rows \in Answers(protocol, cols, q, tbl)
    BY <1>1, <1>2
  <1>5. PICK hits : hits = Selected(protocol, cols, q, tbl)
    OBVIOUS
  <1>6. hits = Meant(raw, tbl)
    BY <1>3, <1>4, <1>5, SelectedMeant
  <1>7. /\ DOMAIN rows \subseteq hits
        /\ Cardinality(DOMAIN rows) = PageSize(Cardinality(hits), q.limit, q.offset)
        /\ rows = AsStored(q, tbl, DOMAIN rows) \/ rows = Renamed(cols, q, tbl, DOMAIN rows)
    BY <1>3, <1>4, <1>5, AnsweredPage
  <1>8. \A n : PageSize(n, q.limit, q.offset) = MeantSize(raw, n)
    <2>1. raw.limit \in Nat \cup {-1} /\ raw.limit # 0
      BY <1>3, <1>4 DEF QueryFits, Portable
    <2>2. q.limit > 0 <=> raw.limit >= 0
      BY <1>3, <2>1
    <2>3. raw.limit >= 0 => q.limit = raw.limit
      BY <1>3, <2>1
    <2> QED
      BY <1>3, <2>2, <2>3 DEF PageSize, MeantSize
  <1>9. ASSUME Unrenamed, NEW x \in DOMAIN rows
        PROVE  rows[x] = Intact(raw, tbl[x])
    <2>1. tbl[x] \in Rows(cols)
      BY <1>3, <1>5, <1>7, SelectedPresent, KeyedRows DEF Present
    <2>2. PICK row : row = Columns(q, tbl[x])
      OBVIOUS
    <2>3. row = Intact(raw, tbl[x])
      BY <1>3, <2>2 DEF Columns, Intact
    <2>4. \E names : names \subseteq RemoteNames(cols) /\ row = [n \in names |-> row[n]]
      <3>1. CASE q.select = {}
        BY <2>1, <2>2, <3>1 DEF Columns, Rows
      <3>2. CASE q.select # {}
        BY <2>1, <2>2, <3>2 DEF Columns, Rows, Restrict
      <3> QED
        BY <3>1, <3>2
    <2>5. FromRemote(cols, row) = row
      BY <1>3, <1>9, <2>4, SameNames
    <2> QED
      BY <1>7, <2>2, <2>3, <2>5 DEF AsStored, Renamed
  <1> QED
    BY <1>1, <1>6, <1>7, <1>8, <1>9 DEF PageOf


\* AnswersMatchQuery, and the page that waits for its total.
ReadWatched ==
    alone /\ phase # "idle" /\ req.op = "select" /\ Portable(protocol, req.query)

AnswerOf(rows, total) ==
    /\ PageOf(req.query, tbl, rows)
    /\ req.count => total = Cardinality(Meant(req.query, tbl))
    /\ req.mode = "single" => Cardinality(DOMAIN rows) = 1

ReadInv ==
    ReadWatched => /\ phase = "count" => PageOf(req.query, tbl, ans.rows)
                   /\ Answered200 => AnswerOf(ans.rows, ans.total)

LEMMA CoercedAnswer ==
    ASSUME NEW rows, NEW total, PageOf(req.query, tbl, rows),
           req.count => total = Cardinality(Meant(req.query, tbl)),
           Coerced(rows, total).status = "ok"
    PROVE  AnswerOf(Coerced(rows, total).rows, Coerced(rows, total).total)
  <1>1. ~(req.mode = "single" /\ Cardinality(DOMAIN rows) # 1)
    BY DEF Coerced, NoAnswer
  <1>2. Coerced(rows, total).rows = rows /\ Coerced(rows, total).total = total
    BY DEF Coerced, NoAnswer
  <1> QED
    BY <1>1, <1>2 DEF AnswerOf

\* The total is the number of the rows meant, whatever the page.
LEMMA PortableCount ==
    ASSUME DataInv, phase # "idle", Portable(protocol, req.query)
    PROVE  Count(protocol, cols, Query, tbl) = Cardinality(Meant(req.query, tbl))
  <1>1. PICK raw : raw = req.query
    OBVIOUS
  <1>2. PICK q : q = Query
    OBVIOUS
  <1>3. /\ cols \in Mappings /\ protocol \in Protocols /\ tbl \in KeyedTables(cols)
        /\ QueryFits(raw, cols) /\ q.filters = FirstPerColumn(raw.filters) /\ q.groups = raw.groups
    BY <1>1, <1>2, QueryParts, RequestFacts DEF DataInv, FixedOK, TablesOK, RequestOK
  <1>4. Selected(protocol, cols, q, tbl) = Meant(raw, tbl)
    BY <1>1, <1>3, SelectedMeant
  <1>5. Count(protocol, cols, q, tbl) = Cardinality(Selected(protocol, cols, q, tbl))
    BY DEF Count, PostgresCount, Selected, Selects
  <1> QED
    BY <1>1, <1>2, <1>4, <1>5

LEMMA ReadHandler ==
    ASSUME DataInv, ReadInv, Handler, phase' # "idle"
    PROVE  ReadInv'
  <1> USE DEF fixed, ghosts
  <1>1. UNCHANGED <<protocol, cols, req, start, alone>> /\ phase # "idle"
    BY NextCallKeyed
       DEF Handler, SelectRows, CountRows, InsertRow, UpsertRow, UpsertInsert, UpsertUpdate,
           UpdateRows, DeleteRows, SelectAgain, Invoke, Unsupported, Fail, Refused, LoseReply,
           DeleteSomeKeys, WriteSomeDocuments, Finish
  <1>2. CASE ~ReadWatched
    BY <1>1, <1>2 DEF ReadInv, ReadWatched
  <1>3. CASE ReadWatched /\ SelectRows
    <2>1. PICK rows \in Answers(protocol, cols, Query, tbl) :
            IF req.count
            THEN phase' = "count" /\ ans' = [NoAnswer EXCEPT !.rows = rows]
            ELSE phase' = "done" /\ ans' = Coerced(rows, -1)
      BY <1>3 DEF SelectRows
    <2>2. UNCHANGED tbl /\ PageOf(req.query, tbl, rows)
      BY <1>3, PortableAnswer DEF SelectRows, ReadWatched
    <2>3. CASE req.count
      <3>1. phase' = "count" /\ ans'.rows = rows
        BY <2>1, <2>3 DEF NoAnswer
      <3>2. PageOf(req.query, tbl, ans.rows)'
        BY <1>1, <2>2, <3>1 DEF PageOf, Meant, Unrenamed
      <3> QED
        BY <3>1, <3>2 DEF ReadInv, Answered200
    <2>4. CASE ~req.count
      <3>1. phase' = "done" /\ ans' = Coerced(rows, -1)
        BY <2>1, <2>4
      <3>2. Answered200' => AnswerOf(ans'.rows, ans'.total)
        BY <2>2, <2>4, <3>1, CoercedAnswer DEF Answered200
      <3>3. AnswerOf(ans'.rows, ans'.total) => AnswerOf(ans.rows, ans.total)'
        BY <1>1, <2>2 DEF AnswerOf, PageOf, Meant, Unrenamed
      <3> QED
        BY <3>1, <3>2, <3>3 DEF ReadInv
    <2> QED
      BY <2>3, <2>4
  <1>4. CASE ReadWatched /\ CountRows
    <2>1. /\ phase = "count" /\ phase' = "done" /\ UNCHANGED tbl
          /\ ans' = Coerced(ans.rows, Count(protocol, cols, Query, tbl))
      BY <1>4 DEF CountRows
    <2>2. PageOf(req.query, tbl, ans.rows)
      BY <1>4, <2>1 DEF ReadInv
    <2>3. Count(protocol, cols, Query, tbl) = Cardinality(Meant(req.query, tbl))
      BY <1>1, <1>4, PortableCount DEF ReadWatched
    <2>4. Answered200' => AnswerOf(ans'.rows, ans'.total)
      BY <2>1, <2>2, <2>3, CoercedAnswer DEF Answered200
    <2>5. AnswerOf(ans'.rows, ans'.total) => AnswerOf(ans.rows, ans.total)'
      BY <1>1, <2>1 DEF AnswerOf, PageOf, Meant, Unrenamed
    <2> QED
      BY <2>1, <2>4, <2>5 DEF ReadInv
  <1>5. CASE Fail
    <2>1. phase' = "done" /\ ans' = [NoAnswer EXCEPT !.status = "error"]
      BY <1>5 DEF Fail, Refused
    <2> QED
      BY <2>1 DEF ReadInv, Answered200, NoAnswer
  <1>6. CASE ReadWatched /\ LoseReply
    <2>1. NextCall = Refusal(tbl)
      BY <1>6 DEF ReadWatched, NextCall, DataInv, PhaseOK
    <2> QED
      BY <1>6, <2>1 DEF LoseReply, Refusal, Outcome
  <1> QED
    BY <1>2, <1>3, <1>4, <1>5, <1>6
       DEF Handler, InsertRow, UpsertRow, UpsertInsert, UpsertUpdate, UpdateRows, DeleteRows,
           SelectAgain, Unsupported, DeleteSomeKeys, WriteSomeDocuments, Invoke, Finish,
           ReadWatched, DataInv, PhaseOK

(***************************************************************************)
(* A GET in the portable part of the query language that nobody writes     *)
(* during is answered with a page of exactly the rows its filters mean, of *)
(* the size limit and offset ask for, columns intact, and count=exact with *)
(* the number of them all: the parser, every driver's WHERE or match       *)
(* function, the two queries of a counted GET, for every table, mapping    *)
(* and request.                                                            *)
(***************************************************************************)
THEOREM AnswersAreExact == Spec => []AnswersMatchQuery
  <1>1. Init => ReadInv
    BY DEF Init, ReadInv, ReadWatched
  <1>2. ASSUME DataInv, ReadInv, [Next]_vars
        PROVE  ReadInv'
    <2>1. CASE Handler /\ phase' # "idle"
      BY <1>2, <2>1, ReadHandler
    <2>2. CASE \E r \in Requests : Arrive(r)
      <3>1. phase' = "call"
        BY <2>2 DEF Arrive
      <3> QED
        BY <3>1 DEF ReadInv, Answered200
    <2>3. CASE Others \/ phase' = "idle"
      BY <2>3 DEF Others, ReadInv, ReadWatched
    <2>4. CASE UNCHANGED vars
      BY <1>2, <2>4
         DEF vars, ReadInv, ReadWatched, AnswerOf, PageOf, Meant, Unrenamed, Answered200
    <2> QED
      BY <1>2, <2>1, <2>2, <2>3, <2>4 DEF Next
  <1>3. ASSUME DataInv, ReadInv
        PROVE  AnswersMatchQuery
    <2>1. Answered200 => phase # "idle"
      BY DEF Answered200
    <2> QED
      BY <1>3, <2>1 DEF ReadInv, ReadWatched, AnswerOf, PageOf, Intact, AnswersMatchQuery
  <1> QED
    BY <1>1, <1>2, <1>3, AlwaysDataInv, PTL DEF Spec


=============================================================================
