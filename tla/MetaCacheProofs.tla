--------------------------- MODULE MetaCacheProofs ---------------------------
(***************************************************************************)
(* Proofs about MetaCache for any number of requests, tables, functions    *)
(* and writes, and any time to live.                                       *)
(***************************************************************************)
EXTENDS MetaCache, TLAPS

(***************************************************************************)
(* Types                                                                   *)
(***************************************************************************)

LEMMA InitType == Init => TypeOK
  <1> SUFFICES ASSUME Init PROVE TypeOK
    OBVIOUS
  <1> USE CacheAssumption DEF Init
  <1>1. 0 \in Stamps /\ 1 \in Stamps /\ 0 \in 0..MaxWrites
    BY DEF Stamps
  <1>2. srv \in Stamps /\ writes \in 0..MaxWrites
    BY <1>1
  <1>3. id \in [Keys -> Stamps] /\ body \in [Keys -> Stamps]
    BY <1>1
  <1>4. ZeroRev \in Revisions /\ ZeroValue \in Values
    BY <1>1 DEF ZeroRev, Revisions, ZeroValue, Values
  <1>5. key \in [Procs -> Keys]
    BY DEF Keys
  <1>6. pc \in [Procs -> Steps]
    BY DEF Steps
  <1> QED
    BY <1>2, <1>3, <1>4, <1>5, <1>6 DEF TypeOK

\* An admin write stamps rows with a stamp, and touches nothing else.
LEMMA AdminType == TypeOK /\ Admin => TypeOK'
  <1> SUFFICES ASSUME TypeOK, Admin PROVE TypeOK'
    OBVIOUS
  <1> USE CacheAssumption
  <1>1. writes < MaxWrites /\ writes' = writes + 1
    BY DEF Admin, UpdateServer, DeleteServer, CreateServer, Import, UpdateBody, Drop, Create, Write
  <1>2. Fresh \in Stamps /\ 0 \in Stamps /\ writes' \in 0..MaxWrites
    BY <1>1 DEF TypeOK, Fresh, Stamps
  <1>3. srv' \in Stamps /\ id' \in [Keys -> Stamps] /\ body' \in [Keys -> Stamps]
    <2>1. CASE UpdateServer \/ DeleteServer \/ CreateServer \/ Import
      BY <1>2, <2>1 DEF TypeOK, UpdateServer, DeleteServer, CreateServer, Import
    <2>2. CASE \E k \in Keys : UpdateBody(k) \/ Drop(k) \/ Create(k)
      BY <1>2, <2>2 DEF TypeOK, UpdateBody, Drop, Create
    <2> QED
      BY <2>1, <2>2 DEF Admin
  <1>4. UNCHANGED cacheVars /\ UNCHANGED procVars
    BY DEF Admin, UpdateServer, DeleteServer, CreateServer, Import, UpdateBody, Drop, Create
  <1> QED
    BY <1>2, <1>3, <1>4 DEF TypeOK, cacheVars, procVars

\* The steps of a request.
LEMMA ResolveType ==
    ASSUME TypeOK, NEW p \in Procs, Resolve(p)
    PROVE  TypeOK'
  <1> USE CacheAssumption DEF TypeOK, storeVars, cacheVars, Goto
  <1>0. 0 \in Stamps /\ ZeroRev \in Revisions /\ ZeroValue \in Values
    BY DEF Stamps, ZeroRev, Revisions, ZeroValue, Values
  <1>1. CASE ListServers(p)
    BY <1>1 DEF ListServers, Revisions, Steps
  <1>2. CASE ListTables(p)
    <2>1. [k \in Tables |-> id[k]] \in [Tables -> Stamps]
      BY DEF Keys
    <2> QED
      BY <1>2, <2>1 DEF ListTables, Revisions, Steps
  <1>3. CASE ListFunctions(p)
    <2>1. [k \in Funcs |-> id[k]] \in [Funcs -> Stamps]
      BY DEF Keys
    <2> QED
      BY <1>3, <2>1 DEF ListFunctions, Revisions, Steps
  <1>4. CASE SyncRevision(p)
    BY <1>4 DEF SyncRevision, Steps
  <1>5. CASE GetHit(p)
    BY <1>5 DEF GetHit, Live, Entries, Steps
  <1>6. CASE GetMiss(p)
    BY <1>6 DEF GetMiss, Steps
  <1>7. CASE ResolveRow(p)
    <2>1. Current(key[p]) \in Values
      BY DEF Current, Values
    <2> QED
      BY <1>7, <2>1 DEF ResolveRow, Steps
  <1>8. CASE ResolveColumns(p)
    BY <1>8 DEF ResolveColumns, Values, Steps
  <1>9. CASE ResolveErr(p)
    BY <1>0, <1>9 DEF ResolveErr, End, Steps
  <1>10. CASE Put(p)
    <2>1. Fits(val[p], rev, key[p]) \in BOOLEAN
      BY DEF Fits
    <2>2. [val |-> val[p], left |-> TTL, own |-> Fits(val[p], rev, key[p])] \in Entries
      BY <2>1 DEF Entries
    <2> QED
      BY <1>10, <2>2 DEF Put, Steps
  <1>11. CASE Return(p)
    BY <1>0, <1>11 DEF Return, End, Steps
  <1> QED
    BY <1>1, <1>2, <1>3, <1>4, <1>5, <1>6, <1>7, <1>8, <1>9, <1>10, <1>11 DEF Resolve

LEMMA TickType == TypeOK /\ Tick => TypeOK'
  <1> SUFFICES ASSUME TypeOK, Tick PROVE TypeOK'
    OBVIOUS
  <1>1. \A k \in Keys : entries'[k] \in Entries \cup {NoEntry}
    BY CacheAssumption DEF TypeOK, Tick, Live, Entries
  <1> QED
    BY <1>1 DEF TypeOK, Tick, storeVars, procVars

LEMMA StepType == TypeOK /\ [Next]_vars => TypeOK'
  <1> SUFFICES ASSUME TypeOK, [Next]_vars PROVE TypeOK'
    OBVIOUS
  <1>1. ASSUME NEW p \in Procs, NEW k \in Keys, Arrive(p, k) PROVE TypeOK'
    <2>1. Current(k) \in Values
      BY DEF TypeOK, Current, Values
    <2> QED
      BY <1>1, <2>1 DEF TypeOK, Arrive, Goto, Steps, storeVars, cacheVars
  <1>2. CASE UNCHANGED vars
    BY <1>2 DEF TypeOK, vars
  <1> QED
    BY <1>1, <1>2, AdminType, ResolveType, TickType DEF Next

\* Stamps, revisions, entries and what requests hold keep their types: no entry
\* is live longer than a TTL (meta_cache.go, putTable).
THEOREM CacheTypeCorrect == Spec => []TypeOK
  <1> QED
    BY InitType, StepType, PTL DEF Spec

(***************************************************************************)
(* OnlyRacesHide                                                           *)
(*                                                                         *)
(* It rests on what each part of a request knows: stamps only grow         *)
(* (StampsPast), so a row is gone or at least as new as when the request   *)
(* came (StoreCovers), hence so are the lists it read (ListsCover) and the *)
(* rows it resolved (ResolvedCovers); and an entry that was put under its  *)
(* own revision still is, since a new revision empties the maps            *)
(* (EntriesFit).                                                           *)
(***************************************************************************)
Covers(stamp, least) == stamp = 0 \/ stamp >= least

StampsPast ==
    /\ srv <= writes + 1 /\ \A k \in Keys : id[k] <= writes + 1
    /\ srv = 0 => \A k \in Keys : id[k] = 0

StoreCovers ==
    \A p \in Procs : Covers(srv, floor[p].srv) /\ Covers(id[key[p]], floor[p].id)

FloorsPast ==
    \A p \in Procs : floor[p].srv <= writes + 1 /\ floor[p].id <= writes + 1

ServersListed(p) == pc[p] \in {"tables", "functions", "sync", "get"}

RowsListed(p) ==
    \/ pc[p] \in {"sync", "get"}
    \/ pc[p] = "functions" /\ key[p] \in Tables

ListsCover ==
    \A p \in Procs :
        /\ ServersListed(p) => Covers(seen[p].srv, floor[p].srv)
        /\ RowsListed(p) => Covers(RowOf(seen[p], key[p]), floor[p].id)

NotOlder(v, least) == v.srv # 0 /\ v.id # 0 /\ v.srv >= least.srv /\ v.id >= least.id

ResolvedCovers ==
    \A p \in Procs : pc[p] \in {"columns", "put"} => NotOlder(val[p], floor[p])

EntriesFit ==
    \A k \in Keys : entries[k] # NoEntry =>
        /\ entries[k].val.srv # 0 /\ entries[k].val.id # 0
        /\ entries[k].own => Fits(entries[k].val, rev, k)

CoverInv ==
    TypeOK /\ StampsPast /\ StoreCovers /\ FloorsPast
    /\ ListsCover /\ ResolvedCovers /\ EntriesFit

LEMMA InitCover == Init => CoverInv
  <1> SUFFICES ASSUME Init PROVE CoverInv
    OBVIOUS
  <1>1. TypeOK
    BY InitType
  <1>2. StampsPast /\ StoreCovers /\ FloorsPast
    BY <1>1 DEF TypeOK, Init, StampsPast, StoreCovers, FloorsPast, Covers, ZeroValue
  <1>3. ListsCover /\ ResolvedCovers /\ EntriesFit
    BY DEF Init, ListsCover, ServersListed, RowsListed, ResolvedCovers, EntriesFit
  <1> QED
    BY <1>1, <1>2, <1>3 DEF CoverInv

\* A write deletes rows or stamps them anew.
LEMMA AdminCover == CoverInv /\ Admin => CoverInv'
  <1> SUFFICES ASSUME CoverInv, Admin PROVE CoverInv'
    OBVIOUS
  <1>1. TypeOK /\ TypeOK'
    BY AdminType DEF CoverInv
  <1>2. writes \in Nat /\ writes' = writes + 1 /\ Fresh = writes + 2
    BY <1>1, CacheAssumption
    DEF TypeOK, Admin, UpdateServer, DeleteServer, CreateServer, Import, UpdateBody, Drop, Create,
        Write, Fresh
  <1>3. UNCHANGED cacheVars /\ UNCHANGED procVars
    BY DEF Admin, UpdateServer, DeleteServer, CreateServer, Import, UpdateBody, Drop, Create
  <1>4. srv' \in {0, srv, Fresh} /\ \A k \in Keys : id'[k] \in {0, id[k], Fresh}
    <2>1. CASE UpdateServer \/ DeleteServer \/ CreateServer \/ Import
      BY <2>1 DEF UpdateServer, DeleteServer, CreateServer, Import
    <2>2. ASSUME NEW k \in Keys, UpdateBody(k) \/ Drop(k) \/ Create(k)
          PROVE  srv' = srv /\ \A j \in Keys : id'[j] \in {0, id[j], Fresh}
      BY <1>1, <2>2 DEF TypeOK, UpdateBody, Drop, Create
    <2> QED
      BY <2>1, <2>2 DEF Admin
  <1>5. srv' = 0 => \A k \in Keys : id'[k] = 0
    <2>1. CASE UpdateServer \/ DeleteServer \/ CreateServer \/ Import
      BY <1>2, <2>1 DEF UpdateServer, DeleteServer, CreateServer, Import
    <2>2. ASSUME NEW k \in Keys, UpdateBody(k) \/ Drop(k) \/ Create(k), srv' = 0
          PROVE  \A j \in Keys : id'[j] = 0
      BY <1>1, <2>2 DEF TypeOK, UpdateBody, Drop, Create, CoverInv, StampsPast
    <2> QED
      BY <2>1, <2>2 DEF Admin
  <1>6. srv \in Nat /\ \A k \in Keys : id[k] \in Nat
    BY <1>1, CacheAssumption DEF TypeOK, Stamps
  <1>7. StampsPast'
    BY <1>2, <1>4, <1>5, <1>6 DEF CoverInv, StampsPast
  <1>8. \A p \in Procs : key[p] \in Keys /\ floor[p].srv \in Nat /\ floor[p].id \in Nat
    BY <1>1, CacheAssumption DEF TypeOK, Values, Stamps
  <1>9. StoreCovers' /\ FloorsPast'
    BY <1>2, <1>3, <1>4, <1>6, <1>8 DEF CoverInv, StoreCovers, FloorsPast, Covers, procVars
  <1>10. ListsCover' /\ ResolvedCovers' /\ EntriesFit'
    BY <1>3 DEF CoverInv, ListsCover, ServersListed, RowsListed, ResolvedCovers, EntriesFit,
                procVars, cacheVars
  <1> QED
    BY <1>1, <1>7, <1>9, <1>10 DEF CoverInv

\* What a step of one request leaves alone: the store, and what others hold.
LEMMA ResolveStore ==
    ASSUME CoverInv, NEW p \in Procs, Resolve(p)
    PROVE  /\ TypeOK /\ TypeOK' /\ UNCHANGED storeVars /\ UNCHANGED key
           /\ StampsPast' /\ StoreCovers' /\ FloorsPast'
           /\ \A q \in Procs \ {p} :
                pc'[q] = pc[q] /\ seen'[q] = seen[q] /\ val'[q] = val[q] /\ floor'[q] = floor[q]
  <1>1. TypeOK /\ TypeOK'
    BY ResolveType DEF CoverInv
  <1>2. UNCHANGED storeVars /\ UNCHANGED key
    BY DEF Resolve, ListServers, ListTables, ListFunctions, SyncRevision, GetHit, GetMiss,
           ResolveRow, ResolveColumns, ResolveErr, Put, Return, End
  <1>3. floor' = floor \/ floor' = [floor EXCEPT ![p] = ZeroValue]
    BY DEF Resolve, ListServers, ListTables, ListFunctions, SyncRevision, GetHit, GetMiss,
           ResolveRow, ResolveColumns, ResolveErr, Put, Return, End
  <1>4. \A q \in Procs : floor'[q] \in {floor[q], ZeroValue}
    BY <1>1, <1>3 DEF TypeOK
  <1>5. StampsPast'
    BY <1>2 DEF CoverInv, StampsPast, storeVars
  <1>6. \A q \in Procs : Covers(srv, floor'[q].srv) /\ Covers(id[key[q]], floor'[q].id)
    BY <1>1, <1>4, CacheAssumption
    DEF CoverInv, StoreCovers, Covers, ZeroValue, TypeOK, Values, Stamps
  <1>7. \A q \in Procs : floor'[q].srv <= writes + 1 /\ floor'[q].id <= writes + 1
    BY <1>1, <1>4, CacheAssumption DEF CoverInv, FloorsPast, ZeroValue, TypeOK
  <1>8. ASSUME NEW q \in Procs \ {p}
        PROVE  pc'[q] = pc[q] /\ seen'[q] = seen[q] /\ val'[q] = val[q] /\ floor'[q] = floor[q]
    BY <1>1
    DEF TypeOK, Resolve, ListServers, ListTables, ListFunctions, SyncRevision, GetHit, GetMiss,
        ResolveRow, ResolveColumns, ResolveErr, Put, Return, End, Goto
  <1> QED
    BY <1>1, <1>2, <1>5, <1>6, <1>7, <1>8 DEF StoreCovers, FloorsPast, storeVars

LEMMA ResolveLists ==
    ASSUME CoverInv, NEW p \in Procs, Resolve(p)
    PROVE  ListsCover'
  <1> DEFINE Good(q) ==
        /\ ServersListed(q) => Covers(seen[q].srv, floor[q].srv)
        /\ RowsListed(q) => Covers(RowOf(seen[q], key[q]), floor[q].id)
  <1>0. TypeOK /\ TypeOK' /\ UNCHANGED key
    BY ResolveStore
  <1>1. ASSUME NEW q \in Procs \ {p} PROVE Good(q)'
    BY ResolveStore, <1>1 DEF CoverInv, ListsCover, ServersListed, RowsListed, RowOf
  <1>2. Good(p)'
    <2> USE DEF ServersListed, RowsListed, Goto
    <2>0. key[p] \in Keys /\ p \in DOMAIN pc /\ p \in DOMAIN seen
      BY <1>0 DEF TypeOK
    <2>1. CASE ListServers(p)
      <3>1. pc'[p] = "tables" /\ seen'[p].srv = srv /\ floor' = floor
        BY <1>0, <2>1 DEF TypeOK, ListServers, Revisions
      <3> QED
        BY <3>1 DEF CoverInv, StoreCovers
    <2>2. CASE ListTables(p)
      <3>1. /\ pc[p] = "tables" /\ pc'[p] = "functions" /\ floor' = floor
            /\ seen'[p].srv = seen[p].srv
            /\ seen'[p].tables = [k \in Tables |-> id[k]]
        BY <1>0, <2>2 DEF TypeOK, ListTables, Revisions
      <3>2. Covers(seen'[p].srv, floor'[p].srv)
        BY <3>1 DEF CoverInv, ListsCover
      <3>3. key[p] \in Tables => RowOf(seen'[p], key[p]) = id[key[p]]
        BY <3>1 DEF RowOf
      <3> QED
        BY <1>0, <3>1, <3>2, <3>3 DEF CoverInv, StoreCovers
    <2>3. CASE ListFunctions(p)
      <3>1. /\ pc[p] = "functions" /\ pc'[p] = "sync" /\ floor' = floor
            /\ seen'[p].srv = seen[p].srv /\ seen'[p].tables = seen[p].tables
            /\ seen'[p].funcs = [k \in Funcs |-> id[k]]
        BY <1>0, <2>3 DEF TypeOK, ListFunctions, Revisions
      <3>2. Covers(seen'[p].srv, floor'[p].srv)
        BY <3>1 DEF CoverInv, ListsCover
      <3>3. CASE key[p] \in Tables
        <4>1. RowOf(seen'[p], key[p]) = RowOf(seen[p], key[p])
          BY <3>1, <3>3 DEF RowOf
        <4>2. Covers(RowOf(seen[p], key[p]), floor[p].id)
          BY <3>1, <3>3 DEF CoverInv, ListsCover
        <4> QED
          BY <1>0, <3>1, <3>2, <4>1, <4>2
      <3>4. CASE key[p] \in Funcs
        <4>1. RowOf(seen'[p], key[p]) = id[key[p]]
          BY <3>1, <3>4, CacheAssumption DEF RowOf
        <4> QED
          BY <1>0, <3>1, <3>2, <4>1 DEF CoverInv, StoreCovers
      <3> QED
        BY <2>0, <3>3, <3>4 DEF Keys
    <2>4. CASE SyncRevision(p)
      <3>1. pc[p] = "sync" /\ UNCHANGED <<seen, floor, key>>
        BY <2>4 DEF SyncRevision
      <3> QED
        BY <3>1 DEF CoverInv, ListsCover
    <2>5. CASE \/ GetHit(p) \/ GetMiss(p) \/ ResolveRow(p) \/ ResolveColumns(p)
               \/ ResolveErr(p) \/ Put(p) \/ Return(p)
      <3>1. pc'[p] \in {"done", "resolve", "columns", "put", "idle"}
        BY <2>0, <2>5 DEF GetHit, GetMiss, ResolveRow, ResolveColumns, ResolveErr, Put, Return, End
      <3> QED
        BY <3>1
    <2> QED
      BY <2>1, <2>2, <2>3, <2>4, <2>5 DEF Resolve
  <1> QED
    BY <1>1, <1>2 DEF ListsCover

LEMMA ResolveRows ==
    ASSUME CoverInv, NEW p \in Procs, Resolve(p)
    PROVE  ResolvedCovers'
  <1>0. TypeOK /\ UNCHANGED key
    BY ResolveStore
  <1>1. ASSUME NEW q \in Procs \ {p}
        PROVE  (pc[q] \in {"columns", "put"} => NotOlder(val[q], floor[q]))'
    BY ResolveStore, <1>1 DEF CoverInv, ResolvedCovers, NotOlder
  <1>2. (pc[p] \in {"columns", "put"} => NotOlder(val[p], floor[p]))'
    <2> USE DEF Goto
    <2>0. p \in DOMAIN pc /\ p \in DOMAIN val /\ val[p] \in Values /\ key[p] \in Keys
      BY <1>0 DEF TypeOK
    <2>1. CASE ResolveRow(p)
      <3>1. val'[p] = Current(key[p]) /\ floor' = floor /\ id[key[p]] # 0
        BY <2>0, <2>1 DEF ResolveRow
      <3>2. srv # 0
        BY <2>0, <3>1 DEF CoverInv, StampsPast
      <3> QED
        BY <3>1, <3>2 DEF CoverInv, StoreCovers, Covers, NotOlder, Current
    <2>2. CASE ResolveColumns(p)
      <3>1. pc[p] = "columns" /\ floor' = floor
            /\ val'[p].srv = val[p].srv /\ val'[p].id = val[p].id
        BY <2>0, <2>2 DEF ResolveColumns, Values
      <3> QED
        BY <3>1 DEF CoverInv, ResolvedCovers, NotOlder
    <2>3. CASE \/ ListServers(p) \/ ListTables(p) \/ ListFunctions(p) \/ SyncRevision(p)
               \/ GetHit(p) \/ GetMiss(p) \/ ResolveErr(p) \/ Put(p) \/ Return(p)
      <3>1. pc'[p] \notin {"columns", "put"}
        BY <2>0, <2>3
        DEF ListServers, ListTables, ListFunctions, SyncRevision, GetHit, GetMiss, ResolveErr,
            Put, Return, End
      <3> QED
        BY <3>1
    <2> QED
      BY <2>1, <2>2, <2>3 DEF Resolve
  <1> QED
    BY <1>1, <1>2 DEF ResolvedCovers

LEMMA ResolveEntries ==
    ASSUME CoverInv, NEW p \in Procs, Resolve(p)
    PROVE  EntriesFit'
  <1>0. TypeOK
    BY DEF CoverInv
  <1>1. CASE SyncRevision(p)
    BY <1>1 DEF SyncRevision, CoverInv, EntriesFit
  <1>2. CASE Put(p)
    <2>1. rev' = rev /\ NotOlder(val[p], floor[p])
      BY <1>2 DEF Put, CoverInv, ResolvedCovers
    <2>2. ASSUME NEW k \in Keys, k # key[p] PROVE entries'[k] = entries[k]
      BY <1>0, <1>2, <2>2 DEF Put, TypeOK
    <2>3. entries'[key[p]] = [val |-> val[p], left |-> TTL, own |-> Fits(val[p], rev, key[p])]
      BY <1>0, <1>2 DEF Put, TypeOK
    <2>4. ASSUME NEW k \in Keys, entries'[k] # NoEntry
          PROVE  /\ entries'[k].val.srv # 0 /\ entries'[k].val.id # 0
                 /\ entries'[k].own => Fits(entries'[k].val, rev, k)
      <3>1. CASE k = key[p]
        BY <2>1, <2>3, <3>1 DEF NotOlder
      <3>2. CASE k # key[p]
        BY <2>2, <2>4, <3>2 DEF CoverInv, EntriesFit
      <3> QED
        BY <3>1, <3>2
    <2> QED
      BY <2>1, <2>4 DEF EntriesFit, Fits
  <1>3. CASE UNCHANGED cacheVars
    BY <1>3 DEF cacheVars, CoverInv, EntriesFit, Fits
  <1> QED
    BY <1>1, <1>2, <1>3
    DEF Resolve, ListServers, ListTables, ListFunctions, GetHit, GetMiss, ResolveRow,
        ResolveColumns, ResolveErr, Return

LEMMA ArriveCover ==
    ASSUME CoverInv, NEW p \in Procs, NEW k \in Keys, Arrive(p, k)
    PROVE  CoverInv'
  <1>0. TypeOK /\ TypeOK'
    BY StepType DEF CoverInv, Next
  <1>1. /\ pc' = [pc EXCEPT ![p] = "servers"] /\ key' = [key EXCEPT ![p] = k]
        /\ floor' = [floor EXCEPT ![p] = Current(k)]
        /\ UNCHANGED <<seen, val, srv, id, body, writes, rev, entries>>
    BY DEF Arrive, Goto, storeVars, cacheVars
  <1>2. StampsPast' /\ EntriesFit'
    BY <1>1 DEF CoverInv, StampsPast, EntriesFit, Fits
  <1>3. pc'[p] = "servers" /\ key'[p] = k /\ floor'[p] = Current(k)
    BY <1>0, <1>1 DEF TypeOK
  <1>4. \A q \in Procs \ {p} : pc'[q] = pc[q] /\ key'[q] = key[q] /\ floor'[q] = floor[q]
    BY <1>0, <1>1 DEF TypeOK
  <1>5. srv \in Nat /\ id[k] \in Nat
    BY <1>0, CacheAssumption DEF TypeOK, Stamps
  <1>6. StoreCovers'
    BY <1>1, <1>3, <1>4, <1>5 DEF CoverInv, StoreCovers, Covers, Current
  <1>7. FloorsPast'
    BY <1>1, <1>3, <1>4 DEF CoverInv, FloorsPast, StampsPast, Current
  <1>8. ListsCover'
    BY <1>1, <1>3, <1>4 DEF CoverInv, ListsCover, ServersListed, RowsListed, RowOf
  <1>9. ResolvedCovers'
    BY <1>1, <1>3, <1>4 DEF CoverInv, ResolvedCovers
  <1> QED
    BY <1>0, <1>2, <1>6, <1>7, <1>8, <1>9 DEF CoverInv

LEMMA TickCover == CoverInv /\ Tick => CoverInv'
  <1> SUFFICES ASSUME CoverInv, Tick PROVE CoverInv'
    OBVIOUS
  <1>0. TypeOK /\ TypeOK'
    BY TickType DEF CoverInv
  <1>1. UNCHANGED <<srv, id, body, writes, rev, pc, key, seen, val, floor>>
    BY DEF Tick, storeVars, procVars
  <1>2. StampsPast' /\ StoreCovers' /\ FloorsPast' /\ ListsCover' /\ ResolvedCovers'
    BY <1>1 DEF CoverInv, StampsPast, StoreCovers, FloorsPast, ListsCover, ServersListed,
                RowsListed, ResolvedCovers
  <1>3. ASSUME NEW k \in Keys, entries'[k] # NoEntry
        PROVE  entries[k] # NoEntry /\ entries'[k].val = entries[k].val
               /\ entries'[k].own = entries[k].own
    BY <1>0, <1>3 DEF Tick, Live, TypeOK, Entries
  <1>4. EntriesFit'
    BY <1>1, <1>3 DEF CoverInv, EntriesFit, Fits
  <1> QED
    BY <1>0, <1>2, <1>4 DEF CoverInv

LEMMA StepCover == CoverInv /\ [Next]_vars => CoverInv'
  <1> SUFFICES ASSUME CoverInv, [Next]_vars PROVE CoverInv'
    OBVIOUS
  <1>1. ASSUME NEW p \in Procs, Resolve(p) PROVE CoverInv'
    BY <1>1, ResolveStore, ResolveLists, ResolveRows, ResolveEntries DEF CoverInv
  <1>2. CASE UNCHANGED vars
    BY <1>2 DEF vars, CoverInv, TypeOK, StampsPast, StoreCovers, FloorsPast, ListsCover,
                ServersListed, RowsListed, ResolvedCovers, EntriesFit, Fits
  <1> QED
    BY <1>1, <1>2, AdminCover, ArriveCover, TickCover DEF Next

\* One request answers: from an entry, or with what it resolved.
LEMMA AnswerCovers ==
    ASSUME CoverInv, [Next]_vars, NEW p \in Procs, pc[p] # "done", pc'[p] = "done",
           pc[p] = "get" => rev = seen[p] /\ entries[key[p]].own
    PROVE  val'[p].srv >= floor[p].srv /\ val'[p].id >= floor[p].id
  <1>0. TypeOK
    BY DEF CoverInv
  <1>1. GetHit(p) \/ Put(p)
    <2>1. ASSUME NEW q \in Procs, Resolve(q) PROVE q = p
      BY <2>1, ResolveStore
    <2>2. ASSUME NEW q \in Procs, NEW k \in Keys, Arrive(q, k) PROVE FALSE
      BY <1>0, <2>2 DEF Arrive, Goto, TypeOK
    <2>3. pc' # pc
      OBVIOUS
    <2>4. ~Admin /\ ~Tick
      BY <2>3
      DEF Admin, UpdateServer, DeleteServer, CreateServer, Import, UpdateBody, Drop, Create, Tick,
          procVars
    <2>5. Resolve(p)
      BY <2>1, <2>2, <2>3, <2>4 DEF Next, vars
    <2> QED
      BY <1>0, <2>5
      DEF Resolve, ListServers, ListTables, ListFunctions, SyncRevision, GetMiss, ResolveRow,
          ResolveColumns, ResolveErr, Return, End, Goto, TypeOK
  <1>2. CASE Put(p)
    <2>1. pc[p] = "put" /\ val' = val
      BY <1>2 DEF Put
    <2> QED
      BY <2>1 DEF CoverInv, ResolvedCovers, NotOlder
  <1>3. CASE GetHit(p)
    <2>1. pc[p] = "get" /\ val'[p] = entries[key[p]].val /\ entries[key[p]] # NoEntry
      BY <1>0, <1>3 DEF GetHit, Live, TypeOK
    <2>2. key[p] \in Keys
      BY <1>0 DEF TypeOK
    <2>3. Fits(val'[p], seen[p], key[p]) /\ val'[p].srv # 0 /\ val'[p].id # 0
      BY <2>1, <2>2 DEF CoverInv, EntriesFit
    <2>4. Covers(seen[p].srv, floor[p].srv) /\ Covers(RowOf(seen[p], key[p]), floor[p].id)
      BY <2>1 DEF CoverInv, ListsCover, ServersListed, RowsListed
    <2> QED
      BY <2>3, <2>4 DEF Fits, Covers
  <1> QED
    BY <1>1, <1>2, <1>3

\* An answer is at least as new as every covered write before the request came,
\* unless one of two races hid the write (meta_cache.go, syncRevision to put).
THEOREM OnlyTheseRacesHide == Spec => OnlyRacesHide
  <1> DEFINE Ans == \A p \in Procs :
        /\ pc[p] # "done" /\ pc'[p] = "done"
        /\ pc[p] = "get" => rev = seen[p] /\ entries[key[p]].own
        => val'[p].srv >= floor[p].srv /\ val'[p].id >= floor[p].id
  <1>1. CoverInv /\ [Next]_vars => [Ans]_vars
    BY AnswerCovers
  <1> HIDE DEF Ans
  <1>2. Spec => [][Ans]_vars
    BY <1>1, InitCover, StepCover, PTL DEF Spec
  <1> QED
    BY <1>2 DEF OnlyRacesHide, Ans

=============================================================================
