------------------------------ MODULE MetaCache ------------------------------
(***************************************************************************)
(* internal/engine/meta_cache.go: the optional cache of resolved tables    *)
(* and functions (DATASPAN_META_CACHE_TTL).  Each request recomputes a     *)
(* store revision from three list queries, clears the cache when it        *)
(* differs, and only then looks its key up; a miss reads the store and     *)
(* puts the result.  Only syncRevision, get and put hold the lock, so      *)
(* admin writes and other requests run between any two of these steps.     *)
(***************************************************************************)
EXTENDS Integers

CONSTANTS
    Procs,      \* requests in flight
    Tables,     \* schema-qualified table names
    Funcs,      \* schema-qualified function names
    TTL,        \* metaCache.ttl in ticks
    MaxWrites,  \* bound on admin writes
    NoEntry     \* absent cache entry

ASSUME CacheAssumption ==
    /\ Tables \cap Funcs = {} /\ Tables \cup Funcs # {}
    /\ TTL \in Nat \ {0}
    /\ MaxWrites \in Nat

Keys == Tables \cup Funcs

VARIABLES
    srv,      \* stamp of the server rows: their IDs and UpdatedAt
    id,       \* id[k]: ID of the row of k, 0 when there is none
    body,     \* body[k]: everything else about k: columns, options, remote name
    writes,   \* admin writes so far; the next stamp
    rev,      \* metaCache.rev
    entries,  \* metaCache.tables and metaCache.funcs
    pc, key,  \* where request p is, and what it resolves
    seen,     \* seen[p]: the revision p is computing
    val,      \* val[p]: what p read or was given
    floor     \* floor[p]: what p would read had it no cache when it arrived (history)

storeVars == <<srv, id, body, writes>>
cacheVars == <<rev, entries>>
procVars  == <<pc, key, seen, val, floor>>
vars == <<srv, id, body, writes, rev, entries, pc, key, seen, val, floor>>

Stamps    == 0..MaxWrites + 2
Revisions == [srv : Stamps, tables : [Tables -> Stamps], funcs : [Funcs -> Stamps]]
Values    == [srv : Stamps, id : Stamps, body : Stamps]
\* own: history, the entry was put under the revision its value belongs to.
Entries   == [val : Values, left : -1..TTL, own : BOOLEAN]
Steps     == {"idle", "servers", "tables", "functions", "sync", "get", "resolve",
              "columns", "put", "done"}

\* What resolving k returns when it is read in one piece.
Current(k) == [srv |-> srv, id |-> id[k], body |-> body[k]]

RowOf(r, k)   == IF k \in Tables THEN r.tables[k] ELSE r.funcs[k]
Fits(v, r, k) == v.srv = r.srv /\ v.id = RowOf(r, k)

ZeroValue == [srv |-> 0, id |-> 0, body |-> 0]
ZeroRev   == [srv |-> 0, tables |-> [k \in Tables |-> 0], funcs |-> [k \in Funcs |-> 0]]

TypeOK ==
    /\ srv \in Stamps /\ writes \in 0..MaxWrites
    /\ id \in [Keys -> Stamps] /\ body \in [Keys -> Stamps]
    /\ rev \in Revisions
    /\ entries \in [Keys -> Entries \cup {NoEntry}]
    /\ pc \in [Procs -> Steps] /\ key \in [Procs -> Keys]
    /\ seen \in [Procs -> Revisions]
    /\ val \in [Procs -> Values] /\ floor \in [Procs -> Values]

\* One server with every table and function, and a cold cache.  The empty
\* string metaCache.rev starts with is no revision of a store: ZeroRev.
Init ==
    /\ srv = 1 /\ writes = 0
    /\ id = [k \in Keys |-> 1] /\ body = [k \in Keys |-> 1]
    /\ rev = ZeroRev
    /\ entries = [k \in Keys |-> NoEntry]
    /\ pc = [p \in Procs |-> "idle"]
    /\ key = [p \in Procs |-> CHOOSE k \in Keys : TRUE]
    /\ seen = [p \in Procs |-> ZeroRev]
    /\ val = [p \in Procs |-> ZeroValue] /\ floor = [p \in Procs |-> ZeroValue]

(***************************************************************************)
(* Faults a change to meta_cache.go could introduce; no action uses them.  *)
(***************************************************************************)

RevisionWithoutServers(p) ==
    /\ pc[p] = "servers"
    /\ seen' = [seen EXCEPT ![p].srv = 1]
    /\ pc' = [pc EXCEPT ![p] = "tables"]
    /\ UNCHANGED <<key, val, floor>> /\ UNCHANGED storeVars /\ UNCHANGED cacheVars

HitPastExpiry(p) ==
    /\ pc[p] = "get"
    /\ entries[key[p]] # NoEntry
    /\ val' = [val EXCEPT ![p] = entries[key[p]].val]
    /\ pc' = [pc EXCEPT ![p] = "done"]
    /\ UNCHANGED <<key, seen, floor>> /\ UNCHANGED storeVars /\ UNCHANGED cacheVars

PutTwiceTTL(p) ==
    /\ pc[p] = "put"
    /\ entries' = [entries EXCEPT ![key[p]] = [val |-> val[p], left |-> 2 * TTL,
                                             own |-> Fits(val[p], rev, key[p])]]
    /\ pc' = [pc EXCEPT ![p] = "done"]
    /\ UNCHANGED <<rev, key, seen, val, floor>> /\ UNCHANGED storeVars

(***************************************************************************)
(* Admin writes                                                            *)
(***************************************************************************)

Write == writes < MaxWrites /\ writes' = writes + 1
Fresh == writes + 2

\* UpdateServer: a new UpdatedAt.
UpdateServer ==
    /\ Write /\ srv # 0
    /\ srv' = Fresh
    /\ UNCHANGED <<id, body>> /\ UNCHANGED cacheVars /\ UNCHANGED procVars

\* UpdateTable, UpdateFunction, CreateColumn, UpdateColumn, DeleteColumn:
\* nothing that storeRevision hashes changes.
UpdateBody(k) ==
    /\ Write /\ id[k] # 0
    /\ body' = [body EXCEPT ![k] = Fresh]
    /\ UNCHANGED <<srv, id>> /\ UNCHANGED cacheVars /\ UNCHANGED procVars

\* DeleteServer cascades to its tables and functions.  Left out: without foreign
\* keys (SQLite) they stay, still listed, and resolve to the error of a disabled server.
DeleteServer ==
    /\ Write /\ srv # 0
    /\ srv' = 0
    /\ id' = [k \in Keys |-> 0]
    /\ UNCHANGED body /\ UNCHANGED cacheVars /\ UNCHANGED procVars

CreateServer ==
    /\ Write /\ srv = 0
    /\ srv' = Fresh
    /\ UNCHANGED <<id, body>> /\ UNCHANGED cacheVars /\ UNCHANGED procVars

\* DeleteTable or DeleteFunction.
Drop(k) ==
    /\ Write /\ id[k] # 0
    /\ id' = [id EXCEPT ![k] = 0]
    /\ UNCHANGED <<srv, body>> /\ UNCHANGED cacheVars /\ UNCHANGED procVars

\* CreateTable or CreateFunction: a new ID.
Create(k) ==
    /\ Write /\ id[k] = 0 /\ srv # 0
    /\ id' = [id EXCEPT ![k] = Fresh]
    /\ body' = [body EXCEPT ![k] = Fresh]
    /\ UNCHANGED srv /\ UNCHANGED cacheVars /\ UNCHANGED procVars

\* ImportDeclarative: every row is deleted in one transaction, and those the
\* document still has are created again with new IDs.
Import ==
    /\ Write
    /\ srv' = Fresh
    /\ \E kept \in SUBSET Keys :
         /\ id' = [k \in Keys |-> IF k \in kept THEN Fresh ELSE 0]
         /\ body' = [k \in Keys |-> IF k \in kept THEN Fresh ELSE body[k]]
    /\ UNCHANGED cacheVars /\ UNCHANGED procVars

Admin ==
    \/ UpdateServer \/ DeleteServer \/ CreateServer \/ Import
    \/ \E k \in Keys : UpdateBody(k) \/ Drop(k) \/ Create(k)

(***************************************************************************)
(* resolveTable and resolveFunction                                        *)
(***************************************************************************)

Goto(p, step) == pc' = [pc EXCEPT ![p] = step]

\* The request is over; nothing of it remains.
End(p) ==
    /\ Goto(p, "idle")
    /\ seen' = [seen EXCEPT ![p] = ZeroRev]
    /\ val' = [val EXCEPT ![p] = ZeroValue]
    /\ floor' = [floor EXCEPT ![p] = ZeroValue]
    /\ UNCHANGED key

Arrive(p, k) ==
    /\ pc[p] = "idle"
    /\ key' = [key EXCEPT ![p] = k]
    /\ floor' = [floor EXCEPT ![p] = Current(k)]
    /\ Goto(p, "servers")
    /\ UNCHANGED <<seen, val>> /\ UNCHANGED storeVars /\ UNCHANGED cacheVars

\* storeRevision, one list query at a time.
ListServers(p) ==
    /\ pc[p] = "servers"
    /\ seen' = [seen EXCEPT ![p].srv = srv]
    /\ Goto(p, "tables")
    /\ UNCHANGED <<key, val, floor>> /\ UNCHANGED storeVars /\ UNCHANGED cacheVars

ListTables(p) ==
    /\ pc[p] = "tables"
    /\ seen' = [seen EXCEPT ![p].tables = [k \in Tables |-> id[k]]]
    /\ Goto(p, "functions")
    /\ UNCHANGED <<key, val, floor>> /\ UNCHANGED storeVars /\ UNCHANGED cacheVars

ListFunctions(p) ==
    /\ pc[p] = "functions"
    /\ seen' = [seen EXCEPT ![p].funcs = [k \in Funcs |-> id[k]]]
    /\ Goto(p, "sync")
    /\ UNCHANGED <<key, val, floor>> /\ UNCHANGED storeVars /\ UNCHANGED cacheVars

\* The locked part of syncRevision: a different revision empties both maps.
SyncRevision(p) ==
    /\ pc[p] = "sync"
    /\ rev' = seen[p]
    /\ entries' = IF rev = seen[p] THEN entries ELSE [k \in Keys |-> NoEntry]
    /\ Goto(p, "get")
    /\ UNCHANGED <<key, seen, val, floor>> /\ UNCHANGED storeVars

\* ok and not time.Now().After(entry.expires)
Live(e) == e # NoEntry /\ e.left >= 0

GetHit(p) ==
    /\ pc[p] = "get"
    /\ Live(entries[key[p]])
    /\ val' = [val EXCEPT ![p] = entries[key[p]].val]
    /\ Goto(p, "done")
    /\ UNCHANGED <<key, seen, floor>> /\ UNCHANGED storeVars /\ UNCHANGED cacheVars

GetMiss(p) ==
    /\ pc[p] = "get"
    /\ ~Live(entries[key[p]])
    /\ Goto(p, "resolve")
    /\ UNCHANGED <<key, seen, val, floor>> /\ UNCHANGED storeVars /\ UNCHANGED cacheVars

\* Store.ResolveTable / ResolveFunction: the row with its server first ...
ResolveRow(p) ==
    /\ pc[p] = "resolve"
    /\ id[key[p]] # 0
    /\ val' = [val EXCEPT ![p] = Current(key[p])]
    /\ Goto(p, IF key[p] \in Tables THEN "columns" ELSE "put")
    /\ UNCHANGED <<key, seen, floor>> /\ UNCHANGED storeVars /\ UNCHANGED cacheVars

\* ... then, for a table, the columns, looked up by name in queries of their own.
ResolveColumns(p) ==
    /\ pc[p] = "columns"
    /\ id[key[p]] # 0
    /\ val' = [val EXCEPT ![p].body = body[key[p]]]
    /\ Goto(p, "put")
    /\ UNCHANGED <<key, seen, floor>> /\ UNCHANGED storeVars /\ UNCHANGED cacheVars

\* A query fails, or finds no such row: the request ends with the error.
ResolveErr(p) ==
    /\ pc[p] \in {"servers", "tables", "functions", "resolve", "columns"}
    /\ End(p)
    /\ UNCHANGED storeVars /\ UNCHANGED cacheVars

\* putTable / putFunction: under whatever revision the cache has by now.
Put(p) ==
    /\ pc[p] = "put"
    /\ entries' = [entries EXCEPT ![key[p]] = [val |-> val[p], left |-> TTL,
                                             own |-> Fits(val[p], rev, key[p])]]
    /\ Goto(p, "done")
    /\ UNCHANGED <<rev, key, seen, val, floor>> /\ UNCHANGED storeVars

Return(p) ==
    /\ pc[p] = "done"
    /\ End(p)
    /\ UNCHANGED storeVars /\ UNCHANGED cacheVars

\* Time passes for every entry.
Tick ==
    /\ \E k \in Keys : Live(entries[k])
    /\ entries' = [k \in Keys |->
                     IF Live(entries[k]) THEN [entries[k] EXCEPT !.left = @ - 1]
                     ELSE entries[k]]
    /\ UNCHANGED rev /\ UNCHANGED storeVars /\ UNCHANGED procVars

Resolve(p) ==
    \/ ListServers(p) \/ ListTables(p) \/ ListFunctions(p) \/ SyncRevision(p)
    \/ GetHit(p) \/ GetMiss(p)
    \/ ResolveRow(p) \/ ResolveColumns(p) \/ ResolveErr(p) \/ Put(p) \/ Return(p)

Next ==
    \/ Admin
    \/ \E p \in Procs : Resolve(p) \/ \E k \in Keys : Arrive(p, k)
    \/ Tick

Spec == Init /\ [][Next]_vars

\* Requests run to their end and the clock advances; admin writes and new
\* requests need not come.
FairSpec == Spec /\ WF_vars(Tick) /\ \A p \in Procs : WF_vars(Resolve(p))

(***************************************************************************)
(* Properties                                                              *)
(***************************************************************************)

\* What revision invalidation is for: a request sees every server change,
\* re-creation and import committed before it arrived.
SeesCoveredWrites ==
    \A p \in Procs : pc[p] = "done" =>
        val[p].srv >= floor[p].srv /\ val[p].id >= floor[p].id

\* A hit can miss one in two ways only: the entry was put under a revision its
\* value does not belong to (a write came between that request's revision and
\* its resolve, or another request's revision before its put), or another request
\* installed its revision between this one's syncRevision and get.
OnlyRacesHide ==
    [][\A p \in Procs :
        /\ pc[p] # "done" /\ pc'[p] = "done"
        /\ pc[p] = "get" => rev = seen[p] /\ entries[key[p]].own
        => val'[p].srv >= floor[p].srv /\ val'[p].id >= floor[p].id]_vars

\* Staleness is transient: when the store stops changing, from some moment on
\* every answer is the current one, whatever a racing put left in the cache.
EventuallyFresh ==
    <>[](\A p \in Procs : pc[p] = "done" => val[p] = Current(key[p]))

=============================================================================
