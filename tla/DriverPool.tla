----------------------------- MODULE DriverPool -----------------------------
(***************************************************************************)
(* internal/engine/driver_pool.go: one remote driver per server, shared by *)
(* all requests and replaced when the server's configuration fingerprint   *)
(* changes.  Get holds the mutex twice, before and after an unlocked       *)
(* create; everything between the two critical sections interleaves with   *)
(* other requests, with configuration changes and with Close.              *)
(***************************************************************************)
EXTENDS Integers, FiniteSets

CONSTANTS
    Procs,      \* goroutines that serve requests
    Servers,    \* server IDs, the keys of driverPool.items
    Drivers,    \* driver instances that can ever be created (bounds creations)
    MaxVersion, \* configurations a server goes through (bounds reconfigurations)
    NoDriver    \* a request that holds no driver

ASSUME PoolAssumption ==
    /\ MaxVersion \in Nat \ {0}
    /\ NoDriver \notin Drivers
    /\ Servers # {} /\ IsFiniteSet(Servers)
    /\ IsFiniteSet(Procs)

VARIABLES
    items,     \* driverPool.items: server ID -> pooledDriver, partial
    config,    \* config[s]: current configuration fingerprint of server s
    pc,        \* pc[p]: where request p is in Get
    req,       \* req[p]: the server and the fingerprint p calls Get with
    drv,       \* drv[p]: the driver p created or was given
    born,      \* drivers created so far
    closed,    \* drivers closed so far
    built,     \* built[d]: the server and fingerprint d was created from
    stopped    \* Close has been called

poolVars == <<items, config, pc, req, drv, born, closed, built, stopped>>

Versions == 1..MaxVersion
Requests == [srv : Servers, version : Versions]
Pooled   == [version : Versions, drv : Drivers]

TypeOK ==
    /\ DOMAIN items \in SUBSET Servers
    /\ items \in [DOMAIN items -> Pooled]
    /\ config \in [Servers -> Versions]
    /\ pc \in [Procs -> {"idle", "lookup", "create", "install", "use"}]
    /\ req \in [Procs -> Requests]
    /\ drv \in [Procs -> Drivers \cup {NoDriver}]
    /\ born \in SUBSET Drivers
    /\ closed \in SUBSET Drivers
    /\ built \in [Drivers -> Requests]
    /\ stopped \in BOOLEAN

AnyRequest == CHOOSE r \in Requests : TRUE

Init ==
    /\ items = [s \in {} |-> AnyRequest]
    /\ config = [s \in Servers |-> 1]
    /\ pc = [p \in Procs |-> "idle"]
    /\ req = [p \in Procs |-> AnyRequest]
    /\ drv = [p \in Procs |-> NoDriver]
    /\ born = {}
    /\ closed = {}
    /\ built = [d \in Drivers |-> AnyRequest]
    /\ stopped = FALSE

(***************************************************************************)
(* Faults a change to driver_pool.go could introduce; no action uses them. *)
(***************************************************************************)

HitAnyVersion(p) == req[p].srv \in DOMAIN items

CreateErrIgnored(p) ==
    /\ pc[p] = "create"
    /\ pc' = [pc EXCEPT ![p] = "install"]
    /\ UNCHANGED <<items, config, req, drv, born, closed, built, stopped>>

LoserKeepsConnection(p) ==
    /\ pc[p] = "install"
    /\ req[p].srv \in DOMAIN items
    /\ items[req[p].srv].version = req[p].version
    /\ drv' = [drv EXCEPT ![p] = items[req[p].srv].drv]
    /\ pc' = [pc EXCEPT ![p] = "use"]
    /\ UNCHANGED <<items, config, req, born, closed, built, stopped>>

LoserClosesWinner(p) ==
    /\ pc[p] = "install"
    /\ req[p].srv \in DOMAIN items
    /\ items[req[p].srv].version = req[p].version
    /\ closed' = closed \cup {items[req[p].srv].drv}
    /\ pc' = [pc EXCEPT ![p] = "use"]
    /\ UNCHANGED <<items, config, req, drv, born, built, stopped>>

LoserInstallsToo(p) ==
    /\ pc[p] = "install"
    /\ req[p].srv \in DOMAIN items
    /\ items[req[p].srv].version = req[p].version
    /\ closed' = closed \cup {items[req[p].srv].drv}
    /\ items' = [items EXCEPT ![req[p].srv].drv = drv[p]]
    /\ pc' = [pc EXCEPT ![p] = "use"]
    /\ UNCHANGED <<config, req, drv, born, built, stopped>>

ReplaceWithoutClose(p) ==
    /\ pc[p] = "install"
    /\ ~(req[p].srv \in DOMAIN items /\ items[req[p].srv].version = req[p].version)
    /\ items' = [t \in DOMAIN items \cup {req[p].srv} |->
                    IF t = req[p].srv THEN [version |-> req[p].version, drv |-> drv[p]]
                    ELSE items[t]]
    /\ pc' = [pc EXCEPT ![p] = "use"]
    /\ UNCHANGED <<config, req, drv, born, closed, built, stopped>>

(***************************************************************************)
(* The pool                                                                *)
(***************************************************************************)

\* items[srv.ID] is present with the version the request asks for.
Hit(p) ==
    /\ req[p].srv \in DOMAIN items
    /\ items[req[p].srv].version = req[p].version

\* An admin write or a credential change gives s a new driverConfigVersion.
Reconfigure(s) ==
    /\ config[s] < MaxVersion
    /\ config' = [config EXCEPT ![s] = @ + 1]
    /\ UNCHANGED <<items, pc, req, drv, born, closed, built, stopped>>

\* A request enters Get with the server row it resolved.  The row was read
\* earlier, possibly from the metadata cache, so its fingerprint may already
\* be out of date.
Begin(p, s, v) ==
    /\ pc[p] = "idle"
    /\ v <= config[s]
    /\ req' = [req EXCEPT ![p] = [srv |-> s, version |-> v]]
    /\ pc' = [pc EXCEPT ![p] = "lookup"]
    /\ UNCHANGED <<items, config, drv, born, closed, built, stopped>>

\* First critical section, the driver is there.
LookupHit(p) ==
    /\ pc[p] = "lookup"
    /\ Hit(p)
    /\ drv' = [drv EXCEPT ![p] = items[req[p].srv].drv]
    /\ pc' = [pc EXCEPT ![p] = "use"]
    /\ UNCHANGED <<items, config, req, born, closed, built, stopped>>

\* First critical section, it is not: unlock and call create.
LookupMiss(p) ==
    /\ pc[p] = "lookup"
    /\ ~Hit(p)
    /\ pc' = [pc EXCEPT ![p] = "create"]
    /\ UNCHANGED <<items, config, req, drv, born, closed, built, stopped>>

\* create returned an error: Get returns it and the request ends.
CreateErr(p) ==
    /\ pc[p] = "create"
    /\ pc' = [pc EXCEPT ![p] = "idle"]
    /\ UNCHANGED <<items, config, req, drv, born, closed, built, stopped>>

\* create returned a new driver.
CreateOK(p) ==
    /\ pc[p] = "create"
    /\ \E d \in Drivers \ born :
        /\ born' = born \cup {d}
        /\ built' = [built EXCEPT ![d] = req[p]]
        /\ drv' = [drv EXCEPT ![p] = d]
    /\ pc' = [pc EXCEPT ![p] = "install"]
    /\ UNCHANGED <<items, config, req, closed, stopped>>

\* Second critical section, another request installed the same version first:
\* close our own driver and use the pooled one.
InstallLose(p) ==
    /\ pc[p] = "install"
    /\ Hit(p)
    /\ closed' = closed \cup {drv[p]}
    /\ drv' = [drv EXCEPT ![p] = items[req[p].srv].drv]
    /\ pc' = [pc EXCEPT ![p] = "use"]
    /\ UNCHANGED <<items, config, req, born, built, stopped>>

\* Second critical section, nothing or another version is pooled: close what
\* is there and install our driver.  (driver.Close may take its time, with the
\* mutex held; Engine has it as a step of its own and implements this one.)
InstallWin(p) ==
    LET s == req[p].srv IN
    /\ pc[p] = "install"
    /\ ~Hit(p)
    /\ closed' = closed \cup {items[t].drv : t \in {s} \cap DOMAIN items}
    /\ items' = [t \in DOMAIN items \cup {s} |->
                    IF t = s THEN [version |-> req[p].version, drv |-> drv[p]]
                    ELSE items[t]]
    /\ pc' = [pc EXCEPT ![p] = "use"]
    /\ UNCHANGED <<config, req, drv, born, built, stopped>>

\* The data operation on the driver returns.
Finish(p) ==
    /\ pc[p] = "use"
    /\ pc' = [pc EXCEPT ![p] = "idle"]
    /\ drv' = [drv EXCEPT ![p] = NoDriver]
    /\ UNCHANGED <<items, config, req, born, closed, built, stopped>>

\* driverPool.Close: close and forget every pooled driver.  Requests already
\* past the first critical section are not told.
Close ==
    /\ ~stopped
    /\ stopped' = TRUE
    /\ closed' = closed \cup {items[s].drv : s \in DOMAIN items}
    /\ items' = [s \in {} |-> AnyRequest]
    /\ UNCHANGED <<config, pc, req, drv, born, built>>

Get(p) ==
    \/ LookupHit(p) \/ LookupMiss(p)
    \/ CreateErr(p) \/ CreateOK(p)
    \/ InstallLose(p) \/ InstallWin(p)

Next ==
    \/ \E s \in Servers : Reconfigure(s)
    \/ \E p \in Procs, s \in Servers, v \in Versions : Begin(p, s, v)
    \/ \E p \in Procs : Get(p) \/ Finish(p)
    \/ Close

Spec == Init /\ [][Next]_poolVars

(***************************************************************************)
(* Properties                                                              *)
(***************************************************************************)

Holding(p) == pc[p] = "install"
IsPooled(d) == \E s \in DOMAIN items : items[s].drv = d

\* No connection leaks: a driver that was created and not closed is either in
\* the pool or still in the hands of the request that created it, whatever
\* Gets, configuration changes and Close interleave (driver_pool.go:52-62).
NoLeak ==
    \A d \in born \ closed : IsPooled(d) \/ \E p \in Procs : Holding(p) /\ drv[p] = d

\* Get never hands out, and the pool never keeps, a driver that was already
\* closed: everything in items is open.
PooledIsOpen == \A s \in DOMAIN items : items[s].drv \in born \ closed

\* The remote end sees at most one idle connection per server plus one per
\* request that is between create and its second critical section.
OpenBound ==
    Cardinality(born \ closed) <=
        Cardinality(DOMAIN items) + Cardinality({p \in Procs : Holding(p)})

\* A request never talks to the wrong backend: the driver it uses was created
\* from exactly the server and fingerprint it resolved, also when it was
\* created by another request.
UsesOwnConfig ==
    \A p \in Procs : pc[p] = "use" => drv[p] \in born /\ built[drv[p]] = req[p]

\* Racing first requests never close a driver somebody uses: a driver in use
\* is only ever closed because its server was reconfigured or the pool closed.
ClosedUnderUseOnlyAfterChange ==
    \A p \in Procs :
        (pc[p] = "use" /\ drv[p] \in closed) => (stopped \/ config[req[p].srv] > 1)

\* The pool implements DriverLifecycle: seen from the remote end, each driver
\* is opened, published or discarded, and closed once.
PhaseOf(d) ==
    CASE d \notin born -> "unborn"
      [] d \in closed -> "closed"
      [] d \in born \ closed /\ IsPooled(d) -> "published"
      [] d \in born \ closed /\ ~IsPooled(d) -> "held"

Lifecycle == INSTANCE DriverLifecycle WITH
    phase <- [d \in Drivers |-> PhaseOf(d)],
    home  <- [d \in Drivers |-> built[d].srv]

LifecycleSpec == Lifecycle!LifeSpec

=============================================================================
