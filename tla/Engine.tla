------------------------------- MODULE Engine -------------------------------
(***************************************************************************)
(* internal/engine/engine.go: Engine.DriverFor, the path every data        *)
(* operation and RPC takes from a resolved server to a driver, with        *)
(* driverPool.Get and Close and the methods of the one process-wide        *)
(* breaker as they run inside it.  Here the pool's mutex is a lock that is *)
(* taken and released, what runs under it are several steps, and one of    *)
(* them, driver.Close, may wait for the requests that use the driver       *)
(* (pgxpool does).  DriverPool and Breaker are what this promises: each    *)
(* critical section one step, each dial one Allow and one report.          *)
(***************************************************************************)
EXTENDS Integers, FiniteSets

CONSTANTS
    Procs,      \* goroutines that serve requests
    Servers,    \* server IDs
    Drivers,    \* driver instances that can ever be created (bounds creations)
    MaxVersion, \* configurations a server goes through (bounds reconfigurations)
    NoDriver,   \* a request that holds no driver
    MaxFails,   \* Breaker.maxFails
    Cooldown    \* Breaker.cooldown, in ticks

ASSUME EngineAssumption ==
    /\ IsFiniteSet(Procs)
    /\ Servers # {} /\ IsFiniteSet(Servers)
    /\ NoDriver \notin Drivers
    /\ MaxVersion \in Nat \ {0} /\ MaxFails \in Nat \ {0} /\ Cooldown \in Nat \ {0}

VARIABLES
    at,        \* at[p]: where request p is in DriverFor
    locked,    \* driverPool.mu
    closing,   \* Close is running
    items,     \* driverPool.items
    config,    \* config[s]: current configuration fingerprint of server s
    req,       \* req[p]: the server and the fingerprint p asks for
    drv,       \* drv[p]: the driver p created or was given
    born, closed, built, stopped,   \* as in DriverPool
    failures, open, left            \* as in Breaker

lockVars    == <<at, locked, closing>>
breakerVars == <<failures, open, left>>
driverVars  == <<born, closed, built>>
engineVars  == <<lockVars, items, config, req, drv, driverVars, stopped, breakerVars>>

\* What a request does with the mutex.
Critical == {"find", "check", "lost", "won"}

Places == {"idle", "lookup", "allow", "dial", "failed", "dialed", "install", "use"}
          \cup Critical

Requests == [srv : Servers, version : 1..MaxVersion]
Pooled   == [version : 1..MaxVersion, drv : Drivers]

EngineTypeOK ==
    /\ at \in [Procs -> Places]
    /\ locked \in BOOLEAN /\ closing \in BOOLEAN /\ stopped \in BOOLEAN
    /\ DOMAIN items \in SUBSET Servers /\ items \in [DOMAIN items -> Pooled]
    /\ config \in [Servers -> 1..MaxVersion]
    /\ req \in [Procs -> Requests] /\ drv \in [Procs -> Drivers \cup {NoDriver}]
    /\ born \in SUBSET Drivers /\ closed \in SUBSET Drivers
    /\ built \in [Drivers -> Requests]
    /\ failures \in Nat /\ open \in BOOLEAN /\ left \in -1..Cooldown

AnyRequest == CHOOSE r \in Requests : TRUE
NoItems    == [s \in {} |-> AnyRequest]

EngineInit ==
    /\ at = [p \in Procs |-> "idle"]
    /\ locked = FALSE /\ closing = FALSE /\ stopped = FALSE
    /\ items = NoItems
    /\ config = [s \in Servers |-> 1]
    /\ req = [p \in Procs |-> AnyRequest] /\ drv = [p \in Procs |-> NoDriver]
    /\ born = {} /\ closed = {} /\ built = [d \in Drivers |-> AnyRequest]
    /\ failures = 0 /\ open = FALSE /\ left = -1

\* items[srv.ID] is present with the version the request asks for.
Hit(p) ==
    /\ req[p].srv \in DOMAIN items
    /\ items[req[p].srv].version = req[p].version

\* The driver pooled for the server of p, if any.
Entry(p) == {items[s].drv : s \in {req[p].srv} \cap DOMAIN items}

Used(d) == \E q \in Procs : at[q] = "use" /\ drv[q] = d

Goto(p, place) == at' = [at EXCEPT ![p] = place]

\* Goto and mu.Unlock.
Leave(p, place) ==
    /\ Goto(p, place)
    /\ locked' = FALSE /\ UNCHANGED closing
    /\ UNCHANGED <<config, req, stopped, breakerVars>>

\* A step in create: the mutex is not held, the pool is not touched.
Creating(p, from, to) ==
    /\ at[p] = from
    /\ Goto(p, to)
    /\ UNCHANGED <<locked, closing, items, config, req, stopped>>

(***************************************************************************)
(* Faults a change to this code could introduce; no action uses them.      *)
(***************************************************************************)

\* a refused dial counts as a failed one
RefuseCounts(p) ==
    /\ open /\ left >= 0
    /\ Creating(p, "allow", "idle")
    /\ failures' = failures + 1
    /\ UNCHANGED <<drv, driverVars, open, left>>

\* a refused request tries again at once
RefuseRetrying(p) ==
    /\ open /\ left >= 0
    /\ Creating(p, "allow", "allow")
    /\ UNCHANGED <<drv, driverVars, breakerVars>>

\* an open breaker refuses also past its deadline
AdmitClosed(p) ==
    /\ ~open \/ left < 0
    /\ Creating(p, "allow", IF open THEN "idle" ELSE "dial")
    /\ UNCHANGED <<drv, driverVars, breakerVars>>

\* the mutex is released before the replaced driver is closed
WinUnlocked(p) ==
    /\ at[p] = "check" /\ ~Hit(p)
    /\ closed' = closed \cup Entry(p)
    /\ Goto(p, "won") /\ locked' = FALSE
    /\ UNCHANGED <<closing, items, config, req, drv, born, built, stopped, breakerVars>>

\* the mutex is not taken
LockNothing(p) ==
    /\ at[p] \in {"lookup", "install"}
    /\ locked' = TRUE
    /\ Goto(p, IF at[p] = "lookup" THEN "find" ELSE "check")
    /\ UNCHANGED <<closing, items, config, req, drv, driverVars, stopped, breakerVars>>

\* a failure adds to the cooldown
FailAddsCooldown(p) ==
    /\ Creating(p, "failed", "idle")
    /\ failures' = failures + 1
    /\ open' = (open \/ failures' >= MaxFails)
    /\ left' = IF failures' >= MaxFails THEN left + 1 + Cooldown ELSE left
    /\ UNCHANGED <<drv, driverVars>>

(***************************************************************************)
(* DriverFor                                                               *)
(***************************************************************************)

\* A data operation resolved its server; the row may be out of date by now.
Arrive(p, s, v) ==
    /\ at[p] = "idle" /\ v <= config[s]
    /\ req' = [req EXCEPT ![p] = [srv |-> s, version |-> v]]
    /\ Goto(p, "lookup")
    /\ UNCHANGED <<locked, closing, items, config, drv, driverVars, stopped, breakerVars>>

\* mu.Lock, before and after create.
Lock(p) ==
    /\ at[p] \in {"lookup", "install"}
    /\ ~locked /\ locked' = TRUE
    /\ Goto(p, IF at[p] = "lookup" THEN "find" ELSE "check")
    /\ UNCHANGED <<closing, items, config, req, drv, driverVars, stopped, breakerVars>>

Found(p) ==
    /\ at[p] = "find" /\ Hit(p)
    /\ drv' = [drv EXCEPT ![p] = items[req[p].srv].drv]
    /\ Leave(p, "use")
    /\ UNCHANGED <<items, driverVars>>

NotFound(p) ==
    /\ at[p] = "find" /\ ~Hit(p)
    /\ Leave(p, "allow")
    /\ UNCHANGED <<items, drv, driverVars>>

\* breaker.Allow lets the request dial; past the deadline it closes.
Admit(p) ==
    /\ ~open \/ left < 0
    /\ Creating(p, "allow", "dial")
    /\ open' = FALSE /\ failures' = IF open THEN 0 ELSE failures
    /\ UNCHANGED <<drv, driverVars, left>>

\* It does not: create, Get and DriverFor return the error.
Refuse(p) ==
    /\ open /\ left >= 0
    /\ Creating(p, "allow", "idle")
    /\ UNCHANGED <<drv, driverVars, breakerVars>>

\* driver.New returns a driver.
DialOK(p) ==
    /\ Creating(p, "dial", "dialed")
    /\ \E d \in Drivers \ born :
        /\ born' = born \cup {d}
        /\ built' = [built EXCEPT ![d] = req[p]]
        /\ drv' = [drv EXCEPT ![p] = d]
    /\ UNCHANGED <<closed, breakerVars>>

\* driver.New fails, also because the request's context ended first.
DialFail(p) ==
    /\ Creating(p, "dial", "failed")
    /\ UNCHANGED <<drv, driverVars, breakerVars>>

\* breaker.Fail, and the error is returned.
ReportFail(p) ==
    /\ Creating(p, "failed", "idle")
    /\ failures' = failures + 1
    /\ open' = (open \/ failures' >= MaxFails)
    /\ left' = IF failures' >= MaxFails THEN Cooldown ELSE left
    /\ UNCHANGED <<drv, driverVars>>

\* breaker.Success, and create returns the driver.
ReportSuccess(p) ==
    /\ Creating(p, "dialed", "install")
    /\ failures' = 0 /\ open' = FALSE
    /\ UNCHANGED <<drv, driverVars, left>>

\* Another request installed the same version first: close our driver ...
Lose(p) ==
    /\ at[p] = "check" /\ Hit(p)
    /\ closed' = closed \cup {drv[p]}
    /\ Goto(p, "lost")
    /\ UNCHANGED <<locked, closing, items, config, req, drv, born, built, stopped, breakerVars>>

\* ... and return the pooled one.
TakePooled(p) ==
    /\ at[p] = "lost"
    /\ drv' = [drv EXCEPT ![p] = items[req[p].srv].drv]
    /\ Leave(p, "use")
    /\ UNCHANGED <<items, driverVars>>

\* Nothing or another version is pooled: close what is there ...
Win(p) ==
    /\ at[p] = "check" /\ ~Hit(p)
    /\ closed' = closed \cup Entry(p)
    /\ Goto(p, "won")
    /\ UNCHANGED <<locked, closing, items, config, req, drv, born, built, stopped, breakerVars>>

\* ... and install ours.
Put(p) ==
    /\ at[p] = "won"
    /\ items' = [s \in DOMAIN items \cup {req[p].srv} |->
                    IF s = req[p].srv THEN [version |-> req[p].version, drv |-> drv[p]]
                    ELSE items[s]]
    /\ Leave(p, "use")
    /\ UNCHANGED <<drv, driverVars>>

\* The data operation on the driver returns.
Finish(p) ==
    /\ at[p] = "use" /\ Goto(p, "idle")
    /\ drv' = [drv EXCEPT ![p] = NoDriver]
    /\ UNCHANGED <<locked, closing, items, config, req, driverVars, stopped, breakerVars>>

(***************************************************************************)
(* Admin writes, the clock and Engine.Close                                *)
(***************************************************************************)

Reconfigure(s) ==
    /\ config[s] < MaxVersion
    /\ config' = [config EXCEPT ![s] = @ + 1]
    /\ UNCHANGED <<lockVars, items, req, drv, driverVars, stopped, breakerVars>>

Tick ==
    /\ left >= 0 /\ left' = left - 1
    /\ UNCHANGED <<lockVars, items, config, req, drv, driverVars, stopped, failures, open>>

CloseBegin ==
    /\ ~locked /\ ~stopped
    /\ locked' = TRUE /\ closing' = TRUE /\ stopped' = TRUE
    /\ UNCHANGED <<at, items, config, req, drv, driverVars, breakerVars>>

CloseItem(s) ==
    /\ closing /\ s \in DOMAIN items
    /\ closed' = closed \cup {items[s].drv}
    /\ items' = [t \in DOMAIN items \ {s} |-> items[t]]
    /\ UNCHANGED <<lockVars, config, req, drv, born, built, stopped, breakerVars>>

CloseEnd ==
    /\ closing /\ DOMAIN items = {}
    /\ locked' = FALSE /\ closing' = FALSE
    /\ UNCHANGED <<at, items, config, req, drv, driverVars, stopped, breakerVars>>

(***************************************************************************)
(* The engine                                                              *)
(***************************************************************************)

\* What a request does by itself once it runs.
Proceed(p) ==
    \/ Found(p) \/ NotFound(p) \/ Admit(p) \/ Refuse(p) \/ DialOK(p) \/ DialFail(p)
    \/ ReportFail(p) \/ ReportSuccess(p) \/ Lose(p) \/ TakePooled(p) \/ Put(p) \/ Finish(p)

DriverFor(p) == Lock(p) \/ Win(p) \/ Proceed(p)

EngineNext ==
    \/ \E p \in Procs : DriverFor(p) \/ \E s \in Servers, v \in 1..MaxVersion : Arrive(p, s, v)
    \/ \E s \in Servers : Reconfigure(s) \/ CloseItem(s)
    \/ Tick \/ CloseBegin \/ CloseEnd

EngineSpec == EngineInit /\ [][EngineNext]_engineVars

(***************************************************************************)
(* Fairness.  The clock advances and goroutines run; a dial and a data     *)
(* operation end because the request's context has a deadline; whether     *)
(* they end well is up to the backend.  A waiting goroutine gets the mutex *)
(* in the end (sync.Mutex hands it over after a millisecond), and          *)
(* driver.Close returns once nobody uses the driver, perhaps not before.   *)
(***************************************************************************)
EngineFairness ==
    /\ WF_engineVars(Tick) /\ WF_engineVars(CloseEnd)
    /\ \A s \in Servers : WF_engineVars(s \in DOMAIN items /\ ~Used(items[s].drv) /\ CloseItem(s))
    /\ \A p \in Procs :
        /\ WF_engineVars(Proceed(p)) /\ SF_engineVars(Lock(p))
        /\ WF_engineVars((\A d \in Entry(p) : ~Used(d)) /\ Win(p))

FairEngineSpec == EngineSpec /\ EngineFairness

(***************************************************************************)
(* Properties                                                              *)
(***************************************************************************)

\* mu excludes: whoever is in a critical section, a request or Close, is alone
\* there and holds the mutex, and every way out of one releases it, also from
\* the returns in the middle of Get (driver_pool.go:41, 58).
Exclusive ==
    /\ locked <=> closing \/ \E p \in Procs : at[p] \in Critical
    /\ closing => \A p \in Procs : at[p] \notin Critical
    /\ \A p, q \in Procs : at[p] \in Critical /\ at[q] \in Critical => p = q

(***************************************************************************)
(* Seen from outside, a critical section happens at once: that of a        *)
(* request that loses when it closes its driver, of one that wins when it  *)
(* installs, until when the driver it closed counts as open; and Close     *)
(* when it takes the mutex.                                                *)
(***************************************************************************)
PoolPlace(place) ==
    CASE place \in {"lookup", "find"} -> "lookup"
      [] place \in {"allow", "dial", "failed"} -> "create"
      [] place \in {"dialed", "install", "check", "won"} -> "install"
      [] place \in {"lost", "use"} -> "use"
      [] OTHER -> "idle"

ItemDrivers == {items[s].drv : s \in DOMAIN items}
Replacing   == {p \in Procs : at[p] = "won"}

PoolPc    == [p \in Procs |-> PoolPlace(at[p])]
PoolItems == IF closing THEN NoItems ELSE items
PoolDrv   == [p \in Procs |-> IF at[p] = "lost" THEN items[req[p].srv].drv ELSE drv[p]]
PoolClosed ==
    IF closing THEN closed \cup ItemDrivers
    ELSE closed \ UNION {Entry(p) : p \in Replacing}

Pool == INSTANCE DriverPool WITH
    pc <- PoolPc, items <- PoolItems, drv <- PoolDrv, closed <- PoolClosed

\* Whatever requests, dials, the mutex and waiting Closes interleave, the pool
\* inside DriverFor behaves as DriverPool, whose critical sections are single
\* steps: what is proved of DriverPool holds of driver_pool.go as it runs here.
PoolBehaviour == Pool!Spec

\* A request owes the breaker a report from Allow until it has made it.
CallOf(place) ==
    CASE place = "allow" -> "asking"
      [] place \in {"dial", "failed", "dialed"} -> "dialing"
      [] OTHER -> "idle"

BrkCall == [p \in Procs |-> CallOf(at[p])]

Brk == INSTANCE Breaker WITH Callers <- Procs, call <- BrkCall

\* On every path through the create closure each Allow that lets a request dial
\* is followed by exactly one Success or Fail, and no other step touches the
\* breaker (engine.go:48-66).
BreakerBehaviour == Brk!BreakerSpec

\* No request hangs in DriverFor: it gets a driver or an error, also when it is
\* refused, loses the install race, is overtaken by Close, or waits for the mutex
\* behind a Close of a driver that is in use, for which nobody waits forever
\* because a request that uses a driver needs no mutex to end.
RequestsEnd == \A p \in Procs : (at[p] = "lookup") ~> (at[p] \in {"use", "idle"})

\* Outages do not stick: once dials stop failing, a client that keeps sending
\* requests keeps being served; no sequence of earlier failures leaves the
\* breaker open for good or the pool without a driver.
ServedOnceHealthy ==
    (<>[][\A p \in Procs : ~DialFail(p)]_engineVars) =>
        \A p \in Procs : ([]<>(at[p] = "lookup")) => ([]<>(at[p] = "use"))

=============================================================================
