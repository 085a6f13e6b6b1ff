---------------------------- MODULE EngineProofs ----------------------------
(***************************************************************************)
(* The engine's mutex excludes, and under it the pool and the breaker      *)
(* inside DriverFor behave as DriverPool and Breaker say: the critical     *)
(* sections, of several steps each and with a Close in the middle that     *)
(* takes its time, are atomic as far as the pool can tell, and each dial   *)
(* is reported once.  What DriverPoolProofs proves then holds of the       *)
(* engine's own pool.                                                      *)
(***************************************************************************)
EXTENDS Engine, FiniteSetTheorems, TLAPS

\* What a request in the middle of a critical section has seen or done is
\* still so, and one that created a driver has it.
UnderLock ==
    \A p \in Procs :
        /\ at[p] = "lost" => Hit(p)
        /\ at[p] = "won" => ~Hit(p) /\ Entry(p) \subseteq closed
        /\ at[p] \in {"dialed", "install", "check", "won"} => drv[p] \in Drivers

LockInv == EngineTypeOK /\ Exclusive /\ UnderLock

-----------------------------------------------------------------------------

LEMMA AnyRequestIsOne == AnyRequest \in Requests
<1>1. PICK s \in Servers : TRUE
  BY EngineAssumption
<1>2. [srv |-> s, version |-> 1] \in Requests
  BY EngineAssumption DEF Requests
<1> QED
  BY <1>2 DEF AnyRequest

LEMMA LockInit == EngineInit => LockInv
<1> SUFFICES ASSUME EngineInit PROVE LockInv
  OBVIOUS
<1>1. DOMAIN items = {}
  BY DEF EngineInit, NoItems
<1>2. items \in [{} -> Pooled]
  BY DEF EngineInit, NoItems
<1>3. EngineTypeOK
  <2>1. left \in -1..Cooldown /\ config \in [Servers -> 1..MaxVersion]
    BY EngineAssumption DEF EngineInit
  <2>2. at \in [Procs -> Places] /\ req \in [Procs -> Requests] /\ built \in [Drivers -> Requests]
    BY AnyRequestIsOne DEF EngineInit, Places
  <2>3. /\ drv \in [Procs -> Drivers \cup {NoDriver}] /\ failures \in Nat
        /\ born \in SUBSET Drivers /\ closed \in SUBSET Drivers
        /\ locked \in BOOLEAN /\ closing \in BOOLEAN /\ stopped \in BOOLEAN /\ open \in BOOLEAN
    BY DEF EngineInit
  <2> QED
    BY <1>1, <1>2, <2>1, <2>2, <2>3 DEF EngineTypeOK
<1>4. Exclusive /\ UnderLock
  BY DEF EngineInit, Exclusive, UnderLock, Critical
<1> QED
  BY <1>3, <1>4 DEF LockInv

\* A step that keeps the pool, the mutex and what is closed: only the request
\* that takes it moves, between places outside the critical sections.
Outside(p) ==
    /\ at[p] \notin Critical
    /\ \E place \in Places \ Critical : Goto(p, place)
    /\ \A q \in Procs \ {p} : req'[q] = req[q] /\ drv'[q] = drv[q]
    /\ UNCHANGED <<locked, closing, items, config, stopped, closed>>

LEMMA OutsideLock ==
    ASSUME LockInv, NEW p \in Procs, Outside(p)
    PROVE  Exclusive' /\ (\A q \in Procs \ {p} :
              /\ at'[q] = "lost" => Hit(q)'
              /\ at'[q] = "won" => (~Hit(q) /\ Entry(q) \subseteq closed)'
              /\ at'[q] \in {"dialed", "install", "check", "won"} => drv'[q] \in Drivers)
<1>1. Exclusive'
  BY DEF LockInv, EngineTypeOK, Exclusive, Outside, Goto
<1>2. \A q \in Procs \ {p} : at'[q] = at[q] /\ req'[q] = req[q] /\ drv'[q] = drv[q]
  BY DEF LockInv, EngineTypeOK, Outside, Goto
<1>3. \A q \in Procs \ {p} : Hit(q)' = Hit(q) /\ Entry(q)' = Entry(q)
  BY <1>2 DEF Hit, Entry, Outside
<1> QED
  BY <1>1, <1>2, <1>3 DEF LockInv, UnderLock, Outside

LEMMA LockStep == LockInv /\ [EngineNext]_engineVars => LockInv'
<1> SUFFICES ASSUME LockInv, [EngineNext]_engineVars PROVE LockInv'
  OBVIOUS
<1> USE EngineAssumption DEF LockInv
<1>1. ASSUME NEW p \in Procs, NEW s \in Servers, NEW v \in 1..MaxVersion, Arrive(p, s, v)
      PROVE  LockInv'
  <2>1. Outside(p)
    <3>1. "lookup" \in Places \ Critical /\ Goto(p, "lookup") /\ at[p] \notin Critical
      BY <1>1 DEF Arrive, Places, Critical
    <3> QED
      BY <1>1, <3>1 DEF Arrive, Outside, EngineTypeOK, driverVars
  <2>2. EngineTypeOK'
    <3>1. at' \in [Procs -> Places] /\ req' \in [Procs -> Requests]
      BY <1>1 DEF Arrive, Goto, EngineTypeOK, Places, Requests
    <3> QED
      BY <1>1, <3>1 DEF Arrive, EngineTypeOK, driverVars, breakerVars
  <2>3. at'[p] = "lookup"
    BY <1>1 DEF Arrive, Goto, EngineTypeOK
  <2> QED
    BY <2>1, <2>2, <2>3, OutsideLock DEF UnderLock
<1>2. ASSUME NEW p \in Procs, Lock(p) PROVE LockInv'
  <2> USE <1>2 DEF Lock, Goto, driverVars, breakerVars
  <2>1. EngineTypeOK'
    BY DEF EngineTypeOK, Places, Critical
  <2>2. Exclusive'
    BY DEF EngineTypeOK, Exclusive, Critical
  <2>3. UnderLock'
    BY DEF EngineTypeOK, UnderLock, Hit, Entry
  <2> QED
    BY <2>1, <2>2, <2>3
<1>3. ASSUME NEW p \in Procs, Found(p) \/ NotFound(p) \/ TakePooled(p) \/ Put(p)
      PROVE  LockInv'
  <2>1. /\ at[p] \in Critical /\ locked' = FALSE /\ closing' = closing
        /\ \E place \in {"use", "allow"} : at' = [at EXCEPT ![p] = place]
        /\ UNCHANGED <<config, req, driverVars, stopped, breakerVars>>
    BY <1>3 DEF Found, NotFound, TakePooled, Put, Leave, Goto, Critical
  <2>2. Exclusive'
    BY <2>1 DEF EngineTypeOK, Exclusive, Critical
  <2>3. \A q \in Procs : at'[q] \notin Critical
    BY <2>1 DEF EngineTypeOK, Exclusive, Critical
  <2>4. drv' \in [Procs -> Drivers \cup {NoDriver}]
    BY <1>3 DEF Found, NotFound, TakePooled, Put, EngineTypeOK, UnderLock, Hit, Pooled
  <2>5. DOMAIN items' \in SUBSET Servers /\ items' \in [DOMAIN items' -> Pooled]
    <3>1. CASE Put(p)
      BY <3>1 DEF Put, EngineTypeOK, UnderLock, Requests, Pooled
    <3>2. CASE items' = items
      BY <3>2 DEF EngineTypeOK
    <3> QED
      BY <1>3, <3>1, <3>2 DEF Found, NotFound, TakePooled
  <2>6. EngineTypeOK'
    BY <2>1, <2>4, <2>5 DEF EngineTypeOK, Places, driverVars, breakerVars
  <2>7. UnderLock'
    \* nobody is in a critical section any more; who dialed keeps its driver
    <3> SUFFICES ASSUME NEW q \in Procs, at'[q] \in {"dialed", "install"}
                 PROVE  drv'[q] \in Drivers
      BY <2>3 DEF UnderLock, Critical
    <3>1. q # p /\ at[q] = at'[q]
      BY <2>1 DEF EngineTypeOK
    <3>2. drv'[q] = drv[q]
      BY <1>3, <3>1 DEF Found, NotFound, TakePooled, Put, EngineTypeOK
    <3> QED
      BY <3>1, <3>2 DEF UnderLock
  <2> QED
    BY <2>2, <2>6, <2>7
<1>4. ASSUME NEW p \in Procs,
             Admit(p) \/ Refuse(p) \/ DialFail(p) \/ ReportFail(p) \/ Finish(p)
      PROVE  LockInv'
  <2>1. Outside(p)
    BY <1>4 DEF Admit, Refuse, DialFail, ReportFail, Finish, Creating, Outside, Goto,
                EngineTypeOK, Places, Critical, driverVars
  <2>2. EngineTypeOK'
    <3>1. at' \in [Procs -> Places] /\ drv' \in [Procs -> Drivers \cup {NoDriver}]
      BY <1>4 DEF Admit, Refuse, DialFail, ReportFail, Finish, Creating, Goto,
                  EngineTypeOK, Places
    <3>2. failures' \in Nat /\ open' \in BOOLEAN /\ left' \in -1..Cooldown
      <4>1. CASE ReportFail(p)
        BY <4>1 DEF ReportFail, EngineTypeOK
      <4>2. CASE Admit(p)
        BY <4>2 DEF Admit, EngineTypeOK
      <4>3. CASE UNCHANGED breakerVars
        BY <4>3 DEF EngineTypeOK, breakerVars
      <4> QED
        BY <1>4, <4>1, <4>2, <4>3 DEF Refuse, DialFail, Finish
    <3>3. UNCHANGED <<locked, closing, stopped, items, config, req, born, closed, built>>
      BY <1>4 DEF Admit, Refuse, DialFail, ReportFail, Finish, Creating, driverVars
    <3> QED
      BY <3>1, <3>2, <3>3 DEF EngineTypeOK
  <2>3. at'[p] \in {"dial", "failed", "idle"}
    BY <1>4 DEF Admit, Refuse, DialFail, ReportFail, Finish, Creating, Goto, EngineTypeOK
  <2> QED
    BY <2>1, <2>2, <2>3, OutsideLock DEF UnderLock
<1>5. ASSUME NEW p \in Procs, DialOK(p) PROVE LockInv'
  <2>1. Outside(p)
    BY <1>5 DEF DialOK, Creating, Outside, Goto, EngineTypeOK, Places, Critical
  <2>2. EngineTypeOK'
    BY <1>5 DEF DialOK, Creating, Goto, EngineTypeOK, Places, breakerVars
  <2>3. at'[p] = "dialed" /\ drv'[p] \in Drivers
    BY <1>5 DEF DialOK, Creating, Goto, EngineTypeOK
  <2> QED
    BY <2>1, <2>2, <2>3, OutsideLock DEF UnderLock
<1>6. ASSUME NEW p \in Procs, ReportSuccess(p) PROVE LockInv'
  <2>1. Outside(p)
    BY <1>6 DEF ReportSuccess, Creating, Outside, Goto, EngineTypeOK, Places, Critical,
                driverVars
  <2>2. EngineTypeOK'
    BY <1>6 DEF ReportSuccess, Creating, Goto, EngineTypeOK, Places, driverVars
  <2>3. at'[p] = "install" /\ drv'[p] = drv[p]
    BY <1>6 DEF ReportSuccess, Creating, Goto, EngineTypeOK
  <2> QED
    BY <1>6, <2>1, <2>2, <2>3, OutsideLock DEF UnderLock, ReportSuccess, Creating
<1>7. ASSUME NEW p \in Procs, Lose(p) \/ Win(p) PROVE LockInv'
  <2>1. /\ at[p] = "check"
        /\ \/ Hit(p) /\ closed' = closed \cup {drv[p]} /\ Goto(p, "lost")
           \/ ~Hit(p) /\ closed' = closed \cup Entry(p) /\ Goto(p, "won")
        /\ UNCHANGED <<locked, closing, items, config, req, drv, born, built, stopped,
                       breakerVars>>
    BY <1>7 DEF Lose, Win
  <2>2. drv[p] \in Drivers /\ Entry(p) \subseteq Drivers
    BY <2>1 DEF UnderLock, EngineTypeOK, Entry, Pooled
  <2>3. EngineTypeOK'
    BY <2>1, <2>2 DEF Goto, EngineTypeOK, Places, Critical, breakerVars
  <2>4. Exclusive'
    BY <2>1 DEF Goto, EngineTypeOK, Exclusive, Critical
  <2>5. \A q \in Procs : Hit(q)' = Hit(q) /\ Entry(q)' = Entry(q)
    BY <2>1 DEF Hit, Entry
  <2>6. UnderLock'
    BY <2>1, <2>2, <2>5 DEF Goto, EngineTypeOK, UnderLock
  <2> QED
    BY <2>3, <2>4, <2>6
<1>8. ASSUME NEW s \in Servers, Reconfigure(s) PROVE LockInv'
  <2> USE <1>8 DEF Reconfigure, lockVars, driverVars, breakerVars
  <2>1. EngineTypeOK'
    BY DEF EngineTypeOK
  <2>2. Exclusive' /\ UnderLock'
    BY DEF Exclusive, UnderLock, Hit, Entry
  <2> QED
    BY <2>1, <2>2
<1>9. CASE Tick
  <2> USE <1>9 DEF Tick, lockVars, driverVars
  <2>1. EngineTypeOK'
    BY DEF EngineTypeOK
  <2>2. Exclusive' /\ UnderLock'
    BY DEF Exclusive, UnderLock, Hit, Entry
  <2> QED
    BY <2>1, <2>2
<1>10. CASE CloseBegin \/ CloseEnd
  <2>1. EngineTypeOK'
    BY <1>10 DEF CloseBegin, CloseEnd, driverVars, breakerVars, EngineTypeOK
  <2>2. Exclusive'
    BY <1>10 DEF CloseBegin, CloseEnd, Exclusive
  <2>3. UnderLock'
    BY <1>10 DEF CloseBegin, CloseEnd, driverVars, UnderLock, Hit, Entry
  <2> QED
    BY <2>1, <2>2, <2>3
<1>11. ASSUME NEW s \in Servers, CloseItem(s) PROVE LockInv'
  <2> USE <1>11 DEF CloseItem, lockVars
  <2>1. EngineTypeOK'
    BY DEF EngineTypeOK, Pooled, breakerVars
  <2>2. Exclusive'
    BY DEF Exclusive
  <2>3. UnderLock'
    \* Close runs alone, so nobody has looked at what it removes
    <3>1. \A q \in Procs : at[q] \notin Critical
      BY DEF Exclusive
    <3> QED
      BY <3>1 DEF UnderLock, Critical
  <2> QED
    BY <2>1, <2>2, <2>3
<1>12. CASE UNCHANGED engineVars
  <2> USE <1>12 DEF engineVars, lockVars, driverVars, breakerVars
  <2>1. EngineTypeOK'
    BY DEF EngineTypeOK
  <2>2. Exclusive' /\ UnderLock'
    BY DEF Exclusive, UnderLock, Hit, Entry
  <2> QED
    BY <2>1, <2>2
<1> QED
  BY <1>1, <1>2, <1>3, <1>4, <1>5, <1>6, <1>7, <1>8, <1>9, <1>10, <1>11, <1>12
  DEF EngineNext, DriverFor, Proceed

LEMMA LockInvariant == EngineSpec => []LockInv
BY LockInit, LockStep, PTL DEF EngineSpec

\* Every variable of the engine keeps its type: a failed or refused dial never
\* leaves half a driver with the request, in the pool or in the breaker.
THEOREM EngineTypeCorrect == EngineSpec => []EngineTypeOK
<1>1. LockInv => EngineTypeOK
  BY DEF LockInv
<1> QED
  BY <1>1, LockInvariant, PTL

\* The mutex excludes and is released on every path out of Get and Close
\* (driver_pool.go:38-43, 52-72).
THEOREM MutexExcludes == EngineSpec => []Exclusive
<1>1. LockInv => Exclusive
  BY DEF LockInv
<1> QED
  BY <1>1, LockInvariant, PTL

(***************************************************************************)
(* The pool.  Proofs are DriverPool's own, on the pool the engine shows.   *)
(***************************************************************************)

Proofs == INSTANCE DriverPoolProofs WITH
    pc <- PoolPc, items <- PoolItems, drv <- PoolDrv, closed <- PoolClosed

LEMMA PoolInvInit == Proofs!Init => Proofs!IInv
BY Proofs!InitIInv, EngineAssumption DEF IsFiniteSet, Proofs!IsFiniteSet

LEMMA PoolInvStep == Proofs!IInv /\ [Proofs!Next]_(Proofs!poolVars) => Proofs!IInv'
BY Proofs!StepIInv, EngineAssumption DEF IsFiniteSet, Proofs!IsFiniteSet

\* Both instances are of the same specification.
LEMMA SamePool ==
    /\ Pool!Init <=> Proofs!Init
    /\ [Pool!Next]_(Pool!poolVars) <=> [Proofs!Next]_(Proofs!poolVars)
<1>1. Pool!Init <=> Proofs!Init
  BY DEF Pool!Init, Proofs!Init, Pool!Requests, Proofs!Requests, Pool!AnyRequest,
         Proofs!AnyRequest, Pool!Versions, Proofs!Versions
<1>2. Pool!poolVars = Proofs!poolVars /\ (Pool!poolVars)' = (Proofs!poolVars)'
  BY DEF Pool!poolVars, Proofs!poolVars
<1>3. \A p \in Procs : Pool!Get(p) <=> Proofs!Get(p)
  BY DEF Pool!Get, Proofs!Get, Pool!LookupHit, Proofs!LookupHit, Pool!LookupMiss,
         Proofs!LookupMiss, Pool!CreateErr, Proofs!CreateErr, Pool!CreateOK,
         Proofs!CreateOK, Pool!InstallLose, Proofs!InstallLose, Pool!InstallWin,
         Proofs!InstallWin, Pool!Hit, Proofs!Hit
<1>4. \A p \in Procs : Pool!Finish(p) <=> Proofs!Finish(p)
  BY DEF Pool!Finish, Proofs!Finish
<1>5. /\ \A s \in Servers : Pool!Reconfigure(s) <=> Proofs!Reconfigure(s)
      /\ \A p \in Procs, s \in Servers, v \in 1..MaxVersion :
            Pool!Begin(p, s, v) <=> Proofs!Begin(p, s, v)
  BY DEF Pool!Reconfigure, Proofs!Reconfigure, Pool!Begin, Proofs!Begin
<1>6. Pool!Close <=> Proofs!Close
  BY DEF Pool!Close, Proofs!Close, Pool!AnyRequest, Proofs!AnyRequest, Pool!Requests,
         Proofs!Requests, Pool!Versions, Proofs!Versions
<1>7. Pool!Next <=> Proofs!Next
  BY <1>3, <1>4, <1>5, <1>6 DEF Pool!Next, Proofs!Next, Pool!Versions, Proofs!Versions
<1> QED
  BY <1>1, <1>2, <1>7

\* Where the pool sees a request, by its place.
LEMMA PoolPlaces ==
    /\ PoolPlace("idle") = "idle" /\ PoolPlace("use") = "use" /\ PoolPlace("lost") = "use"
    /\ PoolPlace("lookup") = "lookup" /\ PoolPlace("find") = "lookup"
    /\ PoolPlace("allow") = "create" /\ PoolPlace("dial") = "create"
    /\ PoolPlace("failed") = "create"
    /\ PoolPlace("dialed") = "install" /\ PoolPlace("install") = "install"
    /\ PoolPlace("check") = "install" /\ PoolPlace("won") = "install"
BY DEF PoolPlace

LEMMA PoolMove ==
    ASSUME EngineTypeOK, NEW p \in Procs, NEW place \in Places, Goto(p, place)
    PROVE  PoolPc' = [PoolPc EXCEPT ![p] = PoolPlace(place)]
BY DEF EngineTypeOK, Goto, PoolPc

\* A step outside the critical sections shows the pool the driver of the request
\* that takes it and nothing else.
LEMMA PoolOutside ==
    ASSUME LockInv, NEW p \in Procs, Outside(p)
    PROVE  /\ PoolItems' = PoolItems /\ PoolClosed' = PoolClosed
           /\ PoolDrv' = [PoolDrv EXCEPT ![p] = drv'[p]] /\ PoolDrv[p] = drv[p]
<1> USE DEF LockInv, EngineTypeOK
<1>1. /\ at[p] \notin {"lost", "won"} /\ at'[p] \notin {"lost", "won"}
      /\ \A q \in Procs \ {p} : at'[q] = at[q] /\ req'[q] = req[q] /\ drv'[q] = drv[q]
      /\ UNCHANGED <<items, closing, closed>>
  BY DEF Outside, Goto, Critical, Places
<1>2. PoolItems' = PoolItems
  BY <1>1 DEF PoolItems
<1>3. UNCHANGED {Entry(q) : q \in Replacing}
  <2>1. Replacing' = Replacing /\ p \notin Replacing
    BY <1>1 DEF Replacing
  <2>2. \A q \in Procs \ {p} : Entry(q)' = Entry(q)
    BY <1>1 DEF Entry
  <2> QED
    BY <2>1, <2>2 DEF Replacing
<1>4. PoolClosed' = PoolClosed
  <2>1. ItemDrivers' = ItemDrivers
    BY <1>1 DEF ItemDrivers
  <2> QED
    BY <1>1, <1>3, <2>1 DEF PoolClosed
<1>5. PoolDrv' = [PoolDrv EXCEPT ![p] = drv'[p]] /\ PoolDrv[p] = drv[p]
  BY <1>1 DEF PoolDrv
<1> QED
  BY <1>2, <1>4, <1>5

\* Before a critical section has changed anything, and without one, the pool is
\* what the engine's variables say.
Plain == ~closing /\ \A q \in Procs : at[q] \notin {"lost", "won"}

LEMMA PoolPlain ==
    ASSUME EngineTypeOK, Plain
    PROVE  PoolItems = items /\ PoolDrv = drv /\ PoolClosed = closed
<1>1. Replacing = {}
  BY DEF Plain, Replacing
<1> QED
  BY <1>1 DEF EngineTypeOK, Plain, PoolItems, PoolDrv, PoolClosed

LEMMA PoolPlainNext ==
    ASSUME EngineTypeOK', Plain'
    PROVE  PoolItems' = items' /\ PoolDrv' = drv' /\ PoolClosed' = closed'
<1>1. Replacing' = {}
  BY DEF Plain, Replacing
<1> QED
  BY <1>1 DEF EngineTypeOK, Plain, PoolItems, PoolDrv, PoolClosed

\* A request inside is alone there.
LEMMA Alone ==
    ASSUME LockInv, NEW p \in Procs, at[p] \in Critical
    PROVE  ~closing /\ \A q \in Procs \ {p} : at[q] \notin Critical
BY DEF LockInv, EngineTypeOK, Exclusive

LEMMA PoolHit ==
    ASSUME NEW p \in Procs, ~closing
    PROVE  Pool!Hit(p) <=> Hit(p)
BY DEF Pool!Hit, Hit, PoolItems

LEMMA PoolSame ==
    ASSUME UNCHANGED <<at, closing, items, req, drv, closed>>
    PROVE  UNCHANGED <<PoolPc, PoolItems, PoolDrv, PoolClosed>>
<1>1. UNCHANGED <<ItemDrivers, {Entry(q) : q \in Replacing}>>
  BY DEF ItemDrivers, Entry, Replacing
<1> QED
  BY <1>1 DEF PoolPc, PoolItems, PoolDrv, PoolClosed

\* One step of the engine is one step of the pool, or none.
LEMMA PoolStep ==
    ASSUME LockInv, LockInv', Proofs!IInv, [EngineNext]_engineVars
    PROVE  [Pool!Next]_(Pool!poolVars)
<1> USE DEF LockInv
<1>1. ASSUME NEW p \in Procs, NEW s \in Servers, NEW v \in 1..MaxVersion, Arrive(p, s, v)
      PROVE  Pool!Next
  <2>1. Outside(p)
    <3>1. "lookup" \in Places \ Critical /\ Goto(p, "lookup") /\ at[p] \notin Critical
      BY <1>1 DEF Arrive, Places, Critical
    <3> QED
      BY <1>1, <3>1 DEF Arrive, Outside, EngineTypeOK, driverVars
  <2>2. PoolPc' = [PoolPc EXCEPT ![p] = "lookup"] /\ PoolPc[p] = "idle"
    BY <1>1, PoolMove, PoolPlaces DEF Arrive, Places, PoolPc
  <2>3. PoolDrv' = PoolDrv
    BY <1>1, <2>1, PoolOutside DEF Arrive, EngineTypeOK, PoolDrv
  <2>4. Pool!Begin(p, s, v)
    BY <1>1, <2>1, <2>2, <2>3, PoolOutside DEF Arrive, Pool!Begin, driverVars
  <2> QED
    BY <2>4 DEF Pool!Next, Pool!Versions
<1>2. ASSUME NEW p \in Procs, Lock(p) PROVE UNCHANGED Pool!poolVars
  <2>1. PoolPc' = PoolPc
    BY <1>2, PoolPlaces DEF Lock, Goto, EngineTypeOK, PoolPc
  <2>2. Plain /\ Plain'
    BY <1>2 DEF Lock, Goto, EngineTypeOK, Exclusive, Plain, Critical
  <2>3. UNCHANGED <<PoolItems, PoolDrv, PoolClosed>>
    BY <1>2, <2>2, PoolPlain DEF Lock, EngineTypeOK, Plain, PoolItems, PoolDrv, PoolClosed,
       Replacing, driverVars
  <2> QED
    BY <1>2, <2>1, <2>3 DEF Lock, Pool!poolVars, driverVars
<1>3. ASSUME NEW p \in Procs, Admit(p) \/ DialFail(p) PROVE UNCHANGED Pool!poolVars
  <2>1. PICK place \in {"dial", "failed"} : Goto(p, place) /\ at[p] \in {"allow", "dial"}
    BY <1>3 DEF Admit, DialFail, Creating
  <2>2. place \in Places \ Critical /\ at[p] \notin Critical
    BY <2>1 DEF Places, Critical
  <2>3. UNCHANGED <<locked, closing, items, config, req, stopped, drv, born, closed, built>>
    BY <1>3 DEF Admit, DialFail, Creating, driverVars
  <2>4. Outside(p)
    BY <2>1, <2>2, <2>3 DEF Outside
  <2>5. PoolPc' = PoolPc
    <3>1. PoolPlace(place) = PoolPlace(at[p])
      BY <2>1, PoolPlaces
    <3> QED
      BY <2>1, <2>2, <3>1, PoolMove DEF PoolPc
  <2>6. PoolDrv' = PoolDrv
    BY <2>3, <2>4, PoolOutside DEF PoolDrv
  <2> QED
    BY <2>3, <2>4, <2>5, <2>6, PoolOutside DEF Pool!poolVars
<1>4. ASSUME NEW p \in Procs, Refuse(p) \/ ReportFail(p) PROVE Pool!CreateErr(p)
  <2>1. Goto(p, "idle") /\ at[p] \in {"allow", "failed"}
    BY <1>4 DEF Refuse, ReportFail, Creating
  <2>2. "idle" \in Places \ Critical /\ at[p] \notin Critical
    BY <2>1 DEF Places, Critical
  <2>3. UNCHANGED <<locked, closing, items, config, req, stopped, drv, born, closed, built>>
    BY <1>4 DEF Refuse, ReportFail, Creating, driverVars
  <2>4. Outside(p)
    BY <2>1, <2>2, <2>3 DEF Outside
  <2>5. PoolPc' = [PoolPc EXCEPT ![p] = "idle"] /\ PoolPc[p] = "create"
    BY <2>1, <2>2, PoolMove, PoolPlaces DEF PoolPc
  <2>6. PoolDrv' = PoolDrv
    BY <2>3, <2>4, PoolOutside DEF PoolDrv
  <2> QED
    BY <2>3, <2>4, <2>5, <2>6, PoolOutside DEF Pool!CreateErr
<1>5. ASSUME NEW p \in Procs, DialOK(p) PROVE Pool!CreateOK(p)
  <2>1. Goto(p, "dialed") /\ at[p] = "dial"
    BY <1>5 DEF DialOK, Creating
  <2>2. "dialed" \in Places \ Critical /\ at[p] \notin Critical
    BY <2>1 DEF Places, Critical
  <2>3. PICK d \in Drivers \ born :
          /\ born' = born \cup {d} /\ built' = [built EXCEPT ![d] = req[p]]
          /\ drv' = [drv EXCEPT ![p] = d]
    BY <1>5 DEF DialOK
  <2>4. UNCHANGED <<locked, closing, items, config, req, stopped, closed>>
    BY <1>5 DEF DialOK, Creating
  <2>5. Outside(p)
    BY <2>1, <2>2, <2>3, <2>4 DEF Outside, EngineTypeOK
  <2>6. PoolPc' = [PoolPc EXCEPT ![p] = "install"] /\ PoolPc[p] = "create"
    BY <2>1, <2>2, PoolMove, PoolPlaces DEF PoolPc
  <2>7. PoolDrv' = [PoolDrv EXCEPT ![p] = d]
    BY <2>3, <2>5, PoolOutside DEF EngineTypeOK
  <2> QED
    BY <2>3, <2>4, <2>5, <2>6, <2>7, PoolOutside DEF Pool!CreateOK
<1>6. ASSUME NEW p \in Procs, ReportSuccess(p) PROVE UNCHANGED Pool!poolVars
  <2>1. Goto(p, "install") /\ at[p] = "dialed"
    BY <1>6 DEF ReportSuccess, Creating
  <2>2. "install" \in Places \ Critical /\ at[p] \notin Critical
    BY <2>1 DEF Places, Critical
  <2>3. UNCHANGED <<locked, closing, items, config, req, stopped, drv, born, closed, built>>
    BY <1>6 DEF ReportSuccess, Creating, driverVars
  <2>4. Outside(p)
    BY <2>1, <2>2, <2>3 DEF Outside
  <2>5. PoolPc' = PoolPc
    <3>1. PoolPlace("install") = PoolPlace(at[p])
      BY <2>1, PoolPlaces
    <3> QED
      BY <2>1, <2>2, <3>1, PoolMove DEF PoolPc
  <2>6. PoolDrv' = PoolDrv
    BY <2>3, <2>4, PoolOutside DEF PoolDrv
  <2> QED
    BY <2>3, <2>4, <2>5, <2>6, PoolOutside DEF Pool!poolVars
<1>7. ASSUME NEW p \in Procs, Finish(p) PROVE Pool!Finish(p)
  <2>1. Goto(p, "idle") /\ at[p] = "use" /\ drv' = [drv EXCEPT ![p] = NoDriver]
    BY <1>7 DEF Finish
  <2>2. "idle" \in Places \ Critical /\ at[p] \notin Critical
    BY <2>1 DEF Places, Critical
  <2>3. UNCHANGED <<locked, closing, items, config, req, stopped, born, closed, built>>
    BY <1>7 DEF Finish, driverVars
  <2>4. Outside(p)
    BY <2>1, <2>2, <2>3 DEF Outside, EngineTypeOK
  <2>5. PoolPc' = [PoolPc EXCEPT ![p] = "idle"] /\ PoolPc[p] = "use"
    BY <2>1, <2>2, PoolMove, PoolPlaces DEF PoolPc
  <2>6. PoolDrv' = [PoolDrv EXCEPT ![p] = NoDriver]
    BY <2>1, <2>4, PoolOutside DEF EngineTypeOK
  <2> QED
    BY <2>3, <2>4, <2>5, <2>6, PoolOutside DEF Pool!Finish
<1>8. ASSUME NEW p \in Procs, Found(p) PROVE Pool!LookupHit(p)
  <2>1. /\ at[p] = "find" /\ Goto(p, "use")
        /\ UNCHANGED <<closing, items, config, req, born, closed, built, stopped>>
    BY <1>8 DEF Found, Leave, driverVars
  <2>2. Plain /\ Plain'
    BY <2>1, Alone DEF Goto, EngineTypeOK, Plain, Critical
  <2>3. PoolPc' = [PoolPc EXCEPT ![p] = "use"] /\ PoolPc[p] = "lookup"
    BY <2>1, PoolMove, PoolPlaces DEF PoolPc, Places
  <2>4. PoolItems = items /\ PoolDrv = drv /\ PoolClosed = closed
    BY <2>2, PoolPlain
  <2>5. PoolItems' = items' /\ PoolDrv' = drv' /\ PoolClosed' = closed'
    BY <2>2, PoolPlainNext
  <2>6. Pool!Hit(p) /\ drv' = [drv EXCEPT ![p] = items[req[p].srv].drv]
    BY <1>8, <2>2, PoolHit DEF Found, Plain
  <2> QED
    BY <2>1, <2>3, <2>4, <2>5, <2>6 DEF Pool!LookupHit
<1>9. ASSUME NEW p \in Procs, NotFound(p) PROVE Pool!LookupMiss(p)
  <2>1. /\ at[p] = "find" /\ Goto(p, "allow")
        /\ UNCHANGED <<closing, items, config, req, drv, born, closed, built, stopped>>
    BY <1>9 DEF NotFound, Leave, driverVars
  <2>2. Plain /\ Plain'
    BY <2>1, Alone DEF Goto, EngineTypeOK, Plain, Critical
  <2>3. PoolPc' = [PoolPc EXCEPT ![p] = "create"] /\ PoolPc[p] = "lookup"
    BY <2>1, PoolMove, PoolPlaces DEF PoolPc, Places
  <2>4. PoolItems = items /\ PoolDrv = drv /\ PoolClosed = closed
    BY <2>2, PoolPlain
  <2>5. PoolItems' = items' /\ PoolDrv' = drv' /\ PoolClosed' = closed'
    BY <2>2, PoolPlainNext
  <2>6. ~Pool!Hit(p)
    BY <1>9, <2>2, PoolHit DEF NotFound, Plain
  <2> QED
    BY <2>1, <2>3, <2>4, <2>5, <2>6 DEF Pool!LookupMiss
<1>10. ASSUME NEW p \in Procs, Lose(p) PROVE Pool!InstallLose(p)
  <2>1. /\ at[p] = "check" /\ Hit(p) /\ Goto(p, "lost") /\ closed' = closed \cup {drv[p]}
        /\ UNCHANGED <<closing, items, config, req, drv, born, built, stopped>>
    BY <1>10 DEF Lose
  <2>2. ~closing /\ \A q \in Procs \ {p} : at[q] \notin Critical
    BY <2>1, Alone DEF Critical
  <2>3. Plain
    BY <2>1, <2>2 DEF Plain, Critical
  <2>4. PoolItems = items /\ PoolDrv = drv /\ PoolClosed = closed
    BY <2>3, PoolPlain
  <2>5. PoolPc' = [PoolPc EXCEPT ![p] = "use"] /\ PoolPc[p] = "install"
    <3>1. "lost" \in Places
      BY DEF Places, Critical
    <3> QED
      BY <2>1, <3>1, PoolMove, PoolPlaces DEF PoolPc
  <2>6. PoolItems' = items /\ PoolClosed' = closed'
    <3>1. Replacing' = {}
      BY <2>1, <2>2 DEF Replacing, Goto, EngineTypeOK, Critical
    <3> QED
      BY <2>1, <2>2, <3>1 DEF PoolItems, PoolClosed
  <2>7. PoolDrv' = [drv EXCEPT ![p] = items[req[p].srv].drv]
    BY <2>1, <2>2 DEF PoolDrv, Goto, EngineTypeOK, Critical
  <2>8. Pool!Hit(p)
    BY <2>1, <2>2, PoolHit
  <2> QED
    BY <2>1, <2>4, <2>5, <2>6, <2>7, <2>8 DEF Pool!InstallLose
<1>11. ASSUME NEW p \in Procs, TakePooled(p) PROVE UNCHANGED Pool!poolVars
  <2>1. /\ at[p] = "lost" /\ Goto(p, "use")
        /\ drv' = [drv EXCEPT ![p] = items[req[p].srv].drv]
        /\ UNCHANGED <<closing, items, config, req, born, closed, built, stopped>>
    BY <1>11 DEF TakePooled, Leave, driverVars
  <2>2. ~closing /\ \A q \in Procs \ {p} : at[q] \notin Critical
    BY <2>1, Alone DEF Critical
  <2>3. Plain'
    BY <2>1, <2>2 DEF Plain, Goto, EngineTypeOK, Critical
  <2>4. PoolItems' = items /\ PoolDrv' = drv' /\ PoolClosed' = closed
    BY <2>1, <2>3, PoolPlainNext
  <2>5. PoolPc' = PoolPc
    <3>1. PoolPlace("use") = PoolPlace(at[p])
      BY <2>1, PoolPlaces
    <3> QED
      BY <2>1, <3>1, PoolMove DEF PoolPc, Places
  <2>6. PoolItems = items /\ PoolClosed = closed
    <3>1. Replacing = {}
      BY <2>1, <2>2 DEF Replacing, Critical
    <3> QED
      BY <2>2, <3>1 DEF PoolItems, PoolClosed
  <2>7. PoolDrv = drv'
    BY <2>1, <2>2 DEF PoolDrv, EngineTypeOK, Critical
  <2> QED
    BY <2>1, <2>4, <2>5, <2>6, <2>7 DEF Pool!poolVars
<1>12. ASSUME NEW p \in Procs, Win(p) PROVE UNCHANGED Pool!poolVars
  <2>1. /\ at[p] = "check" /\ ~Hit(p) /\ Goto(p, "won") /\ closed' = closed \cup Entry(p)
        /\ UNCHANGED <<closing, items, config, req, drv, born, built, stopped>>
    BY <1>12 DEF Win
  <2>2. ~closing /\ \A q \in Procs \ {p} : at[q] \notin Critical
    BY <2>1, Alone DEF Critical
  <2>3. Plain
    BY <2>1, <2>2 DEF Plain, Critical
  <2>4. PoolItems = items /\ PoolDrv = drv /\ PoolClosed = closed
    BY <2>3, PoolPlain
  <2>5. PoolPc' = PoolPc
    <3>1. PoolPlace("won") = PoolPlace(at[p])
      BY <2>1, PoolPlaces
    <3> QED
      BY <2>1, <3>1, PoolMove DEF PoolPc, Places, Critical
  <2>6. Entry(p) \cap closed = {}
    \* what is pooled is open until its replacement closes it
    <3>1. \A s \in DOMAIN items : items[s].drv \notin closed
      BY <2>4 DEF Proofs!IInv, Proofs!PooledIsOpen
    <3> QED
      BY <3>1 DEF Entry
  <2>7. PoolItems' = items /\ PoolDrv' = drv
    BY <2>1, <2>2 DEF PoolItems, PoolDrv, Goto, EngineTypeOK, Critical
  <2>8. PoolClosed' = closed
    <3>1. Replacing' = {p} /\ Entry(p)' = Entry(p)
      BY <2>1, <2>2 DEF Replacing, Goto, EngineTypeOK, Critical, Entry
    <3>2. UNION {Entry(q) : q \in Replacing}' = Entry(p)
      BY <3>1
    <3> QED
      BY <2>1, <2>2, <2>6, <3>2 DEF PoolClosed
  <2> QED
    BY <2>1, <2>4, <2>5, <2>7, <2>8 DEF Pool!poolVars
<1>13. ASSUME NEW p \in Procs, Put(p) PROVE Pool!InstallWin(p)
  <2> DEFINE s == req[p].srv
  <2>1. /\ at[p] = "won" /\ Goto(p, "use")
        /\ items' = [t \in DOMAIN items \cup {s} |->
                        IF t = s THEN [version |-> req[p].version, drv |-> drv[p]]
                        ELSE items[t]]
        /\ UNCHANGED <<closing, config, req, drv, born, closed, built, stopped>>
    BY <1>13 DEF Put, Leave, driverVars
  <2>2. ~closing /\ \A q \in Procs \ {p} : at[q] \notin Critical
    BY <2>1, Alone DEF Critical
  <2>3. Plain'
    BY <2>1, <2>2 DEF Plain, Goto, EngineTypeOK, Critical
  <2>4. PoolItems' = items' /\ PoolDrv' = drv /\ PoolClosed' = closed
    BY <2>1, <2>3, PoolPlainNext
  <2>5. PoolPc' = [PoolPc EXCEPT ![p] = "use"] /\ PoolPc[p] = "install"
    BY <2>1, PoolMove, PoolPlaces DEF PoolPc, Places
  <2>6. PoolItems = items /\ PoolDrv = drv
    BY <2>1, <2>2 DEF PoolItems, PoolDrv, EngineTypeOK, Critical
  <2>7. ~Pool!Hit(p)
    BY <2>1, <2>2, PoolHit DEF UnderLock
  <2>8. PoolClosed' = PoolClosed \cup {items[t].drv : t \in {s} \cap DOMAIN items}
    <3>1. Replacing = {p}
      BY <2>1, <2>2 DEF Replacing, Critical
    <3>2. PoolClosed = closed \ Entry(p)
      BY <2>2, <3>1 DEF PoolClosed
    <3>3. Entry(p) \subseteq closed
      BY <2>1 DEF UnderLock
    <3> QED
      BY <2>4, <3>2, <3>3 DEF Entry
  <2> QED
    BY <2>1, <2>4, <2>5, <2>6, <2>7, <2>8 DEF Pool!InstallWin
<1>14. ASSUME NEW s \in Servers, Reconfigure(s) PROVE Pool!Reconfigure(s)
  BY <1>14, PoolSame DEF Reconfigure, lockVars, driverVars, Pool!Reconfigure
<1>15. CASE Tick
  BY <1>15, PoolSame DEF Tick, lockVars, driverVars, Pool!poolVars
<1>16. CASE CloseBegin
  <2>1. ~locked /\ ~stopped /\ stopped' = TRUE /\ closing' = TRUE
        /\ UNCHANGED <<at, items, config, req, drv, born, closed, built>>
    BY <1>16 DEF CloseBegin, driverVars
  <2>2. Plain
    BY <2>1 DEF Exclusive, Plain, Critical
  <2>3. PoolItems = items /\ PoolDrv = drv /\ PoolClosed = closed
    BY <2>2, PoolPlain
  <2>4. PoolItems' = NoItems /\ PoolClosed' = closed \cup ItemDrivers
    BY <2>1 DEF PoolItems, PoolClosed, ItemDrivers
  <2>5. PoolPc' = PoolPc /\ PoolDrv' = PoolDrv
    BY <2>1 DEF PoolPc, PoolDrv
  <2>6. NoItems = [t \in {} |-> Pool!AnyRequest]
    BY DEF NoItems
  <2>7. PoolItems' = [t \in {} |-> Pool!AnyRequest]
    BY <2>4, <2>6
  <2>8. PoolClosed' = PoolClosed \cup {PoolItems[s].drv : s \in DOMAIN PoolItems}
    BY <2>3, <2>4 DEF ItemDrivers
  <2> QED
    BY <2>1, <2>5, <2>7, <2>8 DEF Pool!Close, Pool!Next
<1>17. ASSUME NEW s \in Servers, CloseItem(s) PROVE UNCHANGED Pool!poolVars
  <2>1. /\ closing /\ closing' /\ s \in DOMAIN items /\ closed' = closed \cup {items[s].drv}
        /\ items' = [t \in DOMAIN items \ {s} |-> items[t]]
        /\ UNCHANGED <<at, config, req, drv, born, built, stopped>>
    BY <1>17 DEF CloseItem, lockVars
  <2>2. PoolPc' = PoolPc /\ PoolItems' = PoolItems
    BY <2>1 DEF PoolPc, PoolItems
  <2>3. PoolDrv' = PoolDrv
    <3>1. \A q \in Procs : at[q] # "lost"
      BY <2>1 DEF Exclusive, Critical
    <3> QED
      BY <2>1, <3>1 DEF PoolDrv
  <2>4. PoolClosed' = PoolClosed
    <3>1. ItemDrivers = ItemDrivers' \cup {items[s].drv}
      BY <2>1 DEF ItemDrivers
    <3> QED
      BY <2>1, <3>1 DEF PoolClosed
  <2> QED
    BY <2>1, <2>2, <2>3, <2>4 DEF Pool!poolVars
<1>18. CASE CloseEnd
  <2>1. /\ closing /\ ~closing' /\ DOMAIN items = {}
        /\ UNCHANGED <<at, items, config, req, drv, born, closed, built, stopped>>
    BY <1>18 DEF CloseEnd, driverVars
  <2>2. Plain'
    BY <2>1 DEF Exclusive, Plain, Critical
  <2>3. PoolItems' = items /\ PoolDrv' = drv /\ PoolClosed' = closed
    BY <2>1, <2>2, PoolPlainNext
  <2>4. PoolItems = items
    BY <2>1 DEF PoolItems, NoItems, EngineTypeOK
  <2>5. PoolClosed = closed
    BY <2>1 DEF PoolClosed, ItemDrivers
  <2>6. PoolPc' = PoolPc /\ PoolDrv' = PoolDrv
    BY <2>1 DEF PoolPc, PoolDrv
  <2> QED
    BY <2>1, <2>3, <2>4, <2>5, <2>6 DEF Pool!poolVars
<1>19. CASE UNCHANGED engineVars
  BY <1>19, PoolSame DEF engineVars, lockVars, driverVars, Pool!poolVars
<1>20. ASSUME NEW p \in Procs, Proceed(p) PROVE [Pool!Next]_(Pool!poolVars)
  BY <1>20, <1>3, <1>4, <1>5, <1>6, <1>7, <1>8, <1>9, <1>10, <1>11, <1>13
  DEF Proceed, Pool!Next, Pool!Get
<1>21. ASSUME NEW p \in Procs, DriverFor(p) PROVE [Pool!Next]_(Pool!poolVars)
  BY <1>21, <1>2, <1>12, <1>20 DEF DriverFor
<1> QED
  BY <1>1, <1>14, <1>15, <1>16, <1>17, <1>18, <1>19, <1>21 DEF EngineNext, Pool!Next

LEMMA PoolInit == EngineInit => Pool!Init
<1> SUFFICES ASSUME EngineInit PROVE Pool!Init
  OBVIOUS
<1>1. Plain
  BY DEF EngineInit, Plain
<1>2. PoolItems = items /\ PoolDrv = drv /\ PoolClosed = closed
  BY <1>1, LockInit, PoolPlain DEF LockInv
<1>3. PoolPc = [p \in Procs |-> "idle"]
  BY PoolPlaces DEF EngineInit, PoolPc
<1> QED
  BY <1>2, <1>3 DEF EngineInit, Pool!Init, NoItems, AnyRequest, Pool!AnyRequest, Requests,
     Pool!Requests, Pool!Versions

\* The critical sections of driver_pool.go are as good as single steps: the
\* pool inside DriverFor behaves as DriverPool, under any interleaving.
THEOREM EngineImplementsPool == EngineSpec => PoolBehaviour
<1>1. EngineInit => LockInv /\ Proofs!Init /\ Proofs!IInv
  BY LockInit, PoolInit, SamePool, PoolInvInit
<1>2. LockInv /\ Proofs!IInv /\ [EngineNext]_engineVars =>
        LockInv' /\ Proofs!IInv' /\ [Pool!Next]_(Pool!poolVars)
  BY LockStep, PoolStep, SamePool, PoolInvStep
<1> QED
  BY <1>1, <1>2, PoolInit, PTL DEF EngineSpec, PoolBehaviour, Pool!Spec

\* Whatever the mutex, dials, the breaker and waiting Closes do, the engine
\* leaks no connection.
THEOREM EngineNeverLeaks == EngineSpec => []Pool!NoLeak
<1>1. EngineInit => Proofs!IInv /\ LockInv
  BY LockInit, PoolInit, SamePool, PoolInvInit
<1>2. LockInv /\ Proofs!IInv /\ [EngineNext]_engineVars => LockInv' /\ Proofs!IInv'
  BY LockStep, PoolStep, SamePool, PoolInvStep
<1>3. Proofs!IInv => Pool!NoLeak
  BY DEF Proofs!IInv, Proofs!NoLeak, Pool!NoLeak, Proofs!Holding, Pool!Holding,
         Proofs!IsPooled, Pool!IsPooled
<1> QED
  BY <1>1, <1>2, <1>3, PTL DEF EngineSpec

-----------------------------------------------------------------------------
(***************************************************************************)
(* The breaker                                                             *)
(***************************************************************************)

LEMMA Calls ==
    /\ CallOf("allow") = "asking"
    /\ \A place \in {"dial", "failed", "dialed"} : CallOf(place) = "dialing"
    /\ \A place \in {"idle", "lookup", "find", "install", "check", "lost", "won", "use"} :
            CallOf(place) = "idle"
BY DEF CallOf

LEMMA CallMove ==
    ASSUME EngineTypeOK, NEW p \in Procs, NEW place, Goto(p, place)
    PROVE  BrkCall' = [BrkCall EXCEPT ![p] = CallOf(place)]
BY DEF EngineTypeOK, Goto, BrkCall

LEMMA BreakerStep ==
    ASSUME EngineTypeOK, [EngineNext]_engineVars
    PROVE  [Brk!BreakerNext]_(Brk!breakerVars)
<1>1. ASSUME NEW p \in Procs, NotFound(p) PROVE Brk!Ask(p)
  <2>1. BrkCall[p] = "idle" /\ BrkCall' = [BrkCall EXCEPT ![p] = "asking"]
    BY <1>1, Calls, CallMove DEF NotFound, Leave, BrkCall
  <2> QED
    BY <1>1, <2>1 DEF NotFound, Leave, breakerVars, Brk!Ask
<1>2. ASSUME NEW p \in Procs, Admit(p) PROVE Brk!AllowGrant(p)
  <2>1. BrkCall[p] = "asking" /\ BrkCall' = [BrkCall EXCEPT ![p] = "dialing"]
    BY <1>2, Calls, CallMove DEF Admit, Creating, BrkCall
  <2> QED
    BY <1>2, <2>1 DEF Admit, Brk!AllowGrant
<1>3. ASSUME NEW p \in Procs, Refuse(p) PROVE Brk!AllowDeny(p)
  <2>1. BrkCall[p] = "asking" /\ BrkCall' = [BrkCall EXCEPT ![p] = "idle"]
    BY <1>3, Calls, CallMove DEF Refuse, Creating, BrkCall
  <2> QED
    BY <1>3, <2>1 DEF Refuse, breakerVars, Brk!AllowDeny
<1>4. ASSUME NEW p \in Procs, ReportFail(p) PROVE Brk!Fail(p)
  <2>1. BrkCall[p] = "dialing" /\ BrkCall' = [BrkCall EXCEPT ![p] = "idle"]
    BY <1>4, Calls, CallMove DEF ReportFail, Creating, BrkCall
  <2>2. open' = IF failures' >= MaxFails THEN TRUE ELSE open
    BY <1>4 DEF ReportFail, EngineTypeOK
  <2> QED
    BY <1>4, <2>1, <2>2 DEF ReportFail, Brk!Fail
<1>5. ASSUME NEW p \in Procs, ReportSuccess(p) PROVE Brk!Success(p)
  <2>1. BrkCall[p] = "dialing" /\ BrkCall' = [BrkCall EXCEPT ![p] = "idle"]
    BY <1>5, Calls, CallMove DEF ReportSuccess, Creating, BrkCall
  <2> QED
    BY <1>5, <2>1 DEF ReportSuccess, Brk!Success
\* every other step of a request keeps what it owes the breaker
<1>6. ASSUME NEW p \in Procs,
             \/ Lock(p) \/ Found(p) \/ DialOK(p) \/ DialFail(p) \/ Lose(p) \/ TakePooled(p)
             \/ Win(p) \/ Put(p) \/ Finish(p)
             \/ \E s \in Servers, v \in 1..MaxVersion : Arrive(p, s, v)
      PROVE  UNCHANGED Brk!breakerVars
  <2>1. PICK place \in Places : Goto(p, place) /\ CallOf(place) = CallOf(at[p])
    <3>1. CASE Lock(p) \/ \E s \in Servers, v \in 1..MaxVersion : Arrive(p, s, v)
      BY <3>1, Calls DEF Lock, Arrive, Places, Critical
    <3>2. CASE Found(p) \/ TakePooled(p) \/ Put(p) \/ Finish(p)
      BY <3>2, Calls DEF Found, TakePooled, Put, Leave, Finish, Places, Critical
    <3>3. CASE DialOK(p) \/ DialFail(p) \/ Lose(p) \/ Win(p)
      BY <3>3, Calls DEF DialOK, DialFail, Creating, Lose, Win, Places, Critical
    <3> QED
      BY <1>6, <3>1, <3>2, <3>3
  <2>2. BrkCall' = BrkCall
    BY <2>1, CallMove DEF BrkCall
  <2>3. UNCHANGED breakerVars
    BY <1>6 DEF Lock, Found, DialOK, DialFail, Lose, TakePooled, Win, Put, Finish, Arrive, Leave
  <2> QED
    BY <2>2, <2>3 DEF breakerVars, Brk!breakerVars
<1>7. CASE Tick
  BY <1>7 DEF Tick, lockVars, BrkCall, Brk!Tick, Brk!BreakerNext
<1>8. ASSUME NEW s \in Servers, Reconfigure(s) \/ CloseItem(s) PROVE UNCHANGED Brk!breakerVars
  BY <1>8 DEF Reconfigure, CloseItem, lockVars, breakerVars, BrkCall, Brk!breakerVars
<1>9. CASE CloseBegin \/ CloseEnd
  BY <1>9 DEF CloseBegin, CloseEnd, breakerVars, BrkCall, Brk!breakerVars
<1>10. CASE UNCHANGED engineVars
  BY <1>10 DEF engineVars, lockVars, breakerVars, BrkCall, Brk!breakerVars
<1>11. ASSUME NEW p \in Procs, DriverFor(p) PROVE [Brk!BreakerNext]_(Brk!breakerVars)
  BY <1>11, <1>1, <1>2, <1>3, <1>4, <1>5, <1>6 DEF DriverFor, Proceed, Brk!BreakerNext
<1> QED
  BY <1>6, <1>7, <1>8, <1>9, <1>10, <1>11 DEF EngineNext, Brk!BreakerNext

\* Every Allow that lets a request dial is followed by exactly one Success or
\* Fail of that request, however the dial and the install end.
THEOREM EngineImplementsBreaker == EngineSpec => BreakerBehaviour
<1>1. EngineInit => Brk!BreakerInit
  BY Calls DEF EngineInit, BrkCall, Brk!BreakerInit
<1>2. LockInv /\ [EngineNext]_engineVars => [Brk!BreakerNext]_(Brk!breakerVars)
  BY BreakerStep DEF LockInv
<1> QED
  BY <1>1, <1>2, LockInvariant, PTL DEF EngineSpec, BreakerBehaviour, Brk!BreakerSpec

=============================================================================
