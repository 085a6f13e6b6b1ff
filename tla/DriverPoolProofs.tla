-------------------------- MODULE DriverPoolProofs --------------------------
(***************************************************************************)
(* Proofs about DriverPool for any number of requests, servers, drivers    *)
(* and configurations.                                                     *)
(***************************************************************************)
EXTENDS DriverPool, FiniteSetTheorems, TLAPS

(***************************************************************************)
(* The inductive invariant.  The properties alone are not inductive: that  *)
(* a critical section closes the right driver depends on who else can hold *)
(* or use it, and on the fingerprints under which drivers were built.      *)
(***************************************************************************)

\* Only drivers that exist are closed.
ClosedWereBorn == closed \subseteq born

\* A driver between create and the second critical section belongs to one
\* request only: it is open, not in the pool, and nobody else holds or uses it.
HeldIsPrivate ==
    \A p \in Procs : Holding(p) =>
        /\ drv[p] \in born \ closed
        /\ ~IsPooled(drv[p])
        /\ built[drv[p]] = req[p]
        /\ \A q \in Procs \ {p} : pc[q] \in {"install", "use"} => drv[q] # drv[p]

\* A pooled driver was built from the key and version it is pooled under.
PooledAsBuilt ==
    \A s \in DOMAIN items : built[items[s].drv] = [srv |-> s, version |-> items[s].version]

\* Nothing carries a fingerprint the server has not had yet.
NothingFromTheFuture ==
    /\ \A p \in Procs : pc[p] # "idle" => req[p].version <= config[req[p].srv]
    /\ \A s \in DOMAIN items : items[s].version <= config[s]

IInv ==
    /\ TypeOK
    /\ ClosedWereBorn
    /\ PooledIsOpen
    /\ HeldIsPrivate
    /\ PooledAsBuilt
    /\ NothingFromTheFuture
    /\ NoLeak
    /\ UsesOwnConfig
    /\ ClosedUnderUseOnlyAfterChange

USE DEF Holding, IsPooled

-----------------------------------------------------------------------------

LEMMA AnyRequestType == AnyRequest \in Requests
  <1>1. \E s \in Servers : TRUE
    BY PoolAssumption
  <1>2. PICK s \in Servers : TRUE
    BY <1>1
  <1>3. [srv |-> s, version |-> 1] \in Requests
    BY PoolAssumption DEF Requests, Versions
  <1> QED
    BY <1>3 DEF AnyRequest

LEMMA InitIInv == Init => IInv
  <1> SUFFICES ASSUME Init PROVE IInv
    OBVIOUS
  <1>1. DOMAIN items = {}
    BY DEF Init
  <1>2. TypeOK
    <2>1. items \in [{} -> Pooled]
      BY DEF Init
    <2>2. 1 \in Versions
      BY PoolAssumption DEF Versions
    <2> QED
      BY <1>1, <2>1, <2>2, AnyRequestType DEF Init, TypeOK
  <1>3. ClosedWereBorn /\ PooledIsOpen /\ HeldIsPrivate /\ PooledAsBuilt
    BY <1>1 DEF Init, ClosedWereBorn, PooledIsOpen, HeldIsPrivate, PooledAsBuilt
  <1>4. NothingFromTheFuture /\ NoLeak /\ UsesOwnConfig /\ ClosedUnderUseOnlyAfterChange
    BY <1>1
    DEF Init, NothingFromTheFuture, NoLeak, UsesOwnConfig, ClosedUnderUseOnlyAfterChange
  <1> QED
    BY <1>2, <1>3, <1>4 DEF IInv

\* Type correctness is inductive by itself except that a held driver must be
\* a driver, which HeldIsPrivate says.
LEMMA TypeStep == IInv /\ [Next]_poolVars => TypeOK'
  <1> SUFFICES ASSUME IInv, [Next]_poolVars PROVE TypeOK'
    OBVIOUS
  <1> USE PoolAssumption DEF IInv, TypeOK, Versions
  <1>1. ASSUME NEW s \in Servers, Reconfigure(s) PROVE TypeOK'
    BY <1>1 DEF Reconfigure
  <1>2. ASSUME NEW p \in Procs, NEW s \in Servers, NEW v \in Versions, Begin(p, s, v)
        PROVE TypeOK'
    BY <1>2 DEF Begin, Requests
  <1>3. ASSUME NEW p \in Procs, LookupHit(p) PROVE TypeOK'
    BY <1>3 DEF LookupHit, Hit, Pooled, Requests
  <1>4. ASSUME NEW p \in Procs, LookupMiss(p) PROVE TypeOK'
    BY <1>4 DEF LookupMiss
  <1>5. ASSUME NEW p \in Procs, CreateErr(p) PROVE TypeOK'
    BY <1>5 DEF CreateErr
  <1>6. ASSUME NEW p \in Procs, CreateOK(p) PROVE TypeOK'
    BY <1>6 DEF CreateOK
  <1>7. ASSUME NEW p \in Procs, InstallLose(p) PROVE TypeOK'
    BY <1>7 DEF InstallLose, HeldIsPrivate, Hit, Pooled, Requests
  <1>8. ASSUME NEW p \in Procs, InstallWin(p) PROVE TypeOK'
    BY <1>8 DEF InstallWin, HeldIsPrivate, Pooled, Requests
  <1>9. ASSUME NEW p \in Procs, Finish(p) PROVE TypeOK'
    BY <1>9 DEF Finish
  <1>10. ASSUME Close PROVE TypeOK'
    BY <1>10 DEF Close, Pooled
  <1>11. CASE UNCHANGED poolVars
    BY <1>11 DEF poolVars
  <1> QED
    BY <1>1, <1>2, <1>3, <1>4, <1>5, <1>6, <1>7, <1>8, <1>9, <1>10, <1>11
    DEF Next, Get

\* Two servers never share a driver: a pooled driver was built for its key.
LEMMA PooledHome ==
    ASSUME PooledAsBuilt
    PROVE  \A s \in DOMAIN items : built[items[s].drv].srv = s
  <1> TAKE s \in DOMAIN items
  <1>1. built[items[s].drv] = [srv |-> s, version |-> items[s].version]
    BY DEF PooledAsBuilt
  <1> QED
    BY <1>1

LEMMA StepIInv == IInv /\ [Next]_poolVars => IInv'
  <1> SUFFICES ASSUME IInv, TypeOK', [Next]_poolVars PROVE IInv'
    BY TypeStep
  <1> USE PoolAssumption DEF IInv, TypeOK, Versions, ClosedWereBorn, PooledIsOpen,
          HeldIsPrivate, PooledAsBuilt, NothingFromTheFuture, UsesOwnConfig,
          ClosedUnderUseOnlyAfterChange
  <1>1. ASSUME NEW s \in Servers, Reconfigure(s) PROVE IInv'
    <2> USE <1>1 DEF Reconfigure
    <2>1. NothingFromTheFuture'
      BY DEF Requests, Pooled
    <2>2. ClosedUnderUseOnlyAfterChange'
      BY DEF Requests
    <2>3. NoLeak'
      BY DEF NoLeak
    <2> QED
      BY <2>1, <2>2, <2>3
  <1>2. ASSUME NEW p \in Procs, NEW s \in Servers, NEW v \in Versions, Begin(p, s, v) PROVE IInv'
    <2> USE <1>2 DEF Begin, Requests
    <2>1. ClosedWereBorn' /\ PooledIsOpen' /\ HeldIsPrivate' /\ PooledAsBuilt'
      OBVIOUS
    <2>2. NothingFromTheFuture'
      OBVIOUS
    <2>3. UsesOwnConfig' /\ ClosedUnderUseOnlyAfterChange'
      OBVIOUS
    <2>4. NoLeak'
      BY DEF NoLeak
    <2> QED
      BY <2>1, <2>2, <2>3, <2>4
  <1>3. ASSUME NEW p \in Procs, LookupHit(p) PROVE IInv'
    BY <1>3 DEF LookupHit, Hit, Requests, NoLeak
  <1>4. ASSUME NEW p \in Procs, LookupMiss(p) PROVE IInv'
    BY <1>4 DEF LookupMiss, NoLeak
  <1>5. ASSUME NEW p \in Procs, CreateErr(p) PROVE IInv'
    BY <1>5 DEF CreateErr, NoLeak
  <1>6. ASSUME NEW p \in Procs, CreateOK(p) PROVE IInv'
    BY <1>6 DEF CreateOK, NoLeak
  <1>7. ASSUME NEW p \in Procs, InstallLose(p) PROVE IInv'
    <2> USE <1>7 DEF InstallLose, Hit, Requests, Pooled
    <2>1. ClosedWereBorn' /\ PooledIsOpen' /\ PooledAsBuilt' /\ NothingFromTheFuture'
      OBVIOUS
    <2>2. HeldIsPrivate'
      OBVIOUS
    <2>3. NoLeak'
      BY DEF NoLeak
    <2>4. UsesOwnConfig'
      OBVIOUS
    <2>5. ClosedUnderUseOnlyAfterChange'
      OBVIOUS
    <2> QED
      BY <2>1, <2>2, <2>3, <2>4, <2>5
  <1>8. ASSUME NEW p \in Procs, InstallWin(p) PROVE IInv'
    <2> DEFINE s == req[p].srv
    <2> USE <1>8 DEF InstallWin, Hit, Requests, Pooled
    <2>1. /\ DOMAIN items' = DOMAIN items \cup {s}
          /\ items'[s] = [version |-> req[p].version, drv |-> drv[p]]
          /\ \A t \in DOMAIN items \ {s} : items'[t] = items[t]
      OBVIOUS
    <2>2. \A d \in closed' \ closed : s \in DOMAIN items /\ d = items[s].drv
      OBVIOUS
    <2>3. ASSUME NEW t \in DOMAIN items \ {s} PROVE items[t].drv \notin closed'
      <3>1. items[t].drv \notin closed
        OBVIOUS
      <3>2. s \in DOMAIN items => items[t].drv # items[s].drv
        \* they were built for different servers
        BY PooledHome
      <3> QED
        BY <2>2, <3>1, <3>2
    <2>4. ASSUME NEW q \in Procs, Holding(q) PROVE drv[q] \notin closed'
      <3>1. drv[q] \notin closed /\ ~IsPooled(drv[q])
        BY <2>4
      <3> QED
        BY <3>1, <2>2
    <2>5. ClosedWereBorn' /\ PooledAsBuilt' /\ NothingFromTheFuture'
      BY <2>1
    <2>6. PooledIsOpen'
      BY <2>1, <2>3, <2>4
    <2>7. HeldIsPrivate'
      <3> SUFFICES ASSUME NEW q \in Procs, Holding(q)' PROVE
             /\ (drv[q] \in born \ closed)'
             /\ ~IsPooled(drv[q])'
             /\ (built[drv[q]] = req[q])'
             /\ \A r \in Procs \ {q} : (pc[r] \in {"install", "use"} => drv[r] # drv[q])'
        OBVIOUS
      <3>1. Holding(q) /\ q # p /\ drv[p] # drv[q]
        OBVIOUS
      <3>2. ~IsPooled(drv[q])'
        BY <2>1, <3>1
      <3>3. \A r \in Procs \ {q} : (pc[r] \in {"install", "use"} => drv[r] # drv[q])'
        BY <3>1
      <3> QED
        BY <2>4, <3>1, <3>2, <3>3
    <2>8. NoLeak'
      BY <2>1 DEF NoLeak
    <2>9. UsesOwnConfig'
      OBVIOUS
    <2>10. ClosedUnderUseOnlyAfterChange'
      \* the pooled version and the requested one differ, so s has had two
      <3>1. s \in DOMAIN items => config[s] > 1
        OBVIOUS
      <3>2. ASSUME NEW q \in Procs, pc'[q] = "use", drv'[q] \in closed' \ closed
            PROVE  config'[req'[q].srv] > 1
        <4>1. q # p /\ pc[q] = "use" /\ drv[q] \in closed' \ closed
          BY <2>4, <3>2
        <4>2. s \in DOMAIN items /\ drv[q] = items[s].drv
          BY <2>2, <4>1
        <4>3. req[q].srv = s
          <5>1. built[drv[q]] = req[q]
            BY <4>1 DEF UsesOwnConfig
          <5>2. built[items[s].drv].srv = s
            BY <4>2, PooledHome
          <5> QED
            BY <4>2, <5>1, <5>2
        <4> QED
          BY <3>1, <4>2, <4>3
      <3>3. ASSUME NEW q \in Procs, pc'[q] = "use", drv'[q] \in closed
            PROVE  stopped' \/ config'[req'[q].srv] > 1
        BY <2>4, <3>3
      <3> QED
        BY <3>2, <3>3
    <2> QED
      BY <2>5, <2>6, <2>7, <2>8, <2>9, <2>10
  <1>9. ASSUME NEW p \in Procs, Finish(p) PROVE IInv'
    BY <1>9 DEF Finish, NoLeak
  <1>10. ASSUME Close PROVE IInv'
    <2> USE <1>10 DEF Close, Pooled
    <2>1. DOMAIN items' = {}
      OBVIOUS
    <2>2. \A d \in closed' \ closed : IsPooled(d)
      OBVIOUS
    <2>3. ClosedWereBorn' /\ PooledIsOpen' /\ PooledAsBuilt' /\ NothingFromTheFuture'
      BY <2>1, <2>2
    <2>4. HeldIsPrivate'
      BY <2>1, <2>2
    <2>5. NoLeak'
      <3>1. \A d \in Drivers : IsPooled(d) => d \in closed'
        OBVIOUS
      <3> QED
        BY <3>1 DEF NoLeak
    <2>6. UsesOwnConfig' /\ ClosedUnderUseOnlyAfterChange'
      OBVIOUS
    <2> QED
      BY <2>3, <2>4, <2>5, <2>6
  <1>11. CASE UNCHANGED poolVars
    BY <1>11 DEF poolVars, NoLeak
  <1> QED
    BY <1>1, <1>2, <1>3, <1>4, <1>5, <1>6, <1>7, <1>8, <1>9, <1>10, <1>11
    DEF Next, Get

-----------------------------------------------------------------------------

\* The inductive invariant holds in every reachable state.
THEOREM PoolInvariant == Spec => []IInv
  BY InitIInv, StepIInv, PTL DEF Spec

\* Every variable of the pool keeps its type: in particular a failed create
\* never leaves a nil driver in items or in the hands of a request.
THEOREM TypeCorrect == Spec => []TypeOK
  <1>1. IInv => TypeOK
    BY DEF IInv
  <1> QED
    BY <1>1, PoolInvariant, PTL

\* No interleaving of Get, configuration changes and Close loses a connection.
THEOREM NeverLeaks == Spec => []NoLeak
  <1>1. IInv => NoLeak
    BY DEF IInv
  <1> QED
    BY <1>1, PoolInvariant, PTL

\* Nothing in the pool was ever closed.
THEOREM PoolServesOpenDrivers == Spec => []PooledIsOpen
  <1>1. IInv => PooledIsOpen
    BY DEF IInv
  <1> QED
    BY <1>1, PoolInvariant, PTL

\* A request uses a driver built from the configuration it resolved.
THEOREM RequestsUseOwnConfig == Spec => []UsesOwnConfig
  <1>1. IInv => UsesOwnConfig
    BY DEF IInv
  <1> QED
    BY <1>1, PoolInvariant, PTL

\* A driver in use is closed only after a reconfiguration or Close.
THEOREM ClosedUnderUse == Spec => []ClosedUnderUseOnlyAfterChange
  <1>1. IInv => ClosedUnderUseOnlyAfterChange
    BY DEF IInv
  <1> QED
    BY <1>1, PoolInvariant, PTL

\* The values of a function on a finite set are no more than its arguments.
LEMMA ImageBound ==
    ASSUME NEW S, IsFiniteSet(S), NEW f, f = [x \in S |-> f[x]]
    PROVE  /\ IsFiniteSet({f[x] : x \in S})
           /\ Cardinality({f[x] : x \in S}) <= Cardinality(S)
  <1> DEFINE T == {f[x] : x \in S}
  <1>1. f \in Surjection(S, T)
    BY DEF Surjection
  <1> QED
    BY <1>1, FS_Surjection

\* Open connections are bounded by the servers pooled and the requests that
\* are still creating a driver.
THEOREM ConnectionsBounded == Spec => []OpenBound
  <1>1. IInv => OpenBound
    <2> SUFFICES ASSUME IInv PROVE OpenBound
      OBVIOUS
    <2> DEFINE H == {p \in Procs : Holding(p)}
               f == [s \in DOMAIN items |-> items[s].drv]
               g == [p \in H |-> drv[p]]
               F == {f[s] : s \in DOMAIN items}
               G == {g[p] : p \in H}
    <2>1. IsFiniteSet(DOMAIN items) /\ IsFiniteSet(H)
      BY PoolAssumption, FS_Subset DEF IInv, TypeOK
    <2>2. IsFiniteSet(F) /\ Cardinality(F) <= Cardinality(DOMAIN items)
      BY <2>1, ImageBound
    <2>3. IsFiniteSet(G) /\ Cardinality(G) <= Cardinality(H)
      BY <2>1, ImageBound
    <2>4. born \ closed \subseteq F \cup G
      BY DEF IInv, NoLeak
    <2>5. IsFiniteSet(F \cup G)
          /\ Cardinality(F \cup G) <= Cardinality(F) + Cardinality(G)
      <3>1. IsFiniteSet(F \cap G)
        BY <2>2, FS_Subset
      <3> HIDE DEF F, G
      <3>2. /\ IsFiniteSet(F \cup G)
            /\ Cardinality(F \cup G) =
                  Cardinality(F) + Cardinality(G) - Cardinality(F \cap G)
        BY <2>2, <2>3, FS_Union
      <3>3. Cardinality(F) \in Nat /\ Cardinality(G) \in Nat /\ Cardinality(F \cap G) \in Nat
        BY <2>2, <2>3, <3>1, FS_CardinalityType
      <3> QED
        BY <3>2, <3>3
    <2>6. Cardinality(born \ closed) <= Cardinality(F \cup G)
      BY <2>4, <2>5, FS_Subset
    <2>7. IsFiniteSet(born \ closed)
      BY <2>4, <2>5, FS_Subset
    <2> HIDE DEF F, G, H
    <2>8. Cardinality(born \ closed) <= Cardinality(DOMAIN items) + Cardinality(H)
      BY <2>1, <2>2, <2>3, <2>5, <2>6, <2>7, FS_CardinalityType
    <2> QED
      BY <2>8 DEF OpenBound, H
  <1> QED
    BY <1>1, PoolInvariant, PTL

-----------------------------------------------------------------------------
(***************************************************************************)
(* The pool implements DriverLifecycle.                                    *)
(***************************************************************************)

LEMMA PhaseUnchanged ==
    UNCHANGED <<items, born, closed, built>> => UNCHANGED Lifecycle!lifeVars
  BY DEF Lifecycle!lifeVars, PhaseOf

LEMMA InitRefines == Init => Lifecycle!LifeInit
  BY AnyRequestType DEF Init, Lifecycle!LifeInit, PhaseOf, Requests

\* One step of the pool is one step of a driver's life, or none.
LEMMA StepRefines ==
    IInv /\ IInv' /\ [Next]_poolVars => [Lifecycle!LifeNext]_(Lifecycle!lifeVars)
  <1> SUFFICES ASSUME IInv, IInv', [Next]_poolVars
               PROVE  Lifecycle!LifeNext \/ UNCHANGED Lifecycle!lifeVars
    OBVIOUS
  <1> DEFINE ph == [d \in Drivers |-> PhaseOf(d)]
             hm == [d \in Drivers |-> built[d].srv]
  <1> USE DEF IInv, TypeOK
  <1>1. ASSUME NEW p \in Procs, CreateOK(p) PROVE Lifecycle!LifeNext
    <2>1. PICK d \in Drivers \ born :
            /\ born' = born \cup {d}
            /\ built' = [built EXCEPT ![d] = req[p]]
      BY <1>1 DEF CreateOK
    <2>2. UNCHANGED <<items, closed>>
      BY <1>1 DEF CreateOK
    <2>3. PhaseOf(d) = "unborn"
      BY DEF PhaseOf, ClosedWereBorn
    <2>4. \A e \in Drivers : PhaseOf(e)' = IF e = d THEN "held" ELSE PhaseOf(e)
      BY <2>1, <2>2 DEF PhaseOf, PooledIsOpen, ClosedWereBorn
    <2>5. ph' = [ph EXCEPT ![d] = "held"]
      BY <2>4
    <2>6. PICK t \in Servers : t = req[p].srv
      BY DEF Requests
    <2>7. hm' = [hm EXCEPT ![d] = t]
      BY <2>1, <2>6 DEF Requests
    <2>8. Lifecycle!Open(d, t)
      BY <2>3, <2>5, <2>7 DEF Lifecycle!Open
    <2> QED
      BY <2>8 DEF Lifecycle!LifeNext
  <1>2. ASSUME NEW p \in Procs, InstallLose(p) PROVE Lifecycle!LifeNext
    <2>1. /\ drv[p] \in born \ closed /\ ~IsPooled(drv[p])
          /\ closed' = closed \cup {drv[p]}
          /\ UNCHANGED <<items, born, built>>
      BY <1>2 DEF InstallLose, HeldIsPrivate
    <2>2. PhaseOf(drv[p]) = "held"
      BY <2>1 DEF PhaseOf
    <2>3. \A e \in Drivers : PhaseOf(e)' = IF e = drv[p] THEN "closed" ELSE PhaseOf(e)
      BY <2>1 DEF PhaseOf
    <2>4. Lifecycle!Discard(drv[p])
      BY <2>1, <2>2, <2>3 DEF Lifecycle!Discard
    <2> QED
      BY <2>1, <2>4 DEF Lifecycle!LifeNext
  <1>3. ASSUME NEW p \in Procs, InstallWin(p) PROVE Lifecycle!LifeNext
    <2> DEFINE s == req[p].srv
               d == drv[p]
    <2>1. /\ d \in born \ closed /\ ~IsPooled(d) /\ built[d] = req[p]
          /\ UNCHANGED <<born, built>>
      BY <1>3 DEF InstallWin, HeldIsPrivate
    <2>2. /\ DOMAIN items' = DOMAIN items \cup {s}
          /\ items'[s].drv = d
          /\ \A t \in DOMAIN items \ {s} : items'[t] = items[t]
          /\ \A e \in Drivers : e \in closed' <=>
                (e \in closed \/ (s \in DOMAIN items /\ e = items[s].drv))
      BY <1>3 DEF InstallWin
    <2>3. PhaseOf(d) = "held"
      BY <2>1 DEF PhaseOf
    <2>4. \A e \in Drivers :
            e \in Lifecycle!Published(s) <=> (s \in DOMAIN items /\ e = items[s].drv)
      BY PooledHome DEF Lifecycle!Published, PhaseOf, PooledIsOpen
    <2>5. \A e \in Drivers :
            PhaseOf(e)' = IF e = d THEN "published"
                          ELSE IF e \in Lifecycle!Published(s) THEN "closed"
                          ELSE PhaseOf(e)
      BY <2>1, <2>2, <2>4 DEF PhaseOf
    <2>6. Lifecycle!Publish(d)
      BY <2>1, <2>3, <2>5 DEF Lifecycle!Publish
    <2> QED
      BY <2>1, <2>6 DEF Lifecycle!LifeNext
  <1>4. ASSUME Close PROVE Lifecycle!LifeNext
    <2>1. /\ \A e \in Drivers : e \in closed' <=> (e \in closed \/ IsPooled(e))
          /\ DOMAIN items' = {}
          /\ UNCHANGED <<born, built>>
      BY <1>4 DEF Close
    <2>2. \A e \in Drivers :
            PhaseOf(e)' = IF PhaseOf(e) = "published" THEN "closed" ELSE PhaseOf(e)
      BY <2>1 DEF PhaseOf, PooledIsOpen, ClosedWereBorn
    <2>3. Lifecycle!CloseAll
      BY <2>1, <2>2 DEF Lifecycle!CloseAll
    <2> QED
      BY <2>3 DEF Lifecycle!LifeNext
  <1>5. ASSUME NEW p \in Procs,
               LookupHit(p) \/ LookupMiss(p) \/ CreateErr(p) \/ Finish(p)
        PROVE  UNCHANGED Lifecycle!lifeVars
    BY <1>5, PhaseUnchanged DEF LookupHit, LookupMiss, CreateErr, Finish
  <1>6. ASSUME NEW p \in Procs, NEW s \in Servers, NEW v \in Versions, Begin(p, s, v)
        PROVE  UNCHANGED Lifecycle!lifeVars
    BY <1>6, PhaseUnchanged DEF Begin
  <1>7. ASSUME NEW s \in Servers, Reconfigure(s) PROVE UNCHANGED Lifecycle!lifeVars
    BY <1>7, PhaseUnchanged DEF Reconfigure
  <1>8. CASE UNCHANGED poolVars
    BY <1>8, PhaseUnchanged DEF poolVars
  <1> QED
    BY <1>1, <1>2, <1>3, <1>4, <1>5, <1>6, <1>7, <1>8 DEF Next, Get

\* Seen from the remote end the pool is the abstract life cycle: every driver
\* is opened once, published or discarded, and closed at most once.
THEOREM PoolImplementsLifecycle == Spec => LifecycleSpec
  <1>1. Init /\ [][Next]_poolVars /\ []IInv =>
          Lifecycle!LifeInit /\ [][Lifecycle!LifeNext]_(Lifecycle!lifeVars)
    BY InitRefines, StepRefines, PTL
  <1> QED
    BY <1>1, PoolInvariant, PTL DEF Spec, LifecycleSpec, Lifecycle!LifeSpec

=============================================================================
