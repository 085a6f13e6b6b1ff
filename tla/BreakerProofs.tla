---------------------------- MODULE BreakerProofs ----------------------------
(***************************************************************************)
(* Proofs about Breaker for any number of callers, any threshold and any   *)
(* cooldown.                                                               *)
(***************************************************************************)
EXTENDS Breaker, FiniteSetTheorems, TLAPS

(***************************************************************************)
(* FailuresBound is not inductive: a failure must be paid for by the dial  *)
(* that ends with it.  While the breaker is open no dial starts, so the    *)
(* sum of recorded failures and dials in flight cannot grow.               *)
(***************************************************************************)
OpenBudget ==
    open => failures + Cardinality(Dialing) <= MaxFails - 1 + Cardinality(Callers)

BInv == BreakerTypeOK /\ OpenIffTripped /\ OpenBudget

LEMMA DialingFinite ==
    /\ IsFiniteSet(Dialing)
    /\ Cardinality(Dialing) \in Nat
    /\ Cardinality(Callers) \in Nat
    /\ Cardinality(Dialing) <= Cardinality(Callers)
  BY BreakerAssumption, FS_Subset, FS_CardinalityType DEF Dialing

\* A caller that stops dialing lowers the number of dials in flight by one.
LEMMA DialEnds ==
    ASSUME NEW c \in Callers, call \in [Callers -> {"idle", "asking", "dialing"}],
           call[c] = "dialing", call' = [call EXCEPT ![c] = "idle"]
    PROVE  Cardinality(Dialing') = Cardinality(Dialing) - 1
  <1>1. Dialing' = Dialing \ {c} /\ c \in Dialing
    BY DEF Dialing
  <1> QED
    BY <1>1, DialingFinite, FS_RemoveElement

LEMMA InitBInv == BreakerInit => BInv
  <1> SUFFICES ASSUME BreakerInit PROVE BInv
    OBVIOUS
  <1>1. BreakerTypeOK
    <2>1. failures \in Nat /\ left \in -1..Cooldown
      BY BreakerAssumption DEF BreakerInit
    <2>2. open \in BOOLEAN /\ call \in [Callers -> {"idle", "asking", "dialing"}]
      BY Zenon DEF BreakerInit
    <2> QED
      BY <2>1, <2>2 DEF BreakerTypeOK
  <1>2. ~open /\ ~(failures >= MaxFails)
    BY BreakerAssumption DEF BreakerInit
  <1> QED
    BY <1>1, <1>2 DEF BInv, OpenIffTripped, OpenBudget

LEMMA StepBInv == BInv /\ [BreakerNext]_breakerVars => BInv'
  <1> SUFFICES ASSUME BInv, [BreakerNext]_breakerVars PROVE BInv'
    OBVIOUS
  <1> USE BreakerAssumption DEF BInv, BreakerTypeOK, OpenIffTripped
  <1>1. CASE Tick
    BY <1>1 DEF Tick, OpenBudget, Dialing
  <1>2. ASSUME NEW c \in Callers, Ask(c) PROVE BInv'
    <2>1. Dialing' = Dialing
      BY <1>2 DEF Ask, Dialing
    <2> QED
      BY <1>2, <2>1 DEF Ask, OpenBudget
  <1>3. ASSUME NEW c \in Callers, AllowGrant(c) PROVE BInv'
    <2>1. BreakerTypeOK'
      BY <1>3 DEF AllowGrant
    <2>2. ~open' /\ ~(failures' >= MaxFails)
      BY <1>3 DEF AllowGrant
    <2> QED
      BY <2>1, <2>2 DEF OpenBudget
  <1>4. ASSUME NEW c \in Callers, AllowDeny(c) PROVE BInv'
    <2>1. Dialing' = Dialing
      BY <1>4 DEF AllowDeny, Dialing
    <2> QED
      BY <1>4, <2>1 DEF AllowDeny, OpenBudget
  <1>5. ASSUME NEW c \in Callers, Success(c) PROVE BInv'
    <2>1. BreakerTypeOK'
      BY <1>5 DEF Success
    <2>2. ~open' /\ ~(failures' >= MaxFails)
      BY <1>5 DEF Success
    <2> QED
      BY <2>1, <2>2 DEF OpenBudget
  <1>6. ASSUME NEW c \in Callers, Fail(c) PROVE BInv'
    <2>1. BreakerTypeOK' /\ OpenIffTripped'
      <3>1. CASE failures' >= MaxFails
        BY <1>6, <3>1 DEF Fail
      <3>2. CASE ~(failures' >= MaxFails)
        <4>1. ~(failures >= MaxFails)
          BY <1>6, <3>2 DEF Fail
        <4> QED
          BY <1>6, <3>2, <4>1 DEF Fail
      <3> QED
        BY <3>1, <3>2
    <2>2. Cardinality(Dialing') = Cardinality(Dialing) - 1
      BY <1>6, DialEnds DEF Fail
    <2>3. OpenBudget'
      BY <1>6, <2>2, DialingFinite DEF Fail, OpenBudget
    <2> QED
      BY <2>1, <2>3
  <1>7. CASE UNCHANGED breakerVars
    BY <1>7 DEF breakerVars, OpenBudget, Dialing
  <1> QED
    BY <1>1, <1>2, <1>3, <1>4, <1>5, <1>6, <1>7 DEF BreakerNext

LEMMA BreakerInvariant == BreakerSpec => []BInv
  BY InitBInv, StepBInv, PTL DEF BreakerSpec

\* Type correctness of the breaker: the deadline is never further away than
\* one cooldown, whatever late failures arrive.
THEOREM BreakerTypeCorrect == BreakerSpec => []BreakerTypeOK
  <1>1. BInv => BreakerTypeOK
    BY DEF BInv
  <1> QED
    BY <1>1, BreakerInvariant, PTL

\* The open flag and the failure counter always agree.
THEOREM OpenExactlyWhenTripped == BreakerSpec => []OpenIffTripped
  <1>1. BInv => OpenIffTripped
    BY DEF BInv
  <1> QED
    BY <1>1, BreakerInvariant, PTL

\* A dead backend costs at most MaxFails - 1 failures plus one per caller.
THEOREM FailuresAreBounded == BreakerSpec => []FailuresBound
  <1>1. BInv => FailuresBound
    BY BreakerAssumption, DialingFinite
    DEF BInv, BreakerTypeOK, OpenIffTripped, OpenBudget, FailuresBound
  <1> QED
    BY <1>1, BreakerInvariant, PTL

\* An open breaker with no dial in flight stays open until its deadline.
THEOREM CooldownIsKept == BreakerSpec => QuietStaysOpen
  <1> DEFINE Quiet == open /\ left >= 0 /\ Dialing = {}
  <1>1. BInv /\ [BreakerNext]_breakerVars => [Quiet => open']_breakerVars
    <2> SUFFICES ASSUME BInv, BreakerNext, open, left >= 0, Dialing = {} PROVE open'
      OBVIOUS
    <2>1. CASE Tick
      BY <2>1 DEF Tick
    <2>2. ASSUME NEW c \in Callers, Ask(c) \/ AllowDeny(c) PROVE open'
      BY <2>2 DEF Ask, AllowDeny
    <2>3. ASSUME NEW c \in Callers, AllowGrant(c) PROVE FALSE
      <3>1. left < 0
        BY <2>3 DEF AllowGrant
      <3> QED
        BY <3>1, BreakerAssumption DEF BInv, BreakerTypeOK
    <2>4. ASSUME NEW c \in Callers, Success(c) \/ Fail(c) PROVE FALSE
      BY <2>4 DEF Success, Fail, Dialing
    <2> QED
      BY <2>1, <2>2, <2>3, <2>4 DEF BreakerNext
  <1> QED
    BY <1>1, BreakerInvariant, PTL DEF BreakerSpec, QuietStaysOpen
=============================================================================
