------------------------------- MODULE Breaker -------------------------------
(***************************************************************************)
(* internal/observability/middleware.go: the circuit breaker that guards   *)
(* driver initialisation.  Every method runs under the mutex; what         *)
(* interleaves is the dial between a caller's Allow and its Success or     *)
(* Fail.  Time is kept as the distance to the deadline: left = until - now *)
(* in ticks, -1 once the deadline has passed (time.Now().After(until)).    *)
(***************************************************************************)
EXTENDS Integers, FiniteSets

CONSTANTS
    Callers,    \* goroutines that may initialise a driver
    MaxFails,   \* Breaker.maxFails
    Cooldown    \* Breaker.cooldown, in ticks

ASSUME BreakerAssumption ==
    /\ IsFiniteSet(Callers)
    /\ MaxFails \in Nat \ {0}
    /\ Cooldown \in Nat \ {0}

VARIABLES
    failures,   \* Breaker.failures
    open,       \* Breaker.open
    left,       \* ticks until Breaker.until, -1 when it has passed
    call        \* call[c]: what caller c is doing

breakerVars == <<failures, open, left, call>>

Dialing == {c \in Callers : call[c] = "dialing"}

BreakerTypeOK ==
    /\ failures \in Nat
    /\ open \in BOOLEAN
    /\ left \in -1..Cooldown
    /\ call \in [Callers -> {"idle", "asking", "dialing"}]

BreakerInit ==
    /\ failures = 0
    /\ open = FALSE
    /\ left = -1
    /\ call = [c \in Callers |-> "idle"]

(***************************************************************************)
(* Faults a change to the breaker could introduce; no action uses them.    *)
(***************************************************************************)

AdmitKeepingCount(c) ==
    /\ call[c] = "asking"
    /\ ~open \/ left < 0
    /\ open' = FALSE
    /\ call' = [call EXCEPT ![c] = "dialing"]
    /\ UNCHANGED <<failures, left>>

AdmitAnyway(c) ==
    /\ call[c] = "asking"
    /\ call' = [call EXCEPT ![c] = "dialing"]
    /\ UNCHANGED <<failures, open, left>>

AdmitBeforeDeadline(c) ==
    /\ call[c] = "asking"
    /\ open' = FALSE
    /\ failures' = IF open THEN 0 ELSE failures
    /\ call' = [call EXCEPT ![c] = "dialing"]
    /\ UNCHANGED left

AdmitOnlyClosed(c) ==
    /\ call[c] = "asking"
    /\ ~open
    /\ call' = [call EXCEPT ![c] = "dialing"]
    /\ UNCHANGED <<failures, open, left>>

DenyWhileOpen(c) ==
    /\ call[c] = "asking"
    /\ open
    /\ call' = [call EXCEPT ![c] = "idle"]
    /\ UNCHANGED <<failures, open, left>>

FailAddsCooldown(c) ==
    /\ call[c] = "dialing"
    /\ failures' = failures + 1
    /\ open' = (failures' >= MaxFails)
    /\ left' = IF open' THEN left + 1 + Cooldown ELSE left
    /\ call' = [call EXCEPT ![c] = "idle"]

(***************************************************************************)
(* The breaker                                                             *)
(***************************************************************************)

\* Time passes.
Tick ==
    /\ left >= 0
    /\ left' = left - 1
    /\ UNCHANGED <<failures, open, call>>

\* A request needs a driver the pool does not have.
Ask(c) ==
    /\ call[c] = "idle"
    /\ call' = [call EXCEPT ![c] = "asking"]
    /\ UNCHANGED <<failures, open, left>>

\* Allow returns nil.  An open breaker past its deadline closes and forgets
\* its failures; there is no half-open state, so all callers pass from here.
AllowGrant(c) ==
    /\ call[c] = "asking"
    /\ ~open \/ left < 0
    /\ open' = FALSE
    /\ failures' = IF open THEN 0 ELSE failures
    /\ call' = [call EXCEPT ![c] = "dialing"]
    /\ UNCHANGED left

\* Allow returns errBreakerOpen.
AllowDeny(c) ==
    /\ call[c] = "asking"
    /\ open /\ left >= 0
    /\ call' = [call EXCEPT ![c] = "idle"]
    /\ UNCHANGED <<failures, open, left>>

\* The dial worked.  Success closes the breaker also when other callers
\* opened it in the meantime.
Success(c) ==
    /\ call[c] = "dialing"
    /\ failures' = 0
    /\ open' = FALSE
    /\ call' = [call EXCEPT ![c] = "idle"]
    /\ UNCHANGED left

\* The dial failed.  A failure that arrives while the breaker is open counts
\* too and moves the deadline.
Fail(c) ==
    /\ call[c] = "dialing"
    /\ failures' = failures + 1
    /\ open' = IF failures' >= MaxFails THEN TRUE ELSE open
    /\ left' = IF failures' >= MaxFails THEN Cooldown ELSE left
    /\ call' = [call EXCEPT ![c] = "idle"]

BreakerNext ==
    \/ Tick
    \/ \E c \in Callers :
        Ask(c) \/ AllowGrant(c) \/ AllowDeny(c) \/ Success(c) \/ Fail(c)

BreakerSpec == BreakerInit /\ [][BreakerNext]_breakerVars

(***************************************************************************)
(* Fairness: the clock advances; a caller inside Allow returns; a dial     *)
(* ends, because the request context it runs under has a deadline          *)
(* (observability.Timeout).  Nobody is obliged to ask.                     *)
(***************************************************************************)
BreakerFairness ==
    /\ WF_breakerVars(Tick)
    /\ \A c \in Callers :
        /\ WF_breakerVars(AllowGrant(c) \/ AllowDeny(c))
        /\ WF_breakerVars(Success(c) \/ Fail(c))

FairBreakerSpec == BreakerSpec /\ BreakerFairness

(***************************************************************************)
(* Properties                                                              *)
(***************************************************************************)

\* The flag and the counter never disagree: the breaker is open exactly when
\* the failures it remembers reach the threshold (middleware.go:71-100).
OpenIffTripped == open <=> failures >= MaxFails

\* What a dead backend can cost: between two resets the breaker records at
\* most MaxFails - 1 failures while closed and one per dial that was already
\* in flight when it opened.
FailuresBound == failures <= MaxFails - 1 + Cardinality(Callers)

\* With no dial in flight an open breaker stays open until its deadline: no
\* Allow, however timed, shortens the cooldown.
QuietStaysOpen ==
    [][(open /\ left >= 0 /\ Dialing = {}) => open']_breakerVars

\* The breaker always recovers: as long as some caller keeps asking, an open
\* breaker closes again; late failures cannot postpone the deadline forever.
Recovers ==
    \A c \in Callers :
        ([]<>(call[c] = "asking")) => ((open ~> ~open))

=============================================================================
