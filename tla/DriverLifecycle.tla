--------------------------- MODULE DriverLifecycle ---------------------------
(***************************************************************************)
(* What the engine's driver pool promises about remote connections, with   *)
(* no locks and no requests: every driver is opened once, is then held by  *)
(* the request that opened it, and from there is either published as THE   *)
(* driver of its server or closed; a published driver is closed when it is *)
(* replaced or when the pool shuts down.  Nothing is closed twice, nothing *)
(* open is forgotten, and a server never has two published drivers.        *)
(***************************************************************************)

CONSTANTS Servers, Drivers

VARIABLES
    phase,   \* phase[d]: where driver d is in its life
    home     \* home[d]: the server d was opened for (meaningful once opened)

lifeVars == <<phase, home>>

Phases == {"unborn", "held", "published", "closed"}

Published(s) == {d \in Drivers : phase[d] = "published" /\ home[d] = s}

LifeInit ==
    /\ phase = [d \in Drivers |-> "unborn"]
    /\ home \in [Drivers -> Servers]

\* A request opens a new connection for server s.
Open(d, s) ==
    /\ phase[d] = "unborn"
    /\ phase' = [phase EXCEPT ![d] = "held"]
    /\ home' = [home EXCEPT ![d] = s]

\* The holder publishes its driver; the one it replaces is closed in the same
\* critical section.
Publish(d) ==
    /\ phase[d] = "held"
    /\ phase' = [e \in Drivers |-> IF e = d THEN "published"
                                   ELSE IF e \in Published(home[d]) THEN "closed"
                                   ELSE phase[e]]
    /\ UNCHANGED home

\* The holder finds that somebody else published an equivalent driver first.
Discard(d) ==
    /\ phase[d] = "held"
    /\ phase' = [phase EXCEPT ![d] = "closed"]
    /\ UNCHANGED home

\* The pool shuts down.
CloseAll ==
    /\ phase' = [d \in Drivers |-> IF phase[d] = "published" THEN "closed"
                                   ELSE phase[d]]
    /\ UNCHANGED home

LifeNext ==
    \/ \E d \in Drivers : (\E s \in Servers : Open(d, s)) \/ Publish(d) \/ Discard(d)
    \/ CloseAll

LifeSpec == LifeInit /\ [][LifeNext]_lifeVars

=============================================================================
