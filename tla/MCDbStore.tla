------------------------------ MODULE MCDbStore ------------------------------
(***************************************************************************)
(* Two servers, a table, a function; documents that override, add to and   *)
(* clash with what is there.                                               *)
(***************************************************************************)
EXTENDS DbStore, TLC

CONSTANTS s1, s2, t1, f1, c1, x1, x2

MCDocs ==
    {[servers |-> [s \in {s2} |-> [opt |-> 2, on |-> TRUE, secret |-> x2]],
      objs |-> [k \in {<<f1, s2>>} |-> [remote |-> 2, opt |-> 2, cols |-> {}]]],
     [servers |-> [s \in {s1} |-> [opt |-> 2, on |-> FALSE, secret |-> None]],
      objs |-> [k \in {<<t1, s1>>} |-> [remote |-> 2, opt |-> 2, cols |-> {c1}]]],
     [servers |-> [s \in {s2} |-> [opt |-> 1, on |-> TRUE, secret |-> None]],
      objs |-> [k \in {<<t1, s2>>} |-> [remote |-> 1, opt |-> 1, cols |-> {}]]]}

\* The other initial states are these with the names exchanged, or without the
\* column, which DeleteColumn leads to.
MCInit ==
    /\ Init
    /\ creds[s1] # None /\ servers[s1].opt = 1 /\ creds[s1].secret = x1
    /\ cols # {}

MCSpec == MCInit /\ [][Next]_vars

Symmetry == Permutations(Procs)

=============================================================================
