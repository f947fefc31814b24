----------------------------- MODULE Rendezvous -----------------------------
(***************************************************************************)
(* What barrier(ncores) promises the cores that call it: nobody leaves the *)
(* n-th call before everybody has made it.                                 *)
(***************************************************************************)
EXTENDS Naturals

CONSTANT Cores

VARIABLES round,     \* round[c]: the calls core c has returned from
          waiting    \* the cores inside a call

Init == /\ round = [c \in Cores |-> 0]
        /\ waiting = {}

Arrive(c) == /\ c \notin waiting
             /\ waiting' = waiting \cup {c}
             /\ UNCHANGED round

Pass(c) == /\ c \in waiting
           /\ \A d \in Cores : \/ round[d] > round[c]
                               \/ round[d] = round[c] /\ d \in waiting
           /\ round' = [round EXCEPT ![c] = @ + 1]
           /\ waiting' = waiting \ {c}

Next == \E c \in Cores : Arrive(c) \/ Pass(c)

Spec == Init /\ [][Next]_<<round, waiting>>
=============================================================================
