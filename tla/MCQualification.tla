--------------------------- MODULE MCQualification ---------------------------
(* The people are interchangeable: nothing but their difference matters.    *)
EXTENDS QualificationActivation, TLC

CONSTANTS h1, h2, p1, p2, p3

Symmetry == Permutations(People)

-----------------------------------------------------------------------------
(* Bound: a second request is followed where every host had accepted the    *)
(* batch of the first and something suspended it since; the new batch is    *)
(* brought to one host after the other.                                     *)

AcceptedOnce == batch[1].state = "Suspended" /\ \A h \in Hosts : task[1][h].receipt = "Accepted"

InTurn ==
    \A b \in Batches :
        task[b][h2].phase \in {"None", "AwaitingSnapshot"} \/ task[b][h1].receipt # "None"

Small == JobCount > 1 => AcceptedOnce /\ InTurn

SmallSpec == Init /\ [][Next /\ Small']_vars
=============================================================================
