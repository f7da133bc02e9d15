------------------------------ MODULE MCHosts ------------------------------
(***************************************************************************)
(* A host before and after restarts, in two parts that share no state; the *)
(* initial state chooses one, and only that one moves.                     *)
(*                                                                         *)
(* Recovery: one cell, a command that is open, two bindings, three boots   *)
(* of the runtime and two of the host.                                     *)
(* Linking: two cells that share a resource of the host.                   *)
(***************************************************************************)
EXTENDS HostRecovery, HostLink, TLC

CONSTANTS c1, c2, o1, b1, b2, r1

VARIABLE part           \* "recovery" or "linking"

AtC1   == o1 :> c1
Shared == c1 :> {r1} @@ c2 :> {r1}

Symmetric == Permutations(Bindings)

-----------------------------------------------------------------------------
PartsInit == Init /\ LinkInit /\ part \in {"recovery", "linking"}

InRecovery == part = "recovery" /\ UNCHANGED <<linkVars, part>>
InLinking  == part = "linking"  /\ UNCHANGED <<vars, part>>

\* Bound: the two cells compete for the resource within one boot of the host
\* and of the runtime, and one of them renews; what follows is looked at with
\* one cell: work, restarts, re-admission; a reinstalled host without a restart
\* of the runtime, and at most one request that was given up.
Competing ==
    /\ equipment.boot = 1 /\ boots = 1 /\ approval = Unset
    /\ \A c \in {c1, c2} : sent[c] = Unset
    /\ renewal[c2] = Unset

Alone ==
    /\ plan[c2] = Unset /\ link[c2] = Idle
    /\ cell[c2].revision <= boots + evidence.session - 1
    /\ cell[c1].epoch <= 3 /\ stored[r1] <= 2
    /\ (equipment.journal = 2 => boots = 1) /\ Cardinality(late) <= 1

PartsNext ==
    \/ InRecovery /\ Next
    \/ InLinking /\ LinkNext /\ (Competing \/ Alone)'

PartsSpec == PartsInit /\ [][PartsNext]_<<vars, linkVars, part>>
=============================================================================
