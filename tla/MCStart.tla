------------------------------ MODULE MCStart ------------------------------
(***************************************************************************)
(* The start protocol alone: two runs, two hosts and two attempts.         *)
(***************************************************************************)
EXTENDS PlatformProperties, TLC

CONSTANTS a1, a2, r1, r2, h1, h2

NoSlots    == [o \in {} |-> {}]
Symmetric  == Permutations(Attempts) \cup Permutations(Hosts) \cup Permutations(Runs)

-----------------------------------------------------------------------------
(* Bound: the executor connects again only while one run is enough, so the  *)
(* runs compete within one session, and one run meets both sessions.        *)

Small == executor.session > 1 => \E r \in Runs : run[r].state = "None"

SmallSpec == Init /\ [][Next /\ Small']_vars
=============================================================================
