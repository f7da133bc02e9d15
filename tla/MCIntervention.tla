---------------------------- MODULE MCIntervention ----------------------------
(* What people do about a stopped cell, in two parts that share no state; the *)
(* initial state chooses one, and only that one moves.                        *)
(*                                                                            *)
(* Settlement: two operations of one run, two upsets, two plans.              *)
(* Intervention: one person, two cells, and two cases or one with every kind  *)
(* of report.                                                                 *)
EXTENDS Settlement, Intervention, TLC

CONSTANTS k1, k2, p1, c1, c2, o1, o2

VARIABLE part         \* "intervention" or "settlement"

Alike == Permutations({k1, k2}) \cup Permutations({c1, c2}) \cup Permutations({o1, o2})

----------------------------------------------------------------------------
PartsInit == Init /\ CaseInit /\ part \in {"intervention", "settlement"}

\* Bound: beside a second case there is no hold and one report less.
Small == Cardinality({k \in Cases : case[k] # Absent}) > 1 => spent <= 1 /\ holds = 0

PartsNext ==
  \/ part = "intervention" /\ CaseNext /\ Small' /\ UNCHANGED <<vars, part>>
  \/ part = "settlement" /\ Next /\ UNCHANGED <<caseVars, part>>

PartsSpec == PartsInit /\ [][PartsNext]_<<vars, caseVars, part>>
=============================================================================
