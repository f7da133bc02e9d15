--------------------------- MODULE MCObservations ---------------------------
(***************************************************************************)
(* Observations of two cells: cell a starts on source s and must then keep *)
(* s or t true; cell b lists s as well and maintains nothing.              *)
(***************************************************************************)
EXTENDS Observations

AllSpecs == [c \in Cells |-> IF c = "a" THEN Sources ELSE {"s"}]
Apart    == [c \in Cells |-> {c}]
StartOn  == [c \in Cells |-> {{"s"}}]
EitherOf == [c \in Cells |-> IF c = "a" THEN {Sources} ELSE {}]

-----------------------------------------------------------------------------
(* Bounds: a step ends in one of four regions of the state space: conflicts *)
(* and device restarts within one instant; fresh readings, true and false,  *)
(* for one cell; lapses across restarts of the process and the machine; and *)
(* disputes of cell b across them.  No step of the watchdog leaves its      *)
(* region.                                                                  *)

OneReport == Cardinality(sent) = Cardinality(Issued)

OnlyA == db.fact["b"]["s"] = Nil /\ (db.run["b"] = "Prepared" => db.epoch["b"] = 0)

Few == \A c \in Cells : db.epoch[c] <= IF Active(db, c) THEN 1 ELSE 2

\* No cell is blocked for a restart of the runtime.
Unrestarted == \A c \in Cells : "RuntimeRestart" \notin db.blocks[c]

Conflicts ==
    /\ Few /\ Unrestarted /\ now = 0 /\ clock = 0 /\ Cardinality(Issued) <= 2 /\ generation["t"] = 0
    /\ \A r \in sent : r.source = "s" /\ r.uncertainty = 0 /\ r.good
    /\ \A i \in Issued : \E r \in sent : r.id = i /\ r.value

Readings ==
    /\ Few /\ Unrestarted /\ OnlyA /\ OneReport /\ now <= 1 /\ clock = 0
    /\ \A s \in Sources : generation[s] = 0 /\ Cardinality({r \in sent : r.source = s}) <= 2
    /\ \A r \in sent : r.good /\ ~r.disputed /\ (r.source = "t" => r.uncertainty = 0)

Lapses ==
    /\ Few /\ OnlyA /\ OneReport /\ Cardinality(Issued) <= 2 /\ \A s \in Sources : generation[s] = 0
    /\ \A r \in sent : r.value /\ ~r.disputed /\ r.uncertainty = 0 /\ (r.source = "t" => r.good)

Relapses ==
    /\ OneReport /\ now = 0 /\ \A s \in Sources : generation[s] = 0 /\ db.fact["a"][s] = Nil
    /\ ~Active(db, "a") /\ (db.run["a"] = "Prepared" => db.epoch["a"] = 0)
    /\ \A r \in sent : r.source = "s" /\ r.value /\ r.good /\ r.uncertainty = 0

Small == Conflicts \/ Readings \/ Lapses \/ Relapses

\* The watchdog's call gets through to the writer again and again.
SmallSpec == Init /\ [][Next /\ Small']_vars /\ WF_vars(CheckMaintained)
=============================================================================
