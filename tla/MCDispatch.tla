----------------------------- MODULE MCDispatch -----------------------------
(***************************************************************************)
(* One run whose part has one or two operations on one host that need the  *)
(* same resource.  The slots differ only in their completion rule.         *)
(***************************************************************************)
EXTENDS PlatformProperties

CONSTANTS a1, r1, h1, o1, o2, x1

OneRun      == [o \in Ops |-> r1]
FirstVisit  == [o \in Ops |-> 1]
OneHost     == [o \in Ops |-> h1]
OneResource == [o \in Ops |-> {x1}]
Independent == [o \in Ops |-> {}]

-----------------------------------------------------------------------------
(* Bounds: the two operations compete for the resource within the first two *)
(* epochs, with fences of the outbox and contradicting reports on one of    *)
(* them at most; what crosses three epochs, with a restart between them, is *)
(* followed with the second operation alone, as is a host linked again.     *)

Competing == activation[o1] # "None" /\ activation[o2] # "None"

Small ==
    /\ cell.epoch > 2 => activation[o1] = "None"
    /\ Competing =>
          /\ hostEpoch[h1] = 1 \/ <<h1, hostEpoch[h1]>> \in fenced
          /\ \E o \in Ops : Cardinality(results[o]) <= 1

SmallSpec == Init /\ [][Next /\ Small']_vars
=============================================================================
