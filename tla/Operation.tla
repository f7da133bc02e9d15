----------------------------- MODULE Operation -----------------------------
(***************************************************************************)
(* The operation record of the conclusion ledger and the transitions its   *)
(* type allows (crates/rx-domain/src/operation.rs).                        *)
(*                                                                         *)
(* The five axes are independent in the code and stay independent here.    *)
(* evidence_ids, a sorted vector without duplicates, is a set.  The        *)
(* identity and the intent digest never change and are left to the         *)
(* modules that index operations; the revision counter is kept by          *)
(* OperationLifecycle.                                                     *)
(***************************************************************************)
EXTENDS Naturals

Phase       == {"Admitted", "Active", "Reconciling", "Settled"}
Knowledge   == {"NotSent", "MayHaveExecuted", "Accepted", "Running",
                "Ended", "Unknown"}
Outcome     == {"None", "Succeeded", "Failed", "Canceled", "NotExecuted",
                "Unresolved"}
Integrity   == {"Valid", "Disputed"}
Disposition == {"Held", "Quarantined", "Released"}

\* Every operation whose evidence is drawn from E, reachable or not.
OperationRecord(E) ==
    [phase : Phase, knowledge : Knowledge, outcome : Outcome,
     integrity : Integrity, disposition : Disposition, evidence : SUBSET E]

\* What is known of the native execution once an outcome is recorded.
TerminalKnowledge(outcome) ==
    CASE outcome = "Unresolved"  -> "Unknown"
      [] outcome = "NotExecuted" -> "NotSent"
      [] OTHER                   -> "Ended"

\* The check a stored operation must pass before it is read back.
Decodes(o) ==
    /\ (o.phase = "Settled") <=> (o.outcome # "None")
    /\ o.integrity = "Disputed" => o.disposition = "Quarantined"
    /\ o.disposition = "Released" => o.phase = "Settled"
    /\ o.phase = "Settled" => /\ o.evidence # {}
                              /\ o.knowledge = TerminalKnowledge(o.outcome)

Admitted ==
    [phase |-> "Admitted", knowledge |-> "NotSent", outcome |-> "None",
     integrity |-> "Valid", disposition |-> "Held", evidence |-> {}]

-----------------------------------------------------------------------------
(* Transitions.  CanX is the condition under which the method does not      *)
(* return an error; X is the operation afterwards.                          *)

Quarantine(o) == [o EXCEPT !.disposition = "Quarantined"]

\* Slips a maintainer could make, for the mutation runs.
DisputeKeepsHold(o) == [o EXCEPT !.integrity = "Disputed"]

Dispute(o) ==
    IF o.phase = "Settled"
      THEN [o EXCEPT !.integrity = "Disputed", !.disposition = "Quarantined"]
      ELSE [o EXCEPT !.integrity = "Disputed", !.disposition = "Quarantined",
                     !.phase = "Reconciling", !.knowledge = "Unknown"]

CanBeSent(o) == o.phase = "Admitted" /\ o.knowledge = "NotSent"

Sent(o) == [o EXCEPT !.phase = "Active", !.knowledge = "MayHaveExecuted"]

LoseContinuity(o) ==
    IF o.phase = "Settled"
      THEN o
      ELSE [o EXCEPT !.phase = "Reconciling", !.knowledge = "Unknown",
                     !.disposition = "Quarantined"]

CanBeObservedRunning(o) == o.phase # "Settled"

ObservedRunning(o, e) ==
    [o EXCEPT !.knowledge = "Running",
              !.phase = IF @ = "Reconciling" THEN @ ELSE "Active",
              !.evidence = @ \cup {e}]

CanConclude(outcome, evidence) == outcome # "None" /\ evidence # {}

\* The conclusion is already recorded: nothing changes, not even the revision.
AlreadyConcluded(o, outcome, evidence) ==
    o.outcome = outcome /\ evidence \subseteq o.evidence

ConcludeOverwriting(o, outcome, evidence) ==
    [o EXCEPT !.phase = "Settled", !.outcome = outcome,
              !.knowledge = TerminalKnowledge(outcome),
              !.evidence = @ \cup evidence,
              !.disposition = IF outcome = "Unresolved" THEN "Quarantined" ELSE @]

\* A settled operation keeps its outcome: a different one disputes it.
Conclude(o, outcome, evidence) ==
    IF o.phase = "Settled" /\ o.outcome # outcome
      THEN [o EXCEPT !.integrity = "Disputed", !.disposition = "Quarantined",
                     !.evidence = @ \cup evidence]
      ELSE [o EXCEPT !.phase = "Settled", !.outcome = outcome,
                     !.knowledge = TerminalKnowledge(outcome),
                     !.evidence = @ \cup evidence,
                     !.disposition =
                         IF outcome = "Unresolved" THEN "Quarantined" ELSE @]

\* The three handover conditions are always passed as true by the engine.
CanRelease(o, evidence) ==
    o.phase = "Settled" /\ o.integrity = "Valid" /\ evidence # {}

Release(o, evidence) ==
    [o EXCEPT !.disposition = "Released", !.evidence = @ \cup evidence]
=============================================================================
