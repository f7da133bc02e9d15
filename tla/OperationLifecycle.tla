------------------------ MODULE OperationLifecycle ------------------------
(***************************************************************************)
(* One operation under every sequence of calls of its public methods, with *)
(* the revision counter that readers and approvals quote.                  *)
(* Source: crates/rx-domain/src/operation.rs.                              *)
(***************************************************************************)
EXTENDS Operation

CONSTANTS Evidence,      \* identities of immutable evidence records
          MaxCounter    \* Counter::increment fails at its maximum

ASSUME EvidenceAssumption == Evidence # {}
ASSUME CounterAssumption == MaxCounter \in Nat \ {0}

VARIABLES op, revision

ledgerVars == <<op, revision>>

LedgerInit == op = Admitted /\ revision = 1

\* A method that changes the operation and moves its revision.
Step(o) == revision < MaxCounter /\ op' = o /\ revision' = revision + 1

QuarantineCall == op.disposition # "Quarantined" /\ Step(Quarantine(op))

DisputeCall ==
    \/ op.integrity # "Disputed" /\ Step(Dispute(op))
    \* Already disputed: phase and knowledge are set without a new revision.
    \/ op.integrity = "Disputed" /\ op' = Dispute(op) /\ UNCHANGED revision

SentCall == CanBeSent(op) /\ Step(Sent(op))

LoseContinuityCall == op.phase # "Settled" /\ Step(LoseContinuity(op))

ObservedRunningCall ==
    \E e \in Evidence : CanBeObservedRunning(op) /\ Step(ObservedRunning(op, e))

\* A conclusion that is settled but whose revision does not move.
ConcludeQuietly ==
    \E outcome \in Outcome, evidence \in SUBSET Evidence :
        /\ CanConclude(outcome, evidence)
        /\ ~AlreadyConcluded(op, outcome, evidence)
        /\ op' = Conclude(op, outcome, evidence)
        /\ UNCHANGED revision

ConcludeCall ==
    \E outcome \in Outcome, evidence \in SUBSET Evidence :
        /\ CanConclude(outcome, evidence)
        /\ ~AlreadyConcluded(op, outcome, evidence)
        /\ Step(Conclude(op, outcome, evidence))

ReleaseCall ==
    \E evidence \in SUBSET Evidence :
        CanRelease(op, evidence) /\ Step(Release(op, evidence))

LedgerNext ==
    \/ QuarantineCall
    \/ DisputeCall
    \/ SentCall
    \/ LoseContinuityCall
    \/ ObservedRunningCall
    \/ ConcludeCall
    \/ ReleaseCall

LedgerSpec == LedgerInit /\ [][LedgerNext]_ledgerVars

-----------------------------------------------------------------------------
LedgerTypeOK == op \in OperationRecord(Evidence) /\ revision \in 1 .. MaxCounter

(* What the methods leave in the store always passes the check of           *)
(* TryFrom<OperationSnapshot>: no order of calls writes an operation that   *)
(* the next read (every handler, and every restart) would refuse.           *)
StoredOperationDecodes == Decodes(op)

(* A recorded outcome is never replaced by another one, a dispute is never  *)
(* withdrawn and no evidence is dropped, whatever evidence comes late       *)
(* (conclude's dispute branch, release's integrity check).                  *)
HistoryIsKept ==
    [][/\ op.outcome # "None" => op'.outcome = op.outcome
       /\ op.integrity = "Disputed" => op'.integrity = "Disputed"
       /\ op.evidence \subseteq op'.evidence]_ledgerVars

(* An approval or release that quotes a revision quotes one decision state: *)
(* the phase, outcome, integrity, disposition and evidence never change     *)
(* under an unchanged revision.  (The knowledge may: dispute() on an        *)
(* already disputed operation resets it without counting.)                  *)
RevisionNamesDecision ==
    [][revision' = revision =>
          [op' EXCEPT !.knowledge = "Unknown"] = [op EXCEPT !.knowledge = "Unknown"]]_ledgerVars
=============================================================================
