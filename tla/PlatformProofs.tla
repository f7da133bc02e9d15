--------------------------- MODULE PlatformProofs ---------------------------
(***************************************************************************)
(* Proofs about the ledger and the platform that keeps it, in four parts:  *)
(* one operation, for every set of evidence and every counter width; the   *)
(* spread of a revocation over connected cells; the authority of runs; and *)
(* the delivery of operations.  The last two are for every number of runs, *)
(* attempts, hosts, operations and resources.                              *)
(***************************************************************************)
EXTENDS PlatformProperties, OperationLifecycle, AffectedCells, TLAPS


-----------------------------------------------------------------------------
(* What each method of an operation does to the record, for any set E of    *)
(* evidence: the facts that the proofs about one operation and about the    *)
(* whole platform share.                                                    *)

(* Every method returns a typed record that decodes when it is given one.  *)
LEMMA MethodsDecode ==
    ASSUME NEW E, NEW o \in OperationRecord(E), Decodes(o)
    PROVE  /\ Quarantine(o) \in OperationRecord(E) /\ Decodes(Quarantine(o))
           /\ Dispute(o) \in OperationRecord(E) /\ Decodes(Dispute(o))
           /\ LoseContinuity(o) \in OperationRecord(E)
           /\ Decodes(LoseContinuity(o))
           /\ CanBeSent(o) => Sent(o) \in OperationRecord(E) /\ Decodes(Sent(o))
           /\ CanBeObservedRunning(o) =>
                \A e \in E : /\ ObservedRunning(o, e) \in OperationRecord(E)
                                    /\ Decodes(ObservedRunning(o, e))
<1> USE DEF OperationRecord, Phase, Knowledge, Outcome, Integrity, Disposition
<1>1. Quarantine(o) \in OperationRecord(E) /\ Decodes(Quarantine(o))
  BY DEF Quarantine, Decodes
<1>2. Dispute(o) \in OperationRecord(E) /\ Decodes(Dispute(o))
  BY DEF Dispute, Decodes
<1>3. LoseContinuity(o) \in OperationRecord(E) /\ Decodes(LoseContinuity(o))
  BY DEF LoseContinuity, Decodes
<1>4. CanBeSent(o) => Sent(o) \in OperationRecord(E) /\ Decodes(Sent(o))
  BY DEF Sent, CanBeSent, Decodes
<1>5. ASSUME CanBeObservedRunning(o), NEW e \in E
      PROVE  ObservedRunning(o, e) \in OperationRecord(E) /\ Decodes(ObservedRunning(o, e))
  BY <1>5 DEF ObservedRunning, CanBeObservedRunning, Decodes
<1> QED
  BY <1>1, <1>2, <1>3, <1>4, <1>5

(* A conclusion with evidence keeps the record readable, and never replaces *)
(* an outcome that is already recorded.                                     *)
LEMMA ConcludeDecodes ==
    ASSUME NEW E, NEW o \in OperationRecord(E), Decodes(o),
           NEW outcome \in Outcome, NEW evidence \in SUBSET E,
           CanConclude(outcome, evidence)
    PROVE  /\ Conclude(o, outcome, evidence) \in OperationRecord(E)
           /\ Decodes(Conclude(o, outcome, evidence))
           /\ o.outcome # "None" => Conclude(o, outcome, evidence).outcome = o.outcome
           /\ o.integrity = "Disputed" => Conclude(o, outcome, evidence).integrity = "Disputed"
           /\ o.evidence \subseteq Conclude(o, outcome, evidence).evidence
<1> USE DEF OperationRecord, Phase, Knowledge, Outcome, Integrity, Disposition
<1>1. TerminalKnowledge(outcome) \in Knowledge
  BY DEF TerminalKnowledge
<1>2. CASE o.phase = "Settled" /\ o.outcome # outcome
  BY <1>2 DEF Conclude, Decodes, CanConclude
<1>3. CASE ~(o.phase = "Settled" /\ o.outcome # outcome)
  <2> DEFINE c == Conclude(o, outcome, evidence)
  <2>1. /\ c.phase = "Settled" /\ c.outcome = outcome /\ c.integrity = o.integrity
        /\ c.knowledge = TerminalKnowledge(outcome)
        /\ c.evidence = o.evidence \cup evidence
        /\ c.disposition = IF outcome = "Unresolved" THEN "Quarantined" ELSE o.disposition
        /\ c \in OperationRecord(E)
    BY <1>1, <1>3 DEF Conclude
  <2>2. Decodes(c)
    BY <2>1 DEF Decodes, CanConclude
  <2> QED
    BY <1>3, <2>1, <2>2 DEF Decodes
<1> QED
  BY <1>2, <1>3

(* A release with evidence keeps the record readable. *)
LEMMA ReleaseDecodes ==
    ASSUME NEW E, NEW o \in OperationRecord(E), Decodes(o),
           NEW evidence \in SUBSET E, CanRelease(o, evidence)
    PROVE  Release(o, evidence) \in OperationRecord(E) /\ Decodes(Release(o, evidence))
BY DEF OperationRecord, Phase, Knowledge, Outcome, Integrity, Disposition,
       Release, CanRelease, Decodes

-----------------------------------------------------------------------------
(* One operation under any sequence of calls.                               *)

(* The inductive step: the typed snapshot check survives every method call. *)
LEMMA StepKeepsDecodes ==
    LedgerTypeOK /\ StoredOperationDecodes /\ [LedgerNext]_ledgerVars => LedgerTypeOK' /\ StoredOperationDecodes'
<1> SUFFICES ASSUME LedgerTypeOK, StoredOperationDecodes, [LedgerNext]_ledgerVars
             PROVE  LedgerTypeOK' /\ StoredOperationDecodes'
  OBVIOUS
<1>0. op \in OperationRecord(Evidence) /\ Decodes(op) /\ revision \in 1 .. MaxCounter
  BY DEF LedgerTypeOK, StoredOperationDecodes
<1>1. ASSUME NEW o, o \in OperationRecord(Evidence), Decodes(o), Step(o)
      PROVE  LedgerTypeOK' /\ StoredOperationDecodes'
  BY <1>0, <1>1, CounterAssumption DEF Step, LedgerTypeOK, StoredOperationDecodes
<1>2. CASE QuarantineCall
  BY <1>0, <1>1, <1>2, MethodsDecode DEF QuarantineCall
<1>3. CASE DisputeCall
  <2>1. Dispute(op) \in OperationRecord(Evidence) /\ Decodes(Dispute(op))
    BY <1>0, MethodsDecode
  <2>2. CASE Step(Dispute(op))
    BY <1>1, <2>1, <2>2
  <2>3. CASE op' = Dispute(op) /\ UNCHANGED revision
    BY <1>0, <2>1, <2>3 DEF LedgerTypeOK, StoredOperationDecodes
  <2> QED
    BY <1>3, <2>2, <2>3 DEF DisputeCall
<1>4. CASE SentCall
  BY <1>0, <1>1, <1>4, MethodsDecode DEF SentCall
<1>5. CASE LoseContinuityCall
  BY <1>0, <1>1, <1>5, MethodsDecode DEF LoseContinuityCall
<1>6. CASE ObservedRunningCall
  <2>1. PICK e \in Evidence : CanBeObservedRunning(op) /\ Step(ObservedRunning(op, e))
    BY <1>6 DEF ObservedRunningCall
  <2> QED
    BY <1>0, <1>1, <2>1, MethodsDecode
<1>7. CASE ConcludeCall
  <2>1. PICK outcome \in Outcome, evidence \in SUBSET Evidence :
             CanConclude(outcome, evidence) /\ Step(Conclude(op, outcome, evidence))
    BY <1>7 DEF ConcludeCall
  <2> QED
    BY <1>0, <1>1, <2>1, ConcludeDecodes
<1>8. CASE ReleaseCall
  <2>1. PICK evidence \in SUBSET Evidence :
             CanRelease(op, evidence) /\ Step(Release(op, evidence))
    BY <1>8 DEF ReleaseCall
  <2> QED
    BY <1>0, <1>1, <2>1, ReleaseDecodes
<1>9. CASE UNCHANGED ledgerVars
  BY <1>9 DEF ledgerVars, LedgerTypeOK, StoredOperationDecodes
<1> QED
  BY <1>2, <1>3, <1>4, <1>5, <1>6, <1>7, <1>8, <1>9 DEF LedgerNext

(* For every set of evidence and every counter width, no sequence of        *)
(* Operation's methods stores a record that TryFrom<OperationSnapshot>      *)
(* would refuse to read back.                                               *)
THEOREM OperationAlwaysDecodes == LedgerSpec => [](LedgerTypeOK /\ StoredOperationDecodes)
<1>1. LedgerInit => LedgerTypeOK /\ StoredOperationDecodes
  BY CounterAssumption
     DEF LedgerInit, Admitted, LedgerTypeOK, StoredOperationDecodes, Decodes, OperationRecord,
         Phase, Knowledge, Outcome, Integrity, Disposition
<1> QED
  BY <1>1, StepKeepsDecodes, PTL DEF LedgerSpec

(* The outcome, the dispute and the evidence of an operation are history:   *)
(* no later call rewrites them.                                             *)
THEOREM OperationHistoryIsKept == LedgerSpec => HistoryIsKept
<1>1. ASSUME LedgerTypeOK, StoredOperationDecodes, [LedgerNext]_ledgerVars
      PROVE  [/\ op.outcome # "None" => op'.outcome = op.outcome
              /\ op.integrity = "Disputed" => op'.integrity = "Disputed"
              /\ op.evidence \subseteq op'.evidence]_ledgerVars
  <2>0. ASSUME NEW outcome \in Outcome, NEW evidence \in SUBSET Evidence,
               CanConclude(outcome, evidence)
        PROVE  LET o == Conclude(op, outcome, evidence) IN
               /\ op.outcome # "None" => o.outcome = op.outcome
               /\ op.integrity = "Disputed" => o.integrity = "Disputed"
               /\ op.evidence \subseteq o.evidence
    BY <1>1, <2>0, ConcludeDecodes DEF LedgerTypeOK, StoredOperationDecodes
  <2> USE DEF LedgerTypeOK, OperationRecord, Step
  <2>1. CASE QuarantineCall
    BY <1>1, <2>1 DEF QuarantineCall, Quarantine
  <2>2. CASE DisputeCall
    BY <1>1, <2>2 DEF DisputeCall, Dispute
  <2>3. CASE SentCall
    BY <1>1, <2>3 DEF SentCall, Sent
  <2>4. CASE LoseContinuityCall
    BY <1>1, <2>4 DEF LoseContinuityCall, LoseContinuity
  <2>5. CASE ObservedRunningCall
    BY <1>1, <2>5 DEF ObservedRunningCall, ObservedRunning
  <2>6. CASE ConcludeCall
    <3>1. PICK outcome \in Outcome, evidence \in SUBSET Evidence :
               CanConclude(outcome, evidence) /\ op' = Conclude(op, outcome, evidence)
      BY <2>6 DEF ConcludeCall
    <3> QED
      BY <2>0, <3>1
  <2>7. CASE ReleaseCall
    BY <1>1, <2>7 DEF ReleaseCall, Release
  <2>8. CASE UNCHANGED ledgerVars
    BY <2>8
  <2> QED
    BY <1>1, <2>1, <2>2, <2>3, <2>4, <2>5, <2>6, <2>7, <2>8 DEF LedgerNext
<1> QED
  BY <1>1, OperationAlwaysDecodes, PTL DEF LedgerSpec, HistoryIsKept

(* A disputed operation that is not settled is being reconciled: dispute()  *)
(* moves it there and only a conclusion takes it away.  Without this fact a *)
(* repeated dispute, which does not count, could move the phase.            *)
DisputedIsReconciling ==
    op.integrity = "Disputed" => op.phase \in {"Reconciling", "Settled"}

(* Every method keeps a disputed operation reconciling or settled.          *)
LEMMA StepKeepsReconciling ==
    ASSUME LedgerTypeOK, StoredOperationDecodes, DisputedIsReconciling, [LedgerNext]_ledgerVars
    PROVE  DisputedIsReconciling'
<1> USE DEF DisputedIsReconciling, LedgerTypeOK, OperationRecord, Step
<1>1. CASE QuarantineCall
  BY <1>1 DEF QuarantineCall, Quarantine
<1>2. CASE DisputeCall
  BY <1>2 DEF DisputeCall, Dispute
<1>3. CASE SentCall
  BY <1>3 DEF SentCall, Sent, CanBeSent
<1>4. CASE LoseContinuityCall
  BY <1>4 DEF LoseContinuityCall, LoseContinuity
<1>5. CASE ObservedRunningCall
  BY <1>5 DEF ObservedRunningCall, ObservedRunning, CanBeObservedRunning
<1>6. CASE ConcludeCall
  BY <1>6 DEF ConcludeCall, Conclude
<1>7. CASE ReleaseCall
  BY <1>7 DEF ReleaseCall, Release, CanRelease
<1>8. CASE UNCHANGED ledgerVars
  BY <1>8 DEF ledgerVars
<1> QED
  BY <1>1, <1>2, <1>3, <1>4, <1>5, <1>6, <1>7, <1>8 DEF LedgerNext

(* An approval that quotes a revision quotes one decision state: the only   *)
(* method that keeps the counter is a repeated dispute(), and it finds the  *)
(* disposition quarantined and the phase reconciling already.               *)
THEOREM RevisionAlwaysNamesDecision == LedgerSpec => RevisionNamesDecision
<1>1. ASSUME LedgerTypeOK, StoredOperationDecodes, DisputedIsReconciling, [LedgerNext]_ledgerVars
      PROVE  [revision' = revision =>
                [op' EXCEPT !.knowledge = "Unknown"] = [op EXCEPT !.knowledge = "Unknown"]]_ledgerVars
  <2>1. ASSUME NEW o, Step(o) PROVE revision' # revision
    BY <1>1, <2>1, CounterAssumption DEF Step, LedgerTypeOK
  <2>2. CASE DisputeCall
    <3>1. CASE op.integrity = "Disputed" /\ op' = Dispute(op)
      <4>1. op.disposition = "Quarantined" /\ op.phase \in {"Reconciling", "Settled"}
        BY <1>1, <3>1 DEF StoredOperationDecodes, Decodes, DisputedIsReconciling
      <4> QED
        BY <1>1, <3>1, <4>1 DEF Dispute, LedgerTypeOK, OperationRecord
    <3> QED
      BY <2>1, <2>2, <3>1 DEF DisputeCall
  <2>3. CASE UNCHANGED ledgerVars
    BY <2>3
  <2>4. CASE QuarantineCall \/ SentCall \/ LoseContinuityCall
    BY <2>1, <2>4 DEF QuarantineCall, SentCall, LoseContinuityCall
  <2>5. CASE ObservedRunningCall \/ ConcludeCall \/ ReleaseCall
    BY <2>1, <2>5 DEF ObservedRunningCall, ConcludeCall, ReleaseCall
  <2> QED
    BY <1>1, <2>2, <2>3, <2>4, <2>5 DEF LedgerNext
<1>2. LedgerInit => DisputedIsReconciling
  BY DEF LedgerInit, Admitted, DisputedIsReconciling
<1> QED
  BY <1>1, <1>2, OperationAlwaysDecodes, StepKeepsReconciling, PTL
     DEF LedgerSpec, RevisionNamesDecision

-----------------------------------------------------------------------------
(* The cells a revocation reaches.                                          *)

(* The caller's loop has revoked whole groups of connected cells, each once; *)
(* the closure under construction is apart from them, grows from an origin  *)
(* and, when it is applied, is whole.  RevocationIsWhole only speaks of the *)
(* moments between two closures.                                            *)
ClosureInv ==
    /\ origins \subseteq Cells /\ selected \subseteq Cells /\ visited \subseteq Cells
    /\ pc \in {"scan", "widen", "apply", "done"}
    /\ hits = [c \in Cells |-> IF c \in visited THEN 1 ELSE 0]
    /\ Whole(visited)
    /\ \A c \in visited : \E o \in origins : ConnectedWith(o, c)
    /\ pc \in {"widen", "apply"} =>
          /\ selected \cap visited = {}
          /\ \E o \in origins : o \in selected /\ \A c \in selected : ConnectedWith(o, c)
    /\ pc = "apply" => Whole(selected)
    /\ pc = "done" => origins \subseteq visited

(* One round of affected_cells_from adds the cells that share a name with a *)
(* selected one, and only these.                                            *)
LEMMA ReachedShares ==
    ASSUME NEW S \in SUBSET Cells, NEW c \in Cells
    PROVE  /\ c \in Reached(S) => \E d \in S : Shares(d, c)
           /\ c \in Reached(S) \cup S <=> \E d \in S : Shares(d, c)
BY DEF Reached, Shares

(* Sharing is mutual: what is outside a whole group shares nothing with it. *)
LEMMA OutsideIsApart ==
    ASSUME NEW G \in SUBSET Cells, Whole(G), NEW c \in Cells \ G, NEW d \in G
    PROVE  ~Shares(d, c) /\ ~Shares(c, d)
BY DEF Whole, Shares

(* A chain of shared names may be continued by one more.                    *)
LEMMA ChainContinues ==
    ASSUME NEW o \in Cells, NEW d \in Cells, NEW c \in Cells,
           ConnectedWith(o, d), Shares(d, c)
    PROVE  ConnectedWith(o, c)
BY DEF ConnectedWith, Whole

(* The rounds of the loop keep ClosureInv.                                  *)
LEMMA ClosureStep == ClosureInv /\ [ClosureNext]_closureVars => ClosureInv'
<1> SUFFICES ASSUME ClosureInv, [ClosureNext]_closureVars PROVE ClosureInv'
  OBVIOUS
<1>0. /\ origins \subseteq Cells /\ selected \subseteq Cells /\ visited \subseteq Cells
      /\ hits = [c \in Cells |-> IF c \in visited THEN 1 ELSE 0]
      /\ Whole(visited)
      /\ \A c \in visited : \E o \in origins : ConnectedWith(o, c)
  BY DEF ClosureInv
<1>2. ASSUME uses' = uses, NEW o, NEW c PROVE ConnectedWith(o, c)' <=> ConnectedWith(o, c)
  BY <1>2 DEF ConnectedWith, Whole, Shares
<1>3. ASSUME NEW c \in Cells, Pick(c) PROVE ClosureInv'
  <2>1. /\ c \in origins \ visited /\ selected' = {c} /\ pc' = "widen"
        /\ UNCHANGED <<uses, origins, visited, hits>>
    BY <1>3 DEF Pick
  <2>2. ConnectedWith(c, c)
    BY DEF ConnectedWith
  <2>3. Whole(visited)' /\ \A d \in visited : \E o \in origins : ConnectedWith(o, d)'
    BY <1>0, <1>2, <2>1 DEF Whole, Shares
  <2> QED
    BY <1>0, <1>2, <2>1, <2>2, <2>3 DEF ClosureInv
<1>4. CASE Widen
  <2>1. /\ pc = "widen" /\ selected' = selected \cup Reached(selected)
        /\ pc' = IF selected' = selected THEN "apply" ELSE "widen"
        /\ UNCHANGED <<uses, origins, visited, hits>>
    BY <1>4 DEF Widen
  <2>2. PICK o \in origins : o \in selected /\ \A c \in selected : ConnectedWith(o, c)
    BY <2>1 DEF ClosureInv
  <2>3. selected \cap visited = {} /\ selected' \subseteq Cells
    BY <1>0, <2>1 DEF ClosureInv, Reached
  <2>4. ASSUME NEW c \in selected' PROVE ConnectedWith(o, c) /\ c \notin visited
    <3>1. PICK d \in selected : Shares(d, c)
      BY <1>0, <2>1, <2>3, ReachedShares
    <3> QED
      BY <1>0, <2>2, <2>3, <3>1, ChainContinues, OutsideIsApart
  <2>5. selected' = selected => Whole(selected)
    BY <1>0, <2>1, ReachedShares DEF Whole
  <2>6. Whole(visited)' /\ \A d \in visited : \E p \in origins : ConnectedWith(p, d)'
    BY <1>0, <1>2, <2>1 DEF Whole, Shares
  <2>7. pc' = "apply" => Whole(selected)'
    BY <2>1, <2>5 DEF Whole, Shares
  <2>8. \A c \in selected' : ConnectedWith(o, c)'
    BY <1>2, <2>1, <2>4
  <2> QED
    BY <1>0, <2>1, <2>2, <2>3, <2>4, <2>6, <2>7, <2>8 DEF ClosureInv
<1>5. CASE Apply
  <2>1. /\ pc = "apply" /\ pc' = "scan" /\ visited' = visited \cup selected
        /\ hits' = [c \in Cells |-> IF c \in selected THEN hits[c] + 1 ELSE hits[c]]
        /\ UNCHANGED <<uses, origins, selected>>
    BY <1>5 DEF Apply
  <2>2. PICK o \in origins : \A c \in selected : ConnectedWith(o, c)
    BY <2>1 DEF ClosureInv
  <2>3. selected \cap visited = {} /\ Whole(selected)
    BY <2>1 DEF ClosureInv
  <2>4. hits' = [c \in Cells |-> IF c \in visited' THEN 1 ELSE 0]
    BY <1>0, <2>1, <2>3
  <2>5. Whole(visited)'
    BY <1>0, <2>1, <2>3 DEF Whole, Shares
  <2>6. \A c \in visited' : \E p \in origins : ConnectedWith(p, c)'
    BY <1>0, <1>2, <2>1, <2>2
  <2> QED
    BY <1>0, <2>1, <2>4, <2>5, <2>6 DEF ClosureInv
<1>6. CASE Finish
  <2>1. pc' = "done" /\ origins \subseteq visited /\ UNCHANGED <<uses, origins, selected, visited, hits>>
    BY <1>6 DEF Finish
  <2>2. Whole(visited)' /\ \A d \in visited : \E p \in origins : ConnectedWith(p, d)'
    BY <1>0, <1>2, <2>1 DEF Whole, Shares
  <2> QED
    BY <1>0, <2>1, <2>2 DEF ClosureInv
<1>7. CASE UNCHANGED closureVars
  BY <1>7 DEF closureVars, ClosureInv, ConnectedWith, Whole, Shares
<1> QED
  BY <1>3, <1>4, <1>5, <1>6, <1>7 DEF ClosureNext

(* For any number of cells and any way they share scopes and resources, a   *)
(* finished revocation has invalidated exactly the cells connected with one *)
(* it was asked about, each once, and at no moment between two closures is  *)
(* a cell revoked without those that share a name with it.                  *)
THEOREM RevocationIsAlwaysWhole == ClosureSpec => []RevocationIsWhole
<1>1. ClosureInit => ClosureInv
  BY DEF ClosureInit, ClosureInv, Whole
<1>2. ClosureInv => RevocationIsWhole
  <2> SUFFICES ASSUME ClosureInv PROVE RevocationIsWhole
    OBVIOUS
  <2>1. /\ hits = [c \in Cells |-> IF c \in visited THEN 1 ELSE 0] /\ Whole(visited)
        /\ origins \subseteq Cells /\ visited \subseteq Cells
        /\ \A c \in visited : \E o \in origins : ConnectedWith(o, c)
        /\ pc = "done" => origins \subseteq visited
    BY DEF ClosureInv
  <2>2. NoHalfRevokedGroup
    BY <2>1, OutsideIsApart DEF NoHalfRevokedGroup, Whole
  <2>3. ASSUME pc = "done", NEW o \in origins, NEW c \in Cells, ConnectedWith(o, c)
        PROVE  c \in visited
    BY <2>1, <2>3 DEF ConnectedWith
  <2>4. RevokesConnectedCellsOnce
    BY <2>1, <2>3 DEF RevokesConnectedCellsOnce
  <2> QED
    BY <2>2, <2>4 DEF RevocationIsWhole
<1> QED
  BY <1>1, <1>2, ClosureStep, PTL DEF ClosureSpec

-----------------------------------------------------------------------------
(***************************************************************************)
(* Live authority is always current, for every number of runs, attempts,   *)
(* hosts, operations and resources.                                        *)
(*                                                                         *)
(* AuthorityIsCurrent is not inductive.  complete_part_transition closes a *)
(* run without looking at its permits: that none of them is still issued   *)
(* follows from the budget (an issued permit belongs to a part that was    *)
(* begun), from the parts done (all their steps succeeded) and from the    *)
(* evidence that made them succeed (it spent the permit).  AuthorityInv    *)
(* adds these facts and the links between attempts, mandates and runs.     *)
(***************************************************************************)


(***************************************************************************)
(* The records of the platform stay well formed, for every number of runs, *)
(* attempts, hosts, operations and resources.                              *)
(*                                                                         *)
(* TypeOK alone is not enough for the work records: that conclude() keeps  *)
(* a record readable depends on its being readable before, so the two are  *)
(* one inductive invariant.  The proof follows the next-state relation,    *)
(* with one lemma for each of its groups of actions.                       *)
(***************************************************************************)
(* The record updates of the handlers are typed. *)
LEMMA RunUpdates ==
    ASSUME NEW x \in RunRecord, NEW a \in Attempts, NEW s \in Session
    PROVE  /\ \A limit \in 0 .. MaxBudget, purpose \in {"Production", "Setup"} :
                 [x EXCEPT !.limit = limit, !.purpose = purpose, !.pending = a] \in RunRecord
           /\ [x EXCEPT !.state = "Executing", !.pending = Nil, !.session = s,
                        !.mandate = a] \in RunRecord
           /\ [x EXCEPT !.state = "Abandoned", !.session = s] \in RunRecord
           /\ [x EXCEPT !.pending = Nil] \in RunRecord
           /\ \A n \in 0 .. MaxBudget : [x EXCEPT !.used = n] \in RunRecord
           /\ \A done \in SUBSET (1 .. MaxBudget), state \in {"Completed", x.state} :
                 [x EXCEPT !.done = done, !.state = state] \in RunRecord
<1>1. ASSUME NEW limit \in 0 .. MaxBudget, NEW purpose \in {"Production", "Setup"}
      PROVE  [x EXCEPT !.limit = limit, !.purpose = purpose, !.pending = a] \in RunRecord
  BY DEF RunRecord
<1>2. [x EXCEPT !.state = "Executing", !.pending = Nil, !.session = s,
                !.mandate = a] \in RunRecord
  BY DEF RunRecord
<1>3. /\ [x EXCEPT !.state = "Abandoned", !.session = s] \in RunRecord
      /\ [x EXCEPT !.pending = Nil] \in RunRecord
  BY DEF RunRecord
<1>4. ASSUME NEW n \in 0 .. MaxBudget PROVE [x EXCEPT !.used = n] \in RunRecord
  BY DEF RunRecord
<1>5. ASSUME NEW done \in SUBSET (1 .. MaxBudget), NEW state \in {"Completed", x.state}
      PROVE  [x EXCEPT !.done = done, !.state = state] \in RunRecord
  BY DEF RunRecord
<1> QED
  BY <1>1, <1>2, <1>3, <1>4, <1>5

\* The updates of a start attempt are typed.
LEMMA AttemptUpdates ==
    ASSUME NEW x \in AttemptRecord, NEW h \in Hosts
    PROVE  /\ [x EXCEPT !.acks = @ \cup {h}, !.status = "Started"] \in AttemptRecord
           /\ [x EXCEPT !.acks = @ \cup {h}] \in AttemptRecord
           /\ [x EXCEPT !.status = "Rejected"] \in AttemptRecord
<1>1. x.acks \cup {h} \in SUBSET Hosts
  BY DEF AttemptRecord
<1> QED
  BY <1>1 DEF AttemptRecord

(* The values an invalidation writes are typed. *)
LEMMA RevokedTypes ==
    /\ cell \in CellRecord /\ cell.epoch < MaxEpoch /\ cell.revision < MaxRevision =>
          \A qualified \in BOOLEAN : RevokedCell(qualified) \in CellRecord
    /\ \A x \in AttemptRecord : RejectIfArming(x) \in AttemptRecord
    /\ \A m \in MandateRecord : RevokeIfActive(m) \in MandateRecord
    /\ \A p \in PermitRecord : VoidIfIssued(p) \in PermitRecord
    /\ \A x \in ResourceRecord : QuarantineIfHeld(x) \in ResourceRecord
<1>1. ASSUME cell \in CellRecord, cell.epoch < MaxEpoch, cell.revision < MaxRevision,
             NEW qualified \in BOOLEAN
      PROVE  RevokedCell(qualified) \in CellRecord
  <2>1. cell.epoch + 1 \in Epoch /\ cell.revision + 1 \in 1 .. MaxRevision
    BY <1>1, BoundAssumption DEF CellRecord, Epoch
  <2> QED
    BY <1>1, <2>1 DEF RevokedCell, CellRecord
<1>2. \A x \in AttemptRecord : RejectIfArming(x) \in AttemptRecord
  BY DEF RejectIfArming, AttemptRecord
<1>3. \A m \in MandateRecord : RevokeIfActive(m) \in MandateRecord
  BY DEF RevokeIfActive, MandateRecord
<1>4. \A p \in PermitRecord : VoidIfIssued(p) \in PermitRecord
  BY DEF VoidIfIssued, PermitRecord
<1>5. \A x \in ResourceRecord : QuarantineIfHeld(x) \in ResourceRecord
  BY DEF QuarantineIfHeld, ResourceRecord
<1> QED
  BY <1>1, <1>2, <1>3, <1>4, <1>5

(* What an invalidation makes of one operation is typed and can be read back. *)
LEMMA InvalidatedTypes ==
    ASSUME NEW o \in Ops, NEW w \in [Ops -> OperationRecord(EvidenceKind)],
           Decodes(w[o]), NEW au
    PROVE  /\ Invalidated(o, w, au) \in OperationRecord(EvidenceKind)
           /\ Decodes(Invalidated(o, w, au))
<1> DEFINE c == IF w[o].outcome # "None" THEN w[o]
                ELSE IF (prepareRow[o] = "New" \/ au[o] = "New") /\ w[o].knowledge = "NotSent"
                  THEN Conclude(w[o], "NotExecuted", {"void"})
                  ELSE LoseContinuity(w[o])
<1>1. w[o] \in OperationRecord(EvidenceKind)
  OBVIOUS
<1>2. /\ Conclude(w[o], "NotExecuted", {"void"}) \in OperationRecord(EvidenceKind)
      /\ Decodes(Conclude(w[o], "NotExecuted", {"void"}))
  <2>1. CanConclude("NotExecuted", {"void"}) /\ "NotExecuted" \in Outcome
        /\ {"void"} \in SUBSET EvidenceKind
    BY DEF CanConclude, Outcome, EvidenceKind
  <2> QED
    BY <1>1, <2>1, ConcludeDecodes
<1>3. c \in OperationRecord(EvidenceKind) /\ Decodes(c)
  BY <1>1, <1>2, MethodsDecode
<1>4. Quarantine(c) \in OperationRecord(EvidenceKind) /\ Decodes(Quarantine(c))
  BY <1>3, MethodsDecode
<1> QED
  BY <1>3, <1>4 DEF Invalidated

(* One invalidation step writes typed values, whatever a handler did before *)
(* it in the same transaction.                                              *)
LEMMA InvalidateCellTypes ==
    ASSUME PlatformTypeOK, NEW paused, NEW qualified \in BOOLEAN,
           NEW w \in [Ops -> OperationRecord(EvidenceKind)], \A o \in Ops : Decodes(w[o]),
           NEW p \in [Ops -> PermitRecord], NEW au \in [Ops -> OutboxState],
           InvalidateCell(paused, qualified, w, p, au)
    PROVE  /\ cell' \in CellRecord
           /\ run' \in [Runs -> RunRecord]
           /\ attempt' \in [Attempts -> AttemptRecord]
           /\ mandate' \in [Attempts -> MandateRecord]
           /\ permit' \in [Ops -> PermitRecord]
           /\ work' \in [Ops -> OperationRecord(EvidenceKind)] /\ StoredWorkDecodes'
           /\ prepareRow' \in [Ops -> OutboxState] /\ authorizeRow' \in [Ops -> OutboxState]
           /\ resource' \in [Resources -> ResourceRecord]
           /\ fenceRow' \in [Hosts \X Epoch -> OutboxState]
<1>0. /\ cell \in CellRecord /\ run \in [Runs -> RunRecord]
      /\ attempt \in [Attempts -> AttemptRecord] /\ mandate \in [Attempts -> MandateRecord]
      /\ prepareRow \in [Ops -> OutboxState] /\ resource \in [Resources -> ResourceRecord]
      /\ fenceRow \in [Hosts \X Epoch -> OutboxState]
  BY DEF PlatformTypeOK
<1>1. cell' \in CellRecord
  BY <1>0, RevokedTypes DEF InvalidateCell
<1>2. run' \in [Runs -> RunRecord]
  <2>1. ASSUME NEW r \in Runs PROVE InvalidateRun(r, paused) \in RunRecord
    <3>1. 0 \in Session
      BY BoundAssumption DEF Session
    <3> QED
      BY <1>0, <3>1 DEF InvalidateRun, RunRecord
  <2> QED
    BY <2>1 DEF InvalidateCell
<1>3. attempt' \in [Attempts -> AttemptRecord]
  BY <1>0, RevokedTypes DEF InvalidateCell
<1>4. mandate' \in [Attempts -> MandateRecord]
  BY <1>0, RevokedTypes DEF InvalidateCell
<1>5. permit' \in [Ops -> PermitRecord]
  BY RevokedTypes DEF InvalidateCell
<1>6. work' \in [Ops -> OperationRecord(EvidenceKind)] /\ StoredWorkDecodes'
  BY InvalidatedTypes DEF InvalidateCell, StoredWorkDecodes
<1>7. prepareRow' \in [Ops -> OutboxState] /\ authorizeRow' \in [Ops -> OutboxState]
  BY <1>0 DEF InvalidateCell, VoidNew, OutboxState
<1>8. resource' \in [Resources -> ResourceRecord]
  BY <1>0, RevokedTypes DEF InvalidateCell
<1>9. fenceRow' \in [Hosts \X Epoch -> OutboxState]
  BY <1>0 DEF InvalidateCell, OutboxState
<1> QED
  BY <1>1, <1>2, <1>3, <1>4, <1>5, <1>6, <1>7, <1>8, <1>9

\* invalidate_cell keeps the records typed and the work records readable.
LEMMA InvalidateTypes ==
    ASSUME PlatformTypeOK, StoredWorkDecodes, NEW paused, Invalidate(paused),
           lifecycle' \in {"Serving", "StopRequested", "StopCommitted"},
           executor' \in [session : Session, live : BOOLEAN],
           host' \in [Hosts -> [registration : {"None", "Live", "Retired"}, epoch : Epoch]]
    PROVE  PlatformTypeOK' /\ StoredWorkDecodes'
<1>1. /\ cell.qualified \in BOOLEAN /\ work \in [Ops -> OperationRecord(EvidenceKind)]
      /\ permit \in [Ops -> PermitRecord] /\ authorizeRow \in [Ops -> OutboxState]
  BY DEF PlatformTypeOK, CellRecord
<1>2. /\ InvalidateCell(paused, cell.qualified, work, permit, authorizeRow)
      /\ UNCHANGED <<activation, invocation, ingested, armRow>>
  BY DEF Invalidate
<1>3. \A o \in Ops : Decodes(work[o])
  BY DEF StoredWorkDecodes
<1>4. /\ cell' \in CellRecord /\ run' \in [Runs -> RunRecord]
      /\ attempt' \in [Attempts -> AttemptRecord] /\ mandate' \in [Attempts -> MandateRecord]
      /\ permit' \in [Ops -> PermitRecord]
      /\ work' \in [Ops -> OperationRecord(EvidenceKind)] /\ StoredWorkDecodes'
      /\ prepareRow' \in [Ops -> OutboxState] /\ authorizeRow' \in [Ops -> OutboxState]
      /\ resource' \in [Resources -> ResourceRecord]
      /\ fenceRow' \in [Hosts \X Epoch -> OutboxState]
  BY <1>1, <1>2, <1>3, InvalidateCellTypes
<1> QED
  BY <1>1, <1>4 DEF PlatformTypeOK, Invalidate

(* Starting, arming, pausing and abandoning runs. *)
LEMMA StartStepTypes ==
    ASSUME PlatformTypeOK, StoredWorkDecodes, StartStep
    PROVE  PlatformTypeOK' /\ StoredWorkDecodes'
<1> USE DEF runtimeVars, cellVars, startVars, workVars
<1>0. /\ run \in [Runs -> RunRecord] /\ attempt \in [Attempts -> AttemptRecord]
      /\ mandate \in [Attempts -> MandateRecord] /\ cell \in CellRecord
      /\ armRow \in [Attempts \X Hosts -> OutboxState]
      /\ executor \in [session : Session, live : BOOLEAN]
  BY DEF PlatformTypeOK
<1>1. ASSUME NEW r \in Runs, CreateRun(r)
      PROVE  PlatformTypeOK' /\ StoredWorkDecodes'
  <2>1. run' \in [Runs -> RunRecord]
    BY <1>0, <1>1 DEF CreateRun, RunRecord
  <2> QED
    BY <1>1, <2>1 DEF CreateRun, PlatformTypeOK, StoredWorkDecodes
<1>2. ASSUME NEW r \in Runs, PauseRun(r)
      PROVE  PlatformTypeOK' /\ StoredWorkDecodes'
  <2>1. CASE Invalidate(r) /\ UNCHANGED <<runtimeVars, host>>
    BY <2>1, InvalidateTypes DEF PlatformTypeOK
  <2>2. CASE /\ run' = [run EXCEPT ![r].state = "Paused"]
             /\ UNCHANGED <<runtimeVars, cellVars, attempt, mandate, armRow, workVars,
                            fenceRow, ingested>>
    <3>1. run' \in [Runs -> RunRecord]
      BY <1>0, <2>2 DEF RunRecord
    <3> QED
      BY <2>2, <3>1 DEF PlatformTypeOK, StoredWorkDecodes
  <2> QED
    BY <1>2, <2>1, <2>2 DEF PauseRun
<1>3. ASSUME NEW r \in Runs, AbandonRun(r)
      PROVE  PlatformTypeOK' /\ StoredWorkDecodes'
  <2>1. 0 \in Session
    BY BoundAssumption DEF Session
  <2>2. [run[r] EXCEPT !.state = "Abandoned", !.session = 0] \in RunRecord
    BY <1>0, <2>1 DEF RunRecord
  <2>3. run' \in [Runs -> RunRecord]
    BY <1>0, <1>3, <2>2 DEF AbandonRun
  <2> QED
    BY <1>3, <2>3 DEF AbandonRun, PlatformTypeOK, StoredWorkDecodes
<1>4. ASSUME NEW r \in Runs, NEW a \in Attempts, NEW purpose \in {"Production", "Setup"},
             NEW limit \in 1 .. MaxBudget, StartRun(r, a, purpose, limit)
      PROVE  PlatformTypeOK' /\ StoredWorkDecodes'
  <2>1. limit \in 0 .. MaxBudget
    BY BoundAssumption
  <2>2. run' \in [Runs -> RunRecord]
    <3>1. [run[r] EXCEPT !.limit = limit, !.purpose = purpose, !.pending = a] \in RunRecord
      <4>1. run[r] \in RunRecord /\ executor.session \in Session
        BY <1>0
      <4> QED
        BY <2>1, <4>1, RunUpdates
    <3> QED
      BY <1>0, <1>4, <3>1 DEF StartRun
  <2>3. attempt' \in [Attempts -> AttemptRecord]
    BY <1>0, <1>4 DEF StartRun, AttemptRecord, CellRecord
  <2>4. armRow' \in [Attempts \X Hosts -> OutboxState]
    BY <1>0, <1>4 DEF StartRun, OutboxState
  <2> QED
    BY <1>4, <2>2, <2>3, <2>4 DEF StartRun, PlatformTypeOK, StoredWorkDecodes
<1>5. ASSUME NEW a \in Attempts, NEW h \in Hosts, PlanArm(a, h)
      PROVE  PlatformTypeOK' /\ StoredWorkDecodes'
  <2>1. armRow' \in [Attempts \X Hosts -> OutboxState]
    BY <1>0, <1>5 DEF PlanArm, OutboxState
  <2> QED
    BY <1>5, <2>1 DEF PlanArm, PlatformTypeOK, StoredWorkDecodes
<1>6. ASSUME NEW a \in Attempts, NEW h \in Hosts, NEW expired \in BOOLEAN,
             AcknowledgeArm(a, h, expired)
      PROVE  PlatformTypeOK' /\ StoredWorkDecodes'
  <2>1. armRow' \in [Attempts \X Hosts -> OutboxState]
    BY <1>0, <1>6 DEF AcknowledgeArm, FinishArmOutbox, OutboxState
  <2>2. /\ run' \in [Runs -> RunRecord] /\ attempt' \in [Attempts -> AttemptRecord]
        /\ mandate' \in [Attempts -> MandateRecord] /\ cell' \in CellRecord
    <3>1. CASE RejectAttempt(a)
      <4>1. attempt' \in [Attempts -> AttemptRecord]
        BY <1>0, <3>1, AttemptUpdates DEF RejectAttempt
      <4>2. run' \in [Runs -> RunRecord]
        <5>1. ASSUME NEW r \in Runs PROVE [run[r] EXCEPT !.pending = Nil] \in RunRecord
          BY <1>0, RunUpdates
        <5> QED
          BY <1>0, <3>1, <5>1 DEF RejectAttempt
      <4> QED
        BY <1>0, <3>1, <4>1, <4>2 DEF RejectAttempt
    <3>2. CASE CreateMandate(a, h)
      <4>1. cell.revision < MaxRevision => cell.revision + 1 \in 1 .. MaxRevision
        BY <1>0, BoundAssumption DEF CellRecord
      <4>2. cell' \in CellRecord
        BY <1>0, <3>2, <4>1 DEF CreateMandate, CellRecord
      <4>3. attempt' \in [Attempts -> AttemptRecord]
        <5> DEFINE last == [attempt[a] EXCEPT !.acks = @ \cup {h}, !.status = "Started"]
        <5>1. attempt' = [attempt EXCEPT ![a] = last]
          BY <3>2 DEF CreateMandate
        <5>2. last \in AttemptRecord
          BY <1>0, AttemptUpdates
        <5> HIDE DEF last
        <5> QED
          BY <1>0, <5>1, <5>2
      <4>4. mandate' \in [Attempts -> MandateRecord]
        BY <1>0, <3>2 DEF CreateMandate, MandateRecord, CellRecord
      <4>5. run' \in [Runs -> RunRecord]
        <5> DEFINE r == attempt[a].run
                   started == [run[r] EXCEPT !.state = "Executing", !.pending = Nil,
                                             !.session = executor.session, !.mandate = a]
        <5>1. run' = [run EXCEPT ![r] = started]
          BY <3>2 DEF CreateMandate
        <5>2. r \in Runs => started \in RunRecord
          BY <1>0, RunUpdates
        <5> HIDE DEF started, r
        <5> QED
          BY <1>0, <5>1, <5>2
      <4> QED
        BY <4>2, <4>3, <4>4, <4>5
    <3>3. CASE /\ attempt' = [attempt EXCEPT ![a].acks = @ \cup {h}]
               /\ UNCHANGED <<cell, run, mandate>>
      BY <1>0, <3>3 DEF AttemptRecord
    <3>4. CASE UNCHANGED <<cell, run, attempt, mandate>>
      BY <1>0, <3>4
    <3> QED
      BY <1>6, <3>1, <3>2, <3>3, <3>4 DEF AcknowledgeArm, AcceptAcknowledgment
  <2> QED
    BY <1>6, <2>1, <2>2 DEF AcknowledgeArm, PlatformTypeOK, StoredWorkDecodes
<1> QED
  BY <1>1, <1>2, <1>3, <1>4, <1>5, <1>6 DEF StartStep

(* What a receipt makes of an operation is typed and can be read back. *)
LEMMA ReceiptTypes ==
    ASSUME NEW o \in Ops, work \in [Ops -> OperationRecord(EvidenceKind)], StoredWorkDecodes,
           NEW state
    PROVE  ReceiptWork(o, state) \in OperationRecord(EvidenceKind) /\ Decodes(ReceiptWork(o, state))
<1>1. work[o] \in OperationRecord(EvidenceKind) /\ Decodes(work[o])
  BY DEF StoredWorkDecodes
<1>2. /\ Conclude(work[o], "NotExecuted", {"void"}) \in OperationRecord(EvidenceKind)
      /\ Decodes(Conclude(work[o], "NotExecuted", {"void"}))
  <2>1. CanConclude("NotExecuted", {"void"}) /\ "NotExecuted" \in Outcome
        /\ {"void"} \in SUBSET EvidenceKind
    BY DEF CanConclude, Outcome, EvidenceKind
  <2> QED
    BY <1>1, <2>1, ConcludeDecodes
<1>3. work[o].phase = "Admitted" =>
         Sent(work[o]) \in OperationRecord(EvidenceKind) /\ Decodes(Sent(work[o]))
  BY <1>1 DEF Sent, OperationRecord, Phase, Knowledge, Outcome, Integrity, Disposition, Decodes
<1> QED
  BY <1>1, <1>2, <1>3 DEF ReceiptWork

(* What native evidence makes of an operation is typed and can be read back. *)
LEMMA EvidenceTypes ==
    ASSUME NEW o \in Ops, work \in [Ops -> OperationRecord(EvidenceKind)], StoredWorkDecodes,
           NEW outcome \in {"None", "Succeeded", "Failed"}
    PROVE  /\ WorkAfterEvidence(o, outcome) \in OperationRecord(EvidenceKind)
           /\ Decodes(WorkAfterEvidence(o, outcome))
           /\ work[o].outcome # "None" => WorkAfterEvidence(o, outcome).outcome = work[o].outcome
<1>1. work[o] \in OperationRecord(EvidenceKind) /\ Decodes(work[o])
  BY DEF StoredWorkDecodes
<1>2. CASE outcome # "None"
  <2>1. CanConclude(outcome, {"native"}) /\ outcome \in Outcome
        /\ {"native"} \in SUBSET EvidenceKind
    BY <1>2 DEF CanConclude, Outcome, EvidenceKind
  <2> QED
    BY <1>1, <1>2, <2>1, ConcludeDecodes DEF WorkAfterEvidence
<1>3. CASE outcome = "None"
  <2>1. LoseContinuity(work[o]) \in OperationRecord(EvidenceKind) /\ Decodes(LoseContinuity(work[o]))
    BY <1>1, MethodsDecode
  <2>2. LoseContinuity(work[o]).outcome = work[o].outcome
    BY <1>1 DEF LoseContinuity, OperationRecord
  <2> QED
    BY <1>3, <2>1, <2>2 DEF WorkAfterEvidence
<1> QED
  BY <1>2, <1>3

(* Parts, activations, submission, delivery, receipts, evidence, handover. *)
LEMMA DispatchStepTypes ==
    ASSUME TypeOK, StoredWorkDecodes, DispatchStep
    PROVE  TypeOK' /\ StoredWorkDecodes'
<1> USE DEF runtimeVars, cellVars, startVars, workVars, hostVars
<1>0. /\ PlatformTypeOK /\ HostTypeOK
      /\ run \in [Runs -> RunRecord] /\ work \in [Ops -> OperationRecord(EvidenceKind)]
      /\ permit \in [Ops -> PermitRecord] /\ authorizeRow \in [Ops -> OutboxState]
      /\ prepareRow \in [Ops -> OutboxState] /\ RunOf \in [Ops -> Runs]
  BY SlotAssumption DEF TypeOK, PlatformTypeOK
<1>a. /\ mandate \in [Attempts -> MandateRecord] /\ executor.session \in Session
      /\ cell.epoch \in Epoch /\ cell.qualified \in BOOLEAN
      /\ \A r \in Runs : run[r].mandate \in Attempts \cup {Nil}
      /\ resource \in [Resources -> ResourceRecord]
      /\ \A r \in Resources : resource[r].quarantined \in BOOLEAN
  BY <1>0 DEF PlatformTypeOK, CellRecord, RunRecord, ResourceRecord
<1>b. \A r \in Runs : /\ run[r].used \in 0 .. MaxBudget /\ run[r].limit \in 0 .. MaxBudget
                      /\ run[r].used < run[r].limit => run[r].used + 1 \in 0 .. MaxBudget
                      /\ run[r].done \in SUBSET (1 .. MaxBudget)
  BY <1>0, BoundAssumption DEF RunRecord
<1>c. \A o \in Ops : Decodes(work[o])
  BY DEF StoredWorkDecodes
<1>1. ASSUME NEW r \in Runs, BeginPart(r)
      PROVE  TypeOK' /\ StoredWorkDecodes'
  <2> DEFINE n == run[r].used + 1
  <2>1. run' = [run EXCEPT ![r] = [run[r] EXCEPT !.used = n]]
    BY <1>0, <1>1 DEF BeginPart
  <2>2. [run[r] EXCEPT !.used = n] \in RunRecord
    <3>1. n \in 0 .. MaxBudget
      BY <1>1, <1>b DEF BeginPart
    <3> HIDE DEF n
    <3> QED
      BY <1>0, <3>1 DEF RunRecord
  <2>3. run' \in [Runs -> RunRecord]
    BY <1>0, <2>1, <2>2
  <2> QED
    BY <1>0, <1>1, <2>3 DEF BeginPart, TypeOK, PlatformTypeOK, HostTypeOK, StoredWorkDecodes
<1>2. ASSUME NEW r \in Runs, NEW part \in 1 .. MaxBudget, CompletePart(r, part)
      PROVE  TypeOK' /\ StoredWorkDecodes'
  <2> DEFINE done == run[r].done \cup {part}
             finished == done = 1 .. run[r].used /\ run[r].used = run[r].limit
             next == [run[r] EXCEPT !.done = done,
                                    !.state = IF finished THEN "Completed" ELSE run[r].state]
  <2>1. run' = [run EXCEPT ![r] = next]
    BY <1>2 DEF CompletePart
  <2>2. next \in RunRecord
    <3>1. done \in SUBSET (1 .. MaxBudget)
      BY <1>b
    <3> HIDE DEF done, finished
    <3>2. (IF finished THEN "Completed" ELSE run[r].state) \in {"Completed", run[r].state}
      OBVIOUS
    <3>3. run[r] \in RunRecord
      BY <1>0
    <3> QED
      BY <3>1, <3>2, <3>3 DEF RunRecord
  <2>3. run' \in [Runs -> RunRecord]
    <3> HIDE DEF next
    <3> QED
      BY <1>0, <2>1, <2>2
  <2>4. mandate' \in [Attempts -> MandateRecord]
    <3>1. mandate' = [mandate EXCEPT ![run[r].mandate].state = "Exhausted"] \/ mandate' = mandate
      BY <1>2 DEF CompletePart
    <3> QED
      BY <1>a, <3>1 DEF MandateRecord
  <2> QED
    BY <1>0, <1>2, <2>3, <2>4
       DEF CompletePart, TypeOK, PlatformTypeOK, HostTypeOK, StoredWorkDecodes
<1>3. ASSUME NEW o \in Ops, ResolveActivation(o)
      PROVE  TypeOK' /\ StoredWorkDecodes'
  BY <1>0, <1>3 DEF ResolveActivation, TypeOK, PlatformTypeOK, HostTypeOK, StoredWorkDecodes
<1>4. ASSUME NEW o \in Ops, Submit(o)
      PROVE  TypeOK' /\ StoredWorkDecodes'
  <2> DEFINE r == RunOf[o]
             n == IF run[r].purpose = "Setup" THEN run[r].used + 1 ELSE run[r].used
  <2>1. r \in Runs /\ run[r] \in RunRecord
    BY <1>0
  <2>2. run' = [run EXCEPT ![r] = [run[r] EXCEPT !.used = n]]
    BY <1>0, <1>4 DEF Submit
  <2>3. [run[r] EXCEPT !.used = n] \in RunRecord
    <3>1. n \in 0 .. MaxBudget
      BY <1>4, <1>b, <2>1 DEF Submit
    <3> HIDE DEF n
    <3> QED
      BY <2>1, <3>1 DEF RunRecord
  <2>4. run' \in [Runs -> RunRecord]
    BY <1>0, <2>2, <2>3
  <2>5. resource' \in [Resources -> ResourceRecord]
    BY <1>a, <1>4 DEF Submit, ResourceRecord
  <2>6. permit' \in [Ops -> PermitRecord]
    <3>1. [state |-> "Issued", epoch |-> cell.epoch, mandate |-> run[r].mandate] \in PermitRecord
      BY <1>a, <2>1 DEF PermitRecord
    <3> QED
      BY <1>0, <1>4, <3>1 DEF Submit
  <2>7. work' \in [Ops -> OperationRecord(EvidenceKind)] /\ StoredWorkDecodes'
    <3>1. Admitted \in OperationRecord(EvidenceKind) /\ Decodes(Admitted)
      BY DEF Admitted, OperationRecord, Phase, Knowledge, Outcome, Integrity, Disposition, Decodes
    <3>2. work' = [work EXCEPT ![o] = Admitted]
      BY <1>4 DEF Submit
    <3> QED
      BY <1>0, <1>c, <3>1, <3>2 DEF StoredWorkDecodes
  <2>8. prepareRow' \in [Ops -> OutboxState]
    BY <1>0, <1>4 DEF Submit, OutboxState
  <2> QED
    BY <1>0, <1>4, <2>4, <2>5, <2>6, <2>7, <2>8
       DEF Submit, TypeOK, PlatformTypeOK, HostTypeOK
<1>5. ASSUME NEW o \in Ops, PlanPrepare(o)
      PROVE  TypeOK' /\ StoredWorkDecodes'
  <2>1. prepareRow' \in [Ops -> OutboxState]
    BY <1>0, <1>5 DEF PlanPrepare, OutboxState
  <2> QED
    BY <1>0, <1>5, <2>1 DEF PlanPrepare, TypeOK, PlatformTypeOK, HostTypeOK, StoredWorkDecodes
<1>6. ASSUME NEW o \in Ops, PlanAuthorize(o)
      PROVE  TypeOK' /\ StoredWorkDecodes'
  <2>1. authorizeRow' \in [Ops -> OutboxState]
    BY <1>0, <1>6 DEF PlanAuthorize, OutboxState
  <2> QED
    BY <1>0, <1>6, <2>1 DEF PlanAuthorize, TypeOK, PlatformTypeOK, HostTypeOK, StoredWorkDecodes
<1>7. ASSUME NEW o \in Ops, NoteDeliveryAttention(o)
      PROVE  TypeOK' /\ StoredWorkDecodes'
  <2>1. LoseContinuity(work[o]) \in OperationRecord(EvidenceKind) /\ Decodes(LoseContinuity(work[o]))
    BY <1>0, <1>c, MethodsDecode
  <2>2. work' \in [Ops -> OperationRecord(EvidenceKind)] /\ StoredWorkDecodes'
    BY <1>0, <1>c, <1>7, <2>1 DEF NoteDeliveryAttention, StoredWorkDecodes
  <2> QED
    BY <1>0, <1>7, <2>2 DEF NoteDeliveryAttention, TypeOK, PlatformTypeOK, HostTypeOK
<1>8. ASSUME NEW o \in Ops, DisputeOperation(o)
      PROVE  TypeOK' /\ StoredWorkDecodes'
  <2> DEFINE w == [work EXCEPT ![o] = Dispute(work[o])]
  <2>1. Dispute(work[o]) \in OperationRecord(EvidenceKind) /\ Decodes(Dispute(work[o]))
    BY <1>0, <1>c, MethodsDecode
  <2>2. w \in [Ops -> OperationRecord(EvidenceKind)] /\ \A x \in Ops : Decodes(w[x])
    BY <1>0, <1>c, <2>1
  <2>3. InvalidateCell(Nil, cell.qualified, w, permit, authorizeRow)
    BY <1>8 DEF DisputeOperation
  <2> HIDE DEF w
  <2>4. /\ cell' \in CellRecord /\ run' \in [Runs -> RunRecord]
        /\ attempt' \in [Attempts -> AttemptRecord] /\ mandate' \in [Attempts -> MandateRecord]
        /\ permit' \in [Ops -> PermitRecord]
        /\ work' \in [Ops -> OperationRecord(EvidenceKind)] /\ StoredWorkDecodes'
        /\ prepareRow' \in [Ops -> OutboxState] /\ authorizeRow' \in [Ops -> OutboxState]
        /\ resource' \in [Resources -> ResourceRecord]
        /\ fenceRow' \in [Hosts \X Epoch -> OutboxState]
    BY <1>0, <1>a, <2>2, <2>3, InvalidateCellTypes
  <2> QED
    BY <1>0, <1>8, <2>4 DEF DisputeOperation, TypeOK, PlatformTypeOK, HostTypeOK
<1>9. ASSUME NEW o \in Ops, ReleaseResources(o)
      PROVE  TypeOK' /\ StoredWorkDecodes'
  <2>1. {"handover"} \in SUBSET EvidenceKind
    BY DEF EvidenceKind
  <2>2. /\ Release(work[o], {"handover"}) \in OperationRecord(EvidenceKind)
        /\ Decodes(Release(work[o], {"handover"}))
    BY <1>0, <1>c, <1>9, <2>1, ReleaseDecodes DEF ReleaseResources
  <2>3. work' \in [Ops -> OperationRecord(EvidenceKind)] /\ StoredWorkDecodes'
    BY <1>0, <1>c, <1>9, <2>2 DEF ReleaseResources, StoredWorkDecodes
  <2>4. resource' \in [Resources -> ResourceRecord]
    BY <1>a, <1>9 DEF ReleaseResources, ResourceRecord
  <2> QED
    BY <1>0, <1>9, <2>3, <2>4 DEF ReleaseResources, TypeOK, PlatformTypeOK, HostTypeOK
<1>10. ASSUME NEW o \in Ops, NEW m \in {"prepare", "authorize"},
              NEW state \in {"Prepared", "VoidedBeforeSend", "SendEntered"},
              RecordHostReceipt(o, m, state)
       PROVE  TypeOK' /\ StoredWorkDecodes'
  <2>1. work' \in [Ops -> OperationRecord(EvidenceKind)] /\ StoredWorkDecodes'
    <3>1. ReceiptWork(o, state) \in OperationRecord(EvidenceKind) /\ Decodes(ReceiptWork(o, state))
      BY <1>0, ReceiptTypes
    <3>2. work' = [work EXCEPT ![o] = ReceiptWork(o, state)]
      BY <1>10 DEF RecordHostReceipt
    <3> QED
      BY <1>0, <1>c, <3>1, <3>2 DEF StoredWorkDecodes
  <2>2. permit' \in [Ops -> PermitRecord]
    BY <1>0, <1>10 DEF RecordHostReceipt, PermitRecord
  <2>3. prepareRow' \in [Ops -> OutboxState]
    BY <1>0, <1>10 DEF RecordHostReceipt, OutboxState
  <2>4. authorizeRow' \in [Ops -> OutboxState]
    <3>1. ReceiptAuthorizeRow(o, m, state) \in OutboxState
      BY <1>0 DEF ReceiptAuthorizeRow, EnqueueAuthorize, OutboxState
    <3> QED
      BY <1>0, <1>10, <3>1 DEF RecordHostReceipt
  <2>5. invocation' \subseteq Ops
    BY <1>0, <1>10 DEF RecordHostReceipt, PlatformTypeOK
  <2> QED
    BY <1>0, <1>10, <2>1, <2>2, <2>3, <2>4, <2>5
       DEF RecordHostReceipt, TypeOK, PlatformTypeOK, HostTypeOK
<1>11. ASSUME NEW o \in Ops, NEW s \in Status, IngestEvidence(o, s)
       PROVE  TypeOK' /\ StoredWorkDecodes'
  <2> DEFINE Goal == /\ cell' \in CellRecord /\ run' \in [Runs -> RunRecord]
                     /\ attempt' \in [Attempts -> AttemptRecord]
                     /\ mandate' \in [Attempts -> MandateRecord]
                     /\ permit' \in [Ops -> PermitRecord]
                     /\ work' \in [Ops -> OperationRecord(EvidenceKind)] /\ StoredWorkDecodes'
                     /\ prepareRow' \in [Ops -> OutboxState]
                     /\ authorizeRow' \in [Ops -> OutboxState]
                     /\ resource' \in [Resources -> ResourceRecord]
                     /\ fenceRow' \in [Hosts \X Epoch -> OutboxState]
  <2>1. ingested' \in [Ops -> SUBSET Status]
    BY <1>0, <1>11 DEF IngestEvidence, PlatformTypeOK
  <2>2. ASSUME NEW outcome \in NativeOutcomes(o, s), ApplyCorrelated(o, outcome)
        PROVE  Goal
    <3> DEFINE w == [work EXCEPT ![o] = WorkAfterEvidence(o, outcome)]
    <3>1. outcome \in {"None", "Succeeded", "Failed"}
      BY <2>2 DEF NativeOutcomes
    <3>2. /\ WorkAfterEvidence(o, outcome) \in OperationRecord(EvidenceKind)
          /\ Decodes(WorkAfterEvidence(o, outcome))
      BY <1>0, <3>1, EvidenceTypes
    <3>3. w \in [Ops -> OperationRecord(EvidenceKind)] /\ \A x \in Ops : Decodes(w[x])
      BY <1>0, <1>c, <3>2
    <3>4. PermitAfterEvidence(o) \in [Ops -> PermitRecord]
      BY <1>0 DEF PermitAfterEvidence, PermitRecord
    <3>5. AuthorizeRowAfterEvidence(o) \in [Ops -> OutboxState]
      BY <1>0 DEF AuthorizeRowAfterEvidence, OutboxState
    <3>6. CASE InvalidateCell(Nil, cell.qualified, w, PermitAfterEvidence(o),
                              AuthorizeRowAfterEvidence(o))
      <4> HIDE DEF w
      <4> QED
        BY <1>0, <1>a, <3>3, <3>4, <3>5, <3>6, InvalidateCellTypes
    <3>7. CASE /\ work' = w /\ permit' = PermitAfterEvidence(o)
               /\ authorizeRow' = AuthorizeRowAfterEvidence(o)
               /\ UNCHANGED <<cell, run, attempt, mandate, resource, prepareRow, fenceRow>>
      <4> HIDE DEF w
      <4> QED
        BY <1>0, <3>3, <3>4, <3>5, <3>7 DEF PlatformTypeOK, StoredWorkDecodes
    <3> QED
      BY <2>2, <3>6, <3>7 DEF ApplyCorrelated
  <2>3. ASSUME ApplyUncorrelated(o) PROVE Goal
    <3>1. LoseContinuity(work[o]) \in OperationRecord(EvidenceKind)
          /\ Decodes(LoseContinuity(work[o]))
      BY <1>0, <1>c, MethodsDecode
    <3>2. work' \in [Ops -> OperationRecord(EvidenceKind)] /\ StoredWorkDecodes'
      BY <1>0, <1>c, <2>3, <3>1 DEF ApplyUncorrelated, StoredWorkDecodes
    <3> QED
      BY <1>0, <2>3, <3>2 DEF ApplyUncorrelated, PlatformTypeOK
  <2>4. Goal
    <3> HIDE DEF Goal
    <3> QED
      BY <1>11, <2>2, <2>3 DEF IngestEvidence
  <2> QED
    BY <1>0, <1>11, <2>1, <2>4 DEF IngestEvidence, TypeOK, PlatformTypeOK, HostTypeOK
<1> QED
  BY <1>1, <1>2, <1>3, <1>4, <1>5, <1>6, <1>7, <1>8, <1>9, <1>10, <1>11 DEF DispatchStep

(* Fences, commissioning, connections, revocation, stop and restart. *)
LEMMA CellStepTypes ==
    ASSUME PlatformTypeOK, StoredWorkDecodes,
           FenceStep \/ CellStep \/ (\E verified \in BOOLEAN : Restart(verified))
    PROVE  PlatformTypeOK' /\ StoredWorkDecodes'
<1> USE DEF runtimeVars, cellVars, startVars, workVars
<1> DEFINE HostRecords == [Hosts -> [registration : {"None", "Live", "Retired"}, epoch : Epoch]]
           Lifecycles  == {"Serving", "StopRequested", "StopCommitted"}
           Executors   == [session : Session, live : BOOLEAN]
<1>0. /\ host \in HostRecords /\ lifecycle \in Lifecycles /\ executor \in Executors
      /\ cell \in CellRecord /\ fenceRow \in [Hosts \X Epoch -> OutboxState]
      /\ cell.epoch \in Epoch /\ cell.qualified \in BOOLEAN /\ cell.revision \in 1 .. MaxRevision
  BY DEF PlatformTypeOK, CellRecord
<1>a. cell.revision < MaxRevision => cell.revision + 1 \in 1 .. MaxRevision
  BY <1>0, BoundAssumption
<1>1. ASSUME NEW h \in Hosts, NEW e \in Epoch, PlanFence(h, e)
      PROVE  PlatformTypeOK' /\ StoredWorkDecodes'
  <2>1. fenceRow' \in [Hosts \X Epoch -> OutboxState]
    BY <1>0, <1>1 DEF PlanFence, OutboxState
  <2> QED
    BY <1>1, <2>1 DEF PlanFence, PlatformTypeOK, StoredWorkDecodes
<1>2. ASSUME NEW h \in Hosts, NEW e \in Epoch, FinishFence(h, e)
      PROVE  PlatformTypeOK' /\ StoredWorkDecodes'
  <2>1. fenceRow' \in [Hosts \X Epoch -> OutboxState]
    BY <1>0, <1>2 DEF FinishFence, OutboxState
  <2>2. host' \in HostRecords
    <3>1. RegisteredEpoch(h, e) \in Epoch
      BY <1>0 DEF RegisteredEpoch
    <3> QED
      BY <1>0, <1>2, <3>1 DEF FinishFence
  <2> QED
    BY <1>2, <2>1, <2>2 DEF FinishFence, PlatformTypeOK, StoredWorkDecodes
<1>3. CASE Qualify
  <2>1. cell' \in CellRecord
    BY <1>0, <1>a, <1>3 DEF Qualify, SaveCell, CellRecord
  <2> QED
    BY <1>3, <2>1 DEF Qualify, PlatformTypeOK, StoredWorkDecodes
<1>4. ASSUME NEW cleared \in BOOLEAN, ActivateQualification(cleared)
      PROVE  PlatformTypeOK' /\ StoredWorkDecodes'
  <2>1. cell' \in CellRecord
    <3> DEFINE blocked == ~cleared
    <3>1. blocked \in BOOLEAN
      OBVIOUS
    <3>2. cell.revision < MaxRevision /\ cell' =
             [[cell EXCEPT !.qualified = TRUE, !.commissioned = TRUE, !.mode = "Setup",
                           !.blocked = blocked] EXCEPT !.revision = cell.revision + 1]
      BY <1>0, <1>4 DEF ActivateQualification, SaveCell, CellRecord
    <3> HIDE DEF blocked
    <3> QED
      BY <1>0, <1>a, <3>1, <3>2 DEF CellRecord
  <2> QED
    BY <1>4, <2>1 DEF ActivateQualification, PlatformTypeOK, StoredWorkDecodes
<1>5. ASSUME NEW runtimeOnly \in BOOLEAN, OpenExecutor(runtimeOnly)
      PROVE  PlatformTypeOK' /\ StoredWorkDecodes'
  <2>1. executor' \in Executors
    <3>1. executor.session < MaxSession => executor.session + 1 \in Session
      BY <1>0, BoundAssumption DEF Session
    <3> QED
      BY <1>5, <3>1 DEF OpenExecutor
  <2>2. lifecycle' \in Lifecycles /\ host' \in HostRecords
    BY <1>0, <1>5 DEF OpenExecutor
  <2>3. CASE Invalidate(Nil)
    BY <2>1, <2>2, <2>3, InvalidateTypes
  <2>4. CASE UNCHANGED <<cell, startVars, workVars, fenceRow, ingested>>
    BY <2>1, <2>2, <2>4 DEF PlatformTypeOK, StoredWorkDecodes
  <2> QED
    BY <1>5, <2>3, <2>4 DEF OpenExecutor
<1>6. ASSUME NEW h \in Hosts, LinkHost(h)
      PROVE  PlatformTypeOK' /\ StoredWorkDecodes'
  BY <1>0, <1>6 DEF LinkHost, PlatformTypeOK, StoredWorkDecodes
<1>7. ASSUME NEW h \in Hosts, ReplaceHost(h)
      PROVE  PlatformTypeOK' /\ StoredWorkDecodes'
  <2>1. host' \in HostRecords
    BY <1>0, <1>7 DEF ReplaceHost
  <2> QED
    BY <1>0, <1>7, <2>1, InvalidateTypes DEF ReplaceHost
<1>8. CASE Hold \/ MaintainedConditionLost \/ RequestRuntimeStop
  BY <1>0, <1>8, InvalidateTypes DEF Hold, MaintainedConditionLost, RequestRuntimeStop
<1>9. CASE CommitRuntimeStop
  BY <1>9 DEF CommitRuntimeStop, PlatformTypeOK, StoredWorkDecodes
<1>10. ASSUME NEW verified \in BOOLEAN, Restart(verified)
       PROVE  PlatformTypeOK' /\ StoredWorkDecodes'
  <2> DEFINE q == cell.qualified /\ verified
  <2>1. q \in BOOLEAN
    BY <1>0
  <2>2. InvalidateCell(Nil, q, work, permit, authorizeRow)
    BY <1>10 DEF Restart
  <2> HIDE DEF q
  <2>3. executor' \in Executors
    BY <1>0, <1>10 DEF Restart
  <2>4. host' \in HostRecords
    BY <1>0, <1>10 DEF Restart
  <2>5. /\ work \in [Ops -> OperationRecord(EvidenceKind)] /\ \A o \in Ops : Decodes(work[o])
        /\ permit \in [Ops -> PermitRecord] /\ authorizeRow \in [Ops -> OutboxState]
    BY DEF PlatformTypeOK, StoredWorkDecodes
  <2>6. /\ cell' \in CellRecord /\ run' \in [Runs -> RunRecord]
        /\ attempt' \in [Attempts -> AttemptRecord] /\ mandate' \in [Attempts -> MandateRecord]
        /\ permit' \in [Ops -> PermitRecord]
        /\ work' \in [Ops -> OperationRecord(EvidenceKind)] /\ StoredWorkDecodes'
        /\ prepareRow' \in [Ops -> OutboxState] /\ authorizeRow' \in [Ops -> OutboxState]
        /\ resource' \in [Resources -> ResourceRecord]
        /\ fenceRow' \in [Hosts \X Epoch -> OutboxState]
    BY <2>1, <2>2, <2>5, InvalidateCellTypes
  <2> QED
    BY <1>10, <2>3, <2>4, <2>6 DEF Restart, PlatformTypeOK
<1> QED
  BY <1>1, <1>2, <1>3, <1>4, <1>5, <1>6, <1>7, <1>8, <1>9, <1>10 DEF FenceStep, CellStep

(* The hosts' own steps. *)
LEMMA HostStepTypes ==
    ASSUME HostTypeOK, HostStep
    PROVE  HostTypeOK'
<1>1. ASSUME NEW a \in Attempts, NEW h \in Hosts, HostArms(a, h)
      PROVE  HostTypeOK'
  BY <1>1 DEF HostArms, HostTypeOK
<1>2. ASSUME NEW o \in Ops, HostPrepares(o)
      PROVE  HostTypeOK'
  BY <1>2 DEF HostPrepares, HostTypeOK
<1>3. ASSUME NEW o \in Ops, HostAuthorizes(o)
      PROVE  HostTypeOK'
  <2>1. sends[o] < 2 => sends[o] + 1 \in 0 .. 2
    BY DEF HostTypeOK
  <2> QED
    BY <1>3, <2>1 DEF HostAuthorizes, HostTypeOK
<1>4. ASSUME NEW h \in Hosts, NEW e \in Epoch, HostFences(h, e)
      PROVE  HostTypeOK'
  BY <1>4 DEF HostFences, InstallsDelivery, InstallsLinkFence, HostTypeOK
<1>5. ASSUME NEW o \in Ops, NEW s \in Status, NativeEnds(o, s) \/ NativeContradicts(o, s)
      PROVE  HostTypeOK'
  BY <1>5 DEF NativeEnds, NativeContradicts, HostTypeOK
<1> QED
  BY <1>1, <1>2, <1>3, <1>4, <1>5 DEF HostStep

(* The inductive step of the types. *)
LEMMA StepTypes ==
    TypeOK /\ StoredWorkDecodes /\ [Next]_vars => TypeOK' /\ StoredWorkDecodes'
<1> SUFFICES ASSUME TypeOK, StoredWorkDecodes, [Next]_vars
             PROVE  TypeOK' /\ StoredWorkDecodes'
  OBVIOUS
<1>0. PlatformTypeOK /\ HostTypeOK
  BY DEF TypeOK
<1>1. UNCHANGED hostVars => HostTypeOK'
  BY <1>0 DEF hostVars, HostTypeOK
<1>2. UNCHANGED platformVars => PlatformTypeOK' /\ StoredWorkDecodes'
  BY <1>0 DEF platformVars, runtimeVars, cellVars, startVars, workVars,
              PlatformTypeOK, StoredWorkDecodes
<1>3. CASE StartStep /\ UNCHANGED hostVars
  BY <1>0, <1>1, <1>3, StartStepTypes DEF TypeOK
<1>4. CASE DispatchStep
  BY <1>4, DispatchStepTypes
<1>5. CASE FenceStep \/ CellStep \/ (\E verified \in BOOLEAN : Restart(verified))
  <2>1. UNCHANGED hostVars
    BY <1>5 DEF FenceStep, CellStep, PlanFence, FinishFence, Qualify, ActivateQualification,
         OpenExecutor, LinkHost, ReplaceHost, Hold, MaintainedConditionLost,
         RequestRuntimeStop, CommitRuntimeStop, Restart
  <2> QED
    BY <1>0, <1>1, <1>5, <2>1, CellStepTypes DEF TypeOK
<1>6. CASE HostStep /\ UNCHANGED platformVars
  BY <1>0, <1>2, <1>6, HostStepTypes DEF TypeOK
<1>7. CASE UNCHANGED vars
  BY <1>1, <1>2, <1>7 DEF vars, TypeOK
<1> QED
  BY <1>3, <1>4, <1>5, <1>6, <1>7 DEF Next

\* The records of a new cell are typed and its work records are readable.
LEMMA InitTypes == Init => TypeOK /\ StoredWorkDecodes
<1> SUFFICES ASSUME Init PROVE TypeOK /\ StoredWorkDecodes
  OBVIOUS
<1>1. /\ 0 \in Session /\ 1 \in Epoch /\ 1 \in 1 .. MaxRevision /\ 0 \in 0 .. MaxBudget
  BY BoundAssumption DEF Session, Epoch
<1>2. Admitted \in OperationRecord(EvidenceKind) /\ Decodes(Admitted)
  BY DEF Admitted, OperationRecord, Phase, Knowledge, Outcome, Integrity, Disposition, Decodes
<1>3. HostTypeOK
  BY <1>1 DEF Init, HostInit, HostTypeOK
<1>4. cell \in CellRecord /\ executor \in [session : Session, live : BOOLEAN]
  BY <1>1 DEF Init, PlatformInit, CellRecord
<1>5. run \in [Runs -> RunRecord]
  BY <1>1 DEF Init, PlatformInit, RunRecord
<1>6. attempt \in [Attempts -> AttemptRecord] /\ mandate \in [Attempts -> MandateRecord]
  BY <1>1 DEF Init, PlatformInit, AttemptRecord, MandateRecord
<1>7. permit \in [Ops -> PermitRecord] /\ resource \in [Resources -> ResourceRecord]
  BY <1>1 DEF Init, PlatformInit, PermitRecord, ResourceRecord
<1>8. work \in [Ops -> OperationRecord(EvidenceKind)] /\ StoredWorkDecodes
  BY <1>2 DEF Init, PlatformInit, StoredWorkDecodes
<1> QED
  BY <1>1, <1>3, <1>4, <1>5, <1>6, <1>7, <1>8
     DEF Init, PlatformInit, TypeOK, PlatformTypeOK, OutboxState

(* For every number of runs, hosts, operations and resources, every record   *)
(* of the platform stays well formed and every stored operation can be read  *)
(* back by TryFrom<OperationSnapshot>.                                       *)
THEOREM StoredWorkAlwaysDecodes == Spec => [](TypeOK /\ StoredWorkDecodes)
BY InitTypes, StepTypes, PTL DEF Spec

-----------------------------------------------------------------------------
LiveExecutorHasSession == executor.live => executor.session # 0

AttemptHasRun == \A a \in Attempts : attempt[a].status # "None" => attempt[a].run # Nil

MandateWasStarted ==
    \A a \in Attempts : mandate[a].state # "None" => attempt[a].status = "Started"

RunOwnsMandate ==
    \A r \in Runs : run[r].mandate # Nil =>
        attempt[run[r].mandate].run = r /\ attempt[run[r].mandate].status = "Started"

PermitHasPart ==
    \A o \in Ops : permit[o].state = "Issued" =>
        /\ permit[o].mandate # Nil
        /\ run[RunOf[o]].purpose = "Production" => VisitOf[o] \in 1 .. run[RunOf[o]].used

SuccessSpendsPermit ==
    \A o \in Ops : work[o].outcome = "Succeeded" => permit[o].state # "Issued"

DoneIsConfirmed ==
    \A r \in Runs, o \in Ops : RunOf[o] = r /\ VisitOf[o] \in run[r].done =>
        activation[o] = "Submitted" /\ work[o].outcome = "Succeeded"

AuthorityInv ==
    /\ LiveExecutorHasSession
    /\ AttemptHasRun /\ MandateWasStarted /\ RunOwnsMandate
    /\ PermitHasPart /\ SuccessSpendsPermit /\ DoneIsConfirmed
    /\ MandateIsCurrent /\ PermitIsCurrent

(* What an invalidation leaves of recorded outcomes. *)
LEMMA InvalidatedKeepsOutcome ==
    ASSUME NEW o \in Ops, NEW w \in [Ops -> OperationRecord(EvidenceKind)], NEW au,
           w[o].outcome # "None"
    PROVE  Invalidated(o, w, au).outcome = w[o].outcome
<1>1. Invalidated(o, w, au) = Quarantine(w[o]) \/ Invalidated(o, w, au) = w[o]
  BY DEF Invalidated
<1>2. Quarantine(w[o]).outcome = w[o].outcome
  BY DEF Quarantine, OperationRecord
<1> QED
  BY <1>1, <1>2

(* An invalidation leaves no mandate active and no permit issued; the links *)
(* between attempts, mandates and runs and the finished parts stay.         *)
LEMMA InvalidateCellAuthority ==
    ASSUME PlatformTypeOK, AuthorityInv, NEW paused, NEW qualified,
           NEW w \in [Ops -> OperationRecord(EvidenceKind)],
           \A o \in Ops : work[o].outcome = "Succeeded" => w[o].outcome = "Succeeded",
           NEW p \in [Ops -> PermitRecord], NEW au,
           InvalidateCell(paused, qualified, w, p, au),
           UNCHANGED activation, LiveExecutorHasSession'
    PROVE  AuthorityInv'
<1>0. /\ run \in [Runs -> RunRecord] /\ attempt \in [Attempts -> AttemptRecord]
      /\ mandate \in [Attempts -> MandateRecord]
  BY DEF PlatformTypeOK
<1>1. \A a \in Attempts : mandate'[a].state # "Active"
                          /\ (mandate'[a].state # "None" => mandate[a].state # "None")
  BY <1>0 DEF InvalidateCell, RevokeIfActive, MandateRecord
<1>2. \A o \in Ops : permit'[o].state # "Issued"
  BY DEF InvalidateCell, VoidIfIssued, PermitRecord
<1>3. \A a \in Attempts : /\ attempt'[a].run = attempt[a].run
                          /\ attempt'[a].status # "None" => attempt[a].status # "None"
                          /\ attempt[a].status = "Started" => attempt'[a].status = "Started"
  BY <1>0 DEF InvalidateCell, RejectIfArming, AttemptRecord
<1>4. \A r \in Runs : run'[r].mandate = run[r].mandate /\ run'[r].done = run[r].done
  BY <1>0 DEF InvalidateCell, InvalidateRun, RunRecord
<1>5. AttemptHasRun'
  BY <1>3 DEF AuthorityInv, AttemptHasRun
<1>6. MandateWasStarted'
  BY <1>1, <1>3 DEF AuthorityInv, MandateWasStarted
<1>7. RunOwnsMandate'
  <2>1. \A r \in Runs : run[r].mandate # Nil => run[r].mandate \in Attempts
    BY <1>0 DEF RunRecord
  <2> QED
    BY <1>3, <1>4, <2>1 DEF AuthorityInv, RunOwnsMandate
<1>8. DoneIsConfirmed'
  <2>1. \A o \in Ops : work[o].outcome = "Succeeded" => work'[o].outcome = "Succeeded"
    BY InvalidatedKeepsOutcome DEF InvalidateCell
  <2> QED
    BY <1>4, <2>1 DEF AuthorityInv, DoneIsConfirmed
<1>9. MandateIsCurrent'
  BY <1>1 DEF MandateIsCurrent
<1>10. PermitIsCurrent' /\ PermitHasPart' /\ SuccessSpendsPermit'
  BY <1>2 DEF PermitIsCurrent, PermitHasPart, SuccessSpendsPermit
<1> QED
  BY <1>5, <1>6, <1>7, <1>8, <1>9, <1>10 DEF AuthorityInv

\* invalidate_cell leaves no authority of an earlier epoch.
LEMMA InvalidateAuthority ==
    ASSUME PlatformTypeOK, AuthorityInv, NEW paused, Invalidate(paused), LiveExecutorHasSession'
    PROVE  AuthorityInv'
BY InvalidateCellAuthority DEF Invalidate, PlatformTypeOK

(* Steps that touch neither authority nor conclusions. *)
LEMMA AuthorityFrame ==
    ASSUME AuthorityInv, UNCHANGED <<runtimeVars, cell, run, attempt, mandate, permit,
                                     work, activation>>
    PROVE  AuthorityInv'
BY DEF runtimeVars, AuthorityInv, LiveExecutorHasSession, AttemptHasRun,
       MandateWasStarted, RunOwnsMandate, PermitHasPart, SuccessSpendsPermit,
       DoneIsConfirmed, MandateIsCurrent, PermitIsCurrent, Ready, RequireServing

(* An active mandate keeps its run executing, so a run that is prepared,     *)
(* paused or to be recovered has none, and no permit of it is issued.        *)
LEMMA IdleRunHasNoAuthority ==
    ASSUME PlatformTypeOK, AuthorityInv, NEW r \in Runs, run[r].state # "Executing"
    PROVE  /\ \A a \in Attempts : mandate[a].state = "Active" => attempt[a].run # r
           /\ \A o \in Ops : permit[o].state = "Issued" => RunOf[o] # r
<1>1. \A a \in Attempts : mandate[a].state = "Active" => attempt[a].run # r
  BY DEF AuthorityInv, MandateIsCurrent
<1>2. ASSUME NEW o \in Ops, permit[o].state = "Issued", RunOf[o] = r
      PROVE  FALSE
  <2> DEFINE a == permit[o].mandate
  <2>1. a # Nil /\ a = run[r].mandate /\ mandate[a].state = "Active"
    BY <1>2 DEF AuthorityInv, PermitIsCurrent, PermitHasPart
  <2>2. a \in Attempts
    BY <2>1 DEF PlatformTypeOK, PermitRecord
  <2>3. attempt[a].run = r
    BY <2>1 DEF AuthorityInv, RunOwnsMandate
  <2> QED
    BY <1>1, <2>1, <2>2, <2>3
<1> QED
  BY <1>1, <1>2

(* A change of one run that is not executing, and does not become so, leaves *)
(* the authority of the others alone.                                        *)
LEMMA IdleRunChange ==
    ASSUME PlatformTypeOK, AuthorityInv, NEW r \in Runs, run[r].state # "Executing",
           \A x \in Runs \ {r} : run'[x] = run[x],
           run'[r].mandate = run[r].mandate, run'[r].done = run[r].done,
           UNCHANGED <<runtimeVars, cell, mandate, permit, work, activation>>,
           \A a \in Attempts :
              \/ attempt'[a] = attempt[a]
              \/ attempt[a].status # "Started" /\ attempt'[a].status # "None"
                 /\ attempt'[a].run # Nil
    PROVE  AuthorityInv'
<1>0. /\ \A o \in Ops : RunOf[o] \in Runs
      /\ \A x \in Runs : run[x].mandate # Nil => run[x].mandate \in Attempts
  BY SlotAssumption DEF PlatformTypeOK, RunRecord
<1>1. \A a \in Attempts : mandate[a].state # "None" => attempt'[a] = attempt[a]
  BY DEF AuthorityInv, MandateWasStarted
<1>2. LiveExecutorHasSession' /\ AttemptHasRun' /\ MandateWasStarted'
  BY <1>1 DEF AuthorityInv, LiveExecutorHasSession, AttemptHasRun, MandateWasStarted, runtimeVars
<1>3. RunOwnsMandate'
  <2>1. \A x \in Runs : run'[x].mandate = run[x].mandate
    OBVIOUS
  <2> QED
    BY <1>0, <2>1 DEF AuthorityInv, RunOwnsMandate
<1>4. PermitHasPart' /\ PermitIsCurrent'
  <2>1. \A o \in Ops : permit[o].state = "Issued" => run'[RunOf[o]] = run[RunOf[o]]
    BY <1>0, IdleRunHasNoAuthority
  <2> QED
    BY <2>1 DEF AuthorityInv, PermitHasPart, PermitIsCurrent
<1>5. SuccessSpendsPermit'
  BY DEF AuthorityInv, SuccessSpendsPermit
<1>6. DoneIsConfirmed'
  <2>1. \A x \in Runs : run'[x].done = run[x].done
    OBVIOUS
  <2> QED
    BY <2>1 DEF AuthorityInv, DoneIsConfirmed
<1>7. MandateIsCurrent'
  <2> SUFFICES ASSUME NEW a \in Attempts, mandate[a].state = "Active"
               PROVE  /\ Ready' /\ executor'.live
                      /\ mandate[a].epoch = cell'.epoch
                      /\ mandate[a].session = executor'.session
                      /\ run'[attempt'[a].run].state = "Executing"
                      /\ run'[attempt'[a].run].mandate = a
                      /\ run'[attempt'[a].run].session = executor'.session
    BY DEF MandateIsCurrent
  <2>1. attempt'[a] = attempt[a] /\ attempt[a].run # r
    BY <1>1, IdleRunHasNoAuthority
  <2>2. attempt[a].run \in Runs
    BY DEF AuthorityInv, MandateWasStarted, AttemptHasRun, PlatformTypeOK, AttemptRecord
  <2>3. run'[attempt'[a].run] = run[attempt[a].run]
    BY <2>1, <2>2
  <2>4. /\ Ready /\ executor.live
        /\ mandate[a].epoch = cell.epoch /\ mandate[a].session = executor.session
        /\ run[attempt[a].run].state = "Executing"
        /\ run[attempt[a].run].mandate = a
        /\ run[attempt[a].run].session = executor.session
    BY DEF AuthorityInv, MandateIsCurrent
  <2>5. Ready'
    BY <2>4 DEF Ready, RequireServing, runtimeVars
  <2> QED
    BY <2>3, <2>4, <2>5 DEF runtimeVars
<1> QED
  BY <1>2, <1>3, <1>4, <1>5, <1>6, <1>7 DEF AuthorityInv

(* The last acknowledgment creates authority that is current. *)
LEMMA CreateMandateAuthority ==
    ASSUME PlatformTypeOK, AuthorityInv, NEW a \in Attempts, NEW h \in Hosts,
           attempt[a].status = "Arming", ~AttemptStale(a), Ready, executor.live,
           CreateMandate(a, h), UNCHANGED <<runtimeVars, permit, work, activation>>
    PROVE  AuthorityInv'
<1> DEFINE r == attempt[a].run
<1>0. /\ run \in [Runs -> RunRecord] /\ attempt \in [Attempts -> AttemptRecord]
      /\ mandate \in [Attempts -> MandateRecord] /\ cell \in CellRecord
      /\ \A o \in Ops : RunOf[o] \in Runs
  BY SlotAssumption DEF PlatformTypeOK
<1>1. r \in Runs /\ run[r].state = "Prepared"
  BY <1>0 DEF AuthorityInv, AttemptHasRun, AttemptRecord, AttemptStale
<1>2. /\ attempt'[a].status = "Started" /\ attempt'[a].run = r
      /\ \A x \in Attempts \ {a} : attempt'[x] = attempt[x] /\ mandate'[x] = mandate[x]
      /\ mandate'[a].state = "Active" /\ mandate'[a].epoch = cell.epoch
      /\ mandate'[a].session = executor.session
  <2>1. attempt' = [attempt EXCEPT ![a] =
                      [attempt[a] EXCEPT !.acks = attempt[a].acks \cup {h}, !.status = "Started"]]
    BY DEF CreateMandate
  <2>2. mandate' = [mandate EXCEPT ![a] =
                      [state |-> "Active", epoch |-> cell.epoch, session |-> executor.session]]
    BY DEF CreateMandate
  <2>3. LET v == [attempt[a] EXCEPT !.acks = attempt[a].acks \cup {h}, !.status = "Started"]
        IN  v.status = "Started" /\ v.run = attempt[a].run
    BY <1>0 DEF AttemptRecord
  <2> QED
    BY <1>0, <2>1, <2>2, <2>3
<1>3. /\ run'[r].state = "Executing" /\ run'[r].mandate = a
      /\ run'[r].session = executor.session /\ run'[r].done = run[r].done
      /\ \A x \in Runs \ {r} : run'[x] = run[x]
  <2> DEFINE v == [run[r] EXCEPT !.state = "Executing", !.pending = Nil,
                                 !.session = executor.session, !.mandate = a]
  <2>1. run' = [run EXCEPT ![r] = v]
    BY DEF CreateMandate
  <2>2. /\ v.state = "Executing" /\ v.mandate = a
        /\ v.session = executor.session /\ v.done = run[r].done
    BY <1>0, <1>1 DEF RunRecord
  <2> HIDE DEF v
  <2> QED
    BY <1>0, <1>1, <2>1, <2>2
<1>4. /\ cell'.epoch = cell.epoch /\ cell'.qualified = cell.qualified
      /\ cell'.commissioned = cell.commissioned /\ cell'.blocked = cell.blocked
  BY <1>0 DEF CreateMandate, CellRecord
<1>5. Ready'
  BY <1>4 DEF Ready, RequireServing, runtimeVars
<1>6. mandate[a].state = "None"
  BY <1>0 DEF AuthorityInv, MandateWasStarted
<1> HIDE DEF r
<1>7. LiveExecutorHasSession' /\ SuccessSpendsPermit'
  BY DEF AuthorityInv, LiveExecutorHasSession, SuccessSpendsPermit, runtimeVars
<1>8. AttemptHasRun' /\ MandateWasStarted'
  BY <1>1, <1>2, NilAssumption DEF AuthorityInv, AttemptHasRun, MandateWasStarted
<1>9. RunOwnsMandate'
  <2>1. ASSUME NEW x \in Runs, run'[x].mandate # Nil
        PROVE  attempt'[run'[x].mandate].run = x /\ attempt'[run'[x].mandate].status = "Started"
    <3>1. CASE x = r
      BY <1>2, <1>3, <3>1
    <3>2. CASE x # r
      <4>1. run'[x] = run[x] /\ run[x].mandate \in Attempts
        BY <1>0, <1>3, <2>1, <3>2 DEF RunRecord
      <4>2. attempt[run[x].mandate].run = x /\ attempt[run[x].mandate].status = "Started"
        BY <2>1, <4>1 DEF AuthorityInv, RunOwnsMandate
      <4>3. run[x].mandate # a
        BY <4>2
      <4> QED
        BY <1>2, <4>1, <4>2, <4>3
    <3> QED
      BY <3>1, <3>2
  <2> QED
    BY <2>1 DEF RunOwnsMandate
<1>10. \A o \in Ops : permit[o].state = "Issued" =>
          /\ RunOf[o] # r /\ run'[RunOf[o]] = run[RunOf[o]]
          /\ permit[o].mandate \in Attempts \ {a}
  <2> SUFFICES ASSUME NEW o \in Ops, permit[o].state = "Issued"
               PROVE  /\ RunOf[o] # r /\ run'[RunOf[o]] = run[RunOf[o]]
                      /\ permit[o].mandate \in Attempts \ {a}
    OBVIOUS
  <2>1. RunOf[o] # r
    BY <1>1, IdleRunHasNoAuthority
  <2>2. permit[o].mandate \in Attempts
    BY DEF PlatformTypeOK, PermitRecord, AuthorityInv, PermitHasPart
  <2>3. mandate[permit[o].mandate].state = "Active"
    BY DEF AuthorityInv, PermitIsCurrent
  <2> QED
    BY <1>0, <1>3, <1>6, <2>1, <2>2, <2>3
<1>11. PermitHasPart'
  BY <1>10 DEF AuthorityInv, PermitHasPart
<1>12. PermitIsCurrent'
  BY <1>2, <1>4, <1>10 DEF AuthorityInv, PermitIsCurrent
<1>13. DoneIsConfirmed'
  <2>1. \A x \in Runs : run'[x].done = run[x].done
    BY <1>3
  <2> QED
    BY <2>1 DEF AuthorityInv, DoneIsConfirmed
<1>14. MandateIsCurrent'
  <2> SUFFICES ASSUME NEW x \in Attempts, mandate'[x].state = "Active"
               PROVE  /\ mandate'[x].epoch = cell.epoch
                      /\ mandate'[x].session = executor.session
                      /\ run'[attempt'[x].run].state = "Executing"
                      /\ run'[attempt'[x].run].mandate = x
                      /\ run'[attempt'[x].run].session = executor.session
    BY <1>4, <1>5 DEF MandateIsCurrent, runtimeVars
  <2>1. CASE x = a
    BY <1>2, <1>3, <2>1
  <2>2. CASE x # a
    <3>1. mandate'[x] = mandate[x] /\ attempt'[x] = attempt[x]
      BY <1>2, <2>2
    <3>2. attempt[x].run \in Runs \ {r}
      <4>1. attempt[x].run # r
        BY <1>1, <3>1, IdleRunHasNoAuthority
      <4>2. attempt[x].run \in Runs
        BY <3>1 DEF AuthorityInv, MandateWasStarted, AttemptHasRun, PlatformTypeOK, AttemptRecord
      <4> QED
        BY <4>1, <4>2
    <3> QED
      BY <1>3, <3>1, <3>2 DEF AuthorityInv, MandateIsCurrent
  <2> QED
    BY <2>1, <2>2
<1> QED
  BY <1>7, <1>8, <1>9, <1>11, <1>12, <1>13, <1>14 DEF AuthorityInv

\* Every step of a start keeps live authority current.
LEMMA StartStepAuthority ==
    ASSUME PlatformTypeOK, AuthorityInv, StartStep
    PROVE  AuthorityInv'
<1>0. /\ run \in [Runs -> RunRecord] /\ attempt \in [Attempts -> AttemptRecord]
  BY DEF PlatformTypeOK
<1>1. ASSUME NEW r \in Runs, CreateRun(r)
      PROVE  AuthorityInv'
  <2>1. /\ run[r].state # "Executing" /\ \A x \in Runs \ {r} : run'[x] = run[x]
        /\ run'[r].mandate = run[r].mandate /\ run'[r].done = run[r].done
    BY <1>0, <1>1 DEF CreateRun, RunRecord
  <2> QED
    BY <1>1, <2>1, IdleRunChange DEF CreateRun, cellVars, workVars
<1>2. ASSUME NEW r \in Runs, PauseRun(r)
      PROVE  AuthorityInv'
  <2>1. CASE Invalidate(r) /\ UNCHANGED <<runtimeVars, host>>
    BY <2>1, InvalidateAuthority DEF AuthorityInv, LiveExecutorHasSession, runtimeVars
  <2>2. CASE /\ run[r].state = "Prepared"
             /\ run' = [run EXCEPT ![r].state = "Paused"]
             /\ UNCHANGED <<runtimeVars, cellVars, attempt, mandate, armRow, workVars,
                            fenceRow, ingested>>
    <3>1. /\ run[r].state # "Executing" /\ \A x \in Runs \ {r} : run'[x] = run[x]
          /\ run'[r].mandate = run[r].mandate /\ run'[r].done = run[r].done
      BY <1>0, <2>2 DEF RunRecord
    <3> QED
      BY <2>2, <3>1, IdleRunChange DEF cellVars, workVars
  <2> QED
    BY <1>2, <2>1, <2>2 DEF PauseRun
<1>3. ASSUME NEW r \in Runs, AbandonRun(r)
      PROVE  AuthorityInv'
  <2> DEFINE v == [run[r] EXCEPT !.state = "Abandoned", !.session = 0]
  <2>1. v.mandate = run[r].mandate /\ v.done = run[r].done
    BY <1>0 DEF RunRecord
  <2>2. run' = [run EXCEPT ![r] = v] /\ run[r].state # "Executing"
    BY <1>3 DEF AbandonRun
  <2> HIDE DEF v
  <2>3. /\ \A x \in Runs \ {r} : run'[x] = run[x]
        /\ run'[r].mandate = run[r].mandate /\ run'[r].done = run[r].done
    BY <1>0, <2>1, <2>2
  <2> QED
    BY <1>3, <2>2, <2>3, IdleRunChange DEF AbandonRun, cellVars, workVars
<1>4. ASSUME NEW r \in Runs, NEW a \in Attempts, NEW purpose \in {"Production", "Setup"},
             NEW limit \in 1 .. MaxBudget, StartRun(r, a, purpose, limit)
      PROVE  AuthorityInv'
  <2> DEFINE v == [run[r] EXCEPT !.limit = limit, !.purpose = purpose, !.pending = a]
             n == [status |-> "Arming", run |-> r, epoch |-> cell.epoch,
                   revision |-> cell.revision, session |-> executor.session, acks |-> {}]
  <2>1. v.mandate = run[r].mandate /\ v.done = run[r].done
    BY <1>0 DEF RunRecord
  <2>2. run' = [run EXCEPT ![r] = v] /\ run[r].state # "Executing"
    BY <1>4 DEF StartRun, StartCandidate
  <2>3. attempt' = [attempt EXCEPT ![a] = n] /\ attempt[a].status = "None"
    BY <1>4 DEF StartRun
  <2>4. n.status # "None" /\ n.run # Nil
    BY NilAssumption
  <2> HIDE DEF v, n
  <2>5. /\ \A x \in Runs \ {r} : run'[x] = run[x]
        /\ run'[r].mandate = run[r].mandate /\ run'[r].done = run[r].done
    BY <1>0, <2>1, <2>2
  <2>6. \A x \in Attempts :
           \/ attempt'[x] = attempt[x]
           \/ attempt[x].status # "Started" /\ attempt'[x].status # "None"
              /\ attempt'[x].run # Nil
    BY <1>0, <2>3, <2>4
  <2> QED
    BY <1>4, <2>2, <2>5, <2>6, IdleRunChange DEF StartRun, cellVars, workVars
<1>5. ASSUME NEW a \in Attempts, NEW h \in Hosts, PlanArm(a, h)
      PROVE  AuthorityInv'
  BY <1>5, AuthorityFrame DEF PlanArm, cellVars, workVars
<1>6. ASSUME NEW a \in Attempts, NEW h \in Hosts, NEW expired \in BOOLEAN,
             AcknowledgeArm(a, h, expired)
      PROVE  AuthorityInv'
  <2>0. UNCHANGED <<runtimeVars, permit, work, activation>>
    BY <1>6 DEF AcknowledgeArm, workVars
  <2>1. CASE attempt[a].status = "Arming" /\ RejectAttempt(a)
    <3> DEFINE r == attempt[a].run
    <3>1. r \in Runs
      BY <1>0, <2>1 DEF AuthorityInv, AttemptHasRun, AttemptRecord
    <3>2. attempt'[a].status = "Rejected" /\ attempt'[a].run = r
          /\ \A x \in Attempts \ {a} : attempt'[x] = attempt[x]
      BY <1>0, <2>1 DEF RejectAttempt, AttemptRecord
    <3>3. /\ \A x \in Runs : /\ run'[x].state = run[x].state /\ run'[x].purpose = run[x].purpose
                             /\ run'[x].used = run[x].used /\ run'[x].session = run[x].session
                             /\ run'[x].mandate = run[x].mandate /\ run'[x].done = run[x].done
      BY <1>0, <2>1, <3>1 DEF RejectAttempt, RunRecord
    <3>4. UNCHANGED <<cell, mandate>>
      BY <2>1 DEF RejectAttempt
    <3>5. mandate[a].state = "None"
      BY <2>1 DEF AuthorityInv, MandateWasStarted
    <3>6. \A o \in Ops : RunOf[o] \in Runs
      BY SlotAssumption
    <3>7. \A x \in Attempts : mandate[x].state = "Active" =>
             x # a /\ attempt'[x] = attempt[x] /\ attempt[x].run \in Runs
      BY <1>0, <3>2, <3>5 DEF AuthorityInv, MandateWasStarted, AttemptHasRun, AttemptRecord
    <3> HIDE DEF r
    <3>8. LiveExecutorHasSession' /\ SuccessSpendsPermit'
      BY <2>0 DEF AuthorityInv, LiveExecutorHasSession, SuccessSpendsPermit, runtimeVars
    <3>9. AttemptHasRun' /\ MandateWasStarted'
      BY <3>1, <3>2, <3>4, <3>5, NilAssumption DEF AuthorityInv, AttemptHasRun, MandateWasStarted
    <3>10. RunOwnsMandate'
      <4>1. \A x \in Runs : run[x].mandate # Nil => run[x].mandate \in Attempts \ {a}
        BY <1>0, <2>1 DEF RunRecord, AuthorityInv, RunOwnsMandate
      <4> QED
        BY <3>2, <3>3, <4>1 DEF AuthorityInv, RunOwnsMandate
    <3>11. PermitHasPart' /\ PermitIsCurrent'
      BY <2>0, <3>3, <3>4, <3>6 DEF AuthorityInv, PermitHasPart, PermitIsCurrent
    <3>12. DoneIsConfirmed'
      BY <2>0, <3>3 DEF AuthorityInv, DoneIsConfirmed
    <3>13. Ready' <=> Ready
      BY <2>0, <3>4 DEF Ready, RequireServing, runtimeVars
    <3>14. MandateIsCurrent'
      BY <2>0, <3>3, <3>4, <3>7, <3>13 DEF AuthorityInv, MandateIsCurrent, runtimeVars
    <3> QED
      BY <3>8, <3>9, <3>10, <3>11, <3>12, <3>14 DEF AuthorityInv
  <2>2. CASE /\ attempt[a].status = "Arming" /\ ~AttemptStale(a)
             /\ Ready /\ executor.live /\ CreateMandate(a, h)
    BY <2>0, <2>2, CreateMandateAuthority
  <2>3. CASE /\ attempt[a].status = "Arming" /\ ~AttemptStale(a)
             /\ attempt' = [attempt EXCEPT ![a].acks = @ \cup {h}]
             /\ UNCHANGED <<cell, run, mandate>>
    <3> DEFINE r == attempt[a].run
    <3>1. r \in Runs /\ run[r].state # "Executing"
      BY <1>0, <2>3 DEF AuthorityInv, AttemptHasRun, AttemptRecord, AttemptStale
    <3>2. \A x \in Attempts : \/ attempt'[x] = attempt[x]
                              \/ attempt[x].status # "Started" /\ attempt'[x].status # "None"
                                 /\ attempt'[x].run # Nil
      BY <1>0, <2>3, <3>1, NilAssumption DEF AttemptRecord
    <3> HIDE DEF r
    <3> QED
      BY <2>0, <2>3, <3>1, <3>2, IdleRunChange
  <2>4. CASE UNCHANGED <<cell, run, attempt, mandate>>
    BY <2>0, <2>4, AuthorityFrame
  <2> QED
    BY <1>6, <2>1, <2>2, <2>3, <2>4 DEF AcknowledgeArm, AcceptAcknowledgment
<1> QED
  BY <1>1, <1>2, <1>3, <1>4, <1>5, <1>6 DEF StartStep

(* A step that only moves operations forward: recorded successes stay, new   *)
(* ones have spent their permit, and no permit is issued anew.               *)
LEMMA WorkChange ==
    ASSUME AuthorityInv, UNCHANGED <<runtimeVars, cell, run, attempt, mandate, activation>>,
           \A o \in Ops : /\ work[o].outcome = "Succeeded" => work'[o].outcome = "Succeeded"
                          /\ permit'[o] = permit[o] \/ permit'[o].state # "Issued"
                          /\ work'[o].outcome = "Succeeded" =>
                                work[o].outcome = "Succeeded" \/ permit'[o].state # "Issued"
    PROVE  AuthorityInv'
<1>1. /\ LiveExecutorHasSession' /\ AttemptHasRun' /\ MandateWasStarted' /\ RunOwnsMandate'
  BY DEF AuthorityInv, LiveExecutorHasSession, AttemptHasRun, MandateWasStarted,
         RunOwnsMandate, runtimeVars
<1>2. PermitHasPart' /\ PermitIsCurrent'
  BY DEF AuthorityInv, PermitHasPart, PermitIsCurrent
<1>3. SuccessSpendsPermit'
  BY DEF AuthorityInv, SuccessSpendsPermit
<1>4. DoneIsConfirmed'
  BY DEF AuthorityInv, DoneIsConfirmed
<1>5. MandateIsCurrent'
  <2>1. Ready' <=> Ready
    BY DEF Ready, RequireServing, runtimeVars
  <2> QED
    BY <2>1 DEF AuthorityInv, MandateIsCurrent, runtimeVars
<1> QED
  BY <1>1, <1>2, <1>3, <1>4, <1>5 DEF AuthorityInv

(* The budget counter of a run only moves forward. *)
LEMMA UsedChange ==
    ASSUME PlatformTypeOK, NEW r \in Runs, NEW n \in 0 .. MaxBudget,
           run' = [run EXCEPT ![r].used = n], n >= run[r].used
    PROVE  \A x \in Runs : /\ run'[x].state = run[x].state /\ run'[x].session = run[x].session
                           /\ run'[x].mandate = run[x].mandate /\ run'[x].done = run[x].done
                           /\ run'[x].purpose = run[x].purpose
                           /\ 1 .. run[x].used \subseteq 1 .. run'[x].used
<1>1. run \in [Runs -> RunRecord] /\ \A x \in Runs : run[x].used \in 0 .. MaxBudget
  BY DEF PlatformTypeOK, RunRecord
<1>2. \A x \in Runs : /\ run'[x].state = run[x].state /\ run'[x].session = run[x].session
                      /\ run'[x].mandate = run[x].mandate /\ run'[x].done = run[x].done
                      /\ run'[x].purpose = run[x].purpose
                      /\ run'[x].used = IF x = r THEN n ELSE run[x].used
  BY <1>1 DEF RunRecord
<1>3. \A x \in Runs : 1 .. run[x].used \subseteq 1 .. run'[x].used
  BY <1>1, <1>2
<1> QED
  BY <1>2, <1>3

(* Authority when only budget counters move. *)
LEMMA BudgetAuthority ==
    ASSUME PlatformTypeOK, AuthorityInv,
           \A x \in Runs : /\ run'[x].state = run[x].state /\ run'[x].session = run[x].session
                           /\ run'[x].mandate = run[x].mandate /\ run'[x].done = run[x].done
                           /\ run'[x].purpose = run[x].purpose
                           /\ 1 .. run[x].used \subseteq 1 .. run'[x].used,
           UNCHANGED <<runtimeVars, cell, attempt, mandate>>
    PROVE  /\ LiveExecutorHasSession' /\ AttemptHasRun' /\ MandateWasStarted'
           /\ RunOwnsMandate' /\ MandateIsCurrent'
<1>1. LiveExecutorHasSession' /\ AttemptHasRun' /\ MandateWasStarted'
  BY DEF AuthorityInv, LiveExecutorHasSession, AttemptHasRun, MandateWasStarted, runtimeVars
<1>2. RunOwnsMandate'
  BY DEF AuthorityInv, RunOwnsMandate
<1>3. MandateIsCurrent'
  <2>1. Ready' <=> Ready
    BY DEF Ready, RequireServing, runtimeVars
  <2>2. \A a \in Attempts : mandate[a].state = "Active" => attempt[a].run \in Runs
    BY DEF AuthorityInv, MandateWasStarted, AttemptHasRun, PlatformTypeOK, AttemptRecord
  <2> QED
    BY <2>1, <2>2 DEF AuthorityInv, MandateIsCurrent, runtimeVars
<1> QED
  BY <1>1, <1>2, <1>3

(* A part that is begun keeps every permit within the parts begun. *)
LEMMA BeginPartAuthority ==
    ASSUME PlatformTypeOK, AuthorityInv, NEW r \in Runs, BeginPart(r)
    PROVE  AuthorityInv'
<1> DEFINE n == run[r].used + 1
<1>1. n \in 0 .. MaxBudget /\ n >= run[r].used
  BY BoundAssumption DEF BeginPart, PlatformTypeOK, RunRecord
<1>2. run' = [run EXCEPT ![r].used = n]
  BY DEF BeginPart
<1> HIDE DEF n
<1>3. \A x \in Runs : /\ run'[x].state = run[x].state /\ run'[x].session = run[x].session
                      /\ run'[x].mandate = run[x].mandate /\ run'[x].done = run[x].done
                      /\ run'[x].purpose = run[x].purpose
                      /\ 1 .. run[x].used \subseteq 1 .. run'[x].used
  BY <1>1, <1>2, UsedChange
<1>4. /\ UNCHANGED <<runtimeVars, cell, attempt, mandate, permit, work, activation>>
      /\ \A o \in Ops : RunOf[o] \in Runs
  BY SlotAssumption DEF BeginPart, cellVars, workVars
<1>5. PermitHasPart' /\ PermitIsCurrent' /\ SuccessSpendsPermit' /\ DoneIsConfirmed'
  BY <1>3, <1>4 DEF AuthorityInv, PermitHasPart, PermitIsCurrent, SuccessSpendsPermit,
                    DoneIsConfirmed
<1> QED
  BY <1>3, <1>4, <1>5, BudgetAuthority DEF AuthorityInv

(* A submission issues one permit, under the run's active mandate and, in    *)
(* production, for a part that was begun.                                    *)
LEMMA SubmitAuthority ==
    ASSUME PlatformTypeOK, AuthorityInv, NEW o \in Ops, Submit(o)
    PROVE  AuthorityInv'
<1> DEFINE r == RunOf[o]
           n == IF run[r].purpose = "Setup" THEN run[r].used + 1 ELSE run[r].used
<1>0. r \in Runs /\ \A x \in Ops : RunOf[x] \in Runs
  BY SlotAssumption
<1>1. n \in 0 .. MaxBudget /\ n >= run[r].used
  BY <1>0, BoundAssumption DEF Submit, PlatformTypeOK, RunRecord
<1>2. run' = [run EXCEPT ![r].used = n]
  BY DEF Submit
<1> HIDE DEF n
<1>3. \A x \in Runs : /\ run'[x].state = run[x].state /\ run'[x].session = run[x].session
                      /\ run'[x].mandate = run[x].mandate /\ run'[x].done = run[x].done
                      /\ run'[x].purpose = run[x].purpose
                      /\ 1 .. run[x].used \subseteq 1 .. run'[x].used
  BY <1>0, <1>1, <1>2, UsedChange
<1>4. UNCHANGED <<runtimeVars, cell, attempt, mandate>>
  BY DEF Submit, cellVars
<1>5. /\ run[r].mandate # Nil /\ mandate[run[r].mandate].state = "Active"
      /\ run[r].purpose = "Production" => VisitOf[o] \in 1 .. run[r].used
      /\ activation[o] = "Resolved"
  BY DEF Submit, ActiveRun, ValidatePart
<1>6. /\ permit'[o].state = "Issued" /\ permit'[o].epoch = cell.epoch
      /\ permit'[o].mandate = run[r].mandate
      /\ work'[o].outcome = "None" /\ activation'[o] = "Submitted"
      /\ \A x \in Ops \ {o} : /\ permit'[x] = permit[x] /\ work'[x] = work[x]
                              /\ activation'[x] = activation[x]
  BY DEF Submit, PlatformTypeOK, Admitted
<1> HIDE DEF r
<1>7. PermitHasPart'
  BY <1>0, <1>3, <1>5, <1>6 DEF AuthorityInv, PermitHasPart, r
<1>8. PermitIsCurrent'
  BY <1>0, <1>3, <1>4, <1>5, <1>6 DEF AuthorityInv, PermitIsCurrent, r
<1>9. SuccessSpendsPermit'
  BY <1>6 DEF AuthorityInv, SuccessSpendsPermit
<1>10. DoneIsConfirmed'
  BY <1>3, <1>5, <1>6 DEF AuthorityInv, DoneIsConfirmed
<1> QED
  BY <1>3, <1>4, <1>7, <1>8, <1>9, <1>10, BudgetAuthority DEF AuthorityInv

(* The last part of a run uses up its mandate: no permit of the run is       *)
(* issued any more, because each would belong to a part that is done.        *)
LEMMA CompletePartAuthority ==
    ASSUME PlatformTypeOK, AuthorityInv, NEW r \in Runs, NEW part \in 1 .. MaxBudget,
           CompletePart(r, part)
    PROVE  AuthorityInv'
<1> DEFINE done == run[r].done \cup {part}
           finished == done = 1 .. run[r].used /\ run[r].used = run[r].limit
           v == [run[r] EXCEPT !.done = done,
                               !.state = IF finished THEN "Completed" ELSE run[r].state]
           m == run[r].mandate
<1>0. /\ run \in [Runs -> RunRecord] /\ run[r] \in RunRecord
      /\ mandate \in [Attempts -> MandateRecord]
      /\ \A x \in Ops : RunOf[x] \in Runs
  BY SlotAssumption DEF PlatformTypeOK
<1>1. UNCHANGED <<runtimeVars, cell, attempt, permit, work, activation>>
  BY DEF CompletePart, cellVars, workVars
<1>2. run' = [run EXCEPT ![r] = v]
  BY DEF CompletePart
<1>3. mandate' = IF finished THEN [mandate EXCEPT ![m].state = "Exhausted"] ELSE mandate
  BY DEF CompletePart
<1>4. /\ run[r].purpose = "Production" /\ m # Nil /\ m \in Attempts
      /\ \A o \in Ops : RunOf[o] = r /\ VisitOf[o] = part =>
            activation[o] = "Submitted" /\ work[o].outcome = "Succeeded"
  BY <1>0 DEF CompletePart, ActiveRun, StepsConfirmed, StepsOf, RunRecord
<1>5. /\ v.session = run[r].session /\ v.mandate = run[r].mandate /\ v.done = done
      /\ v.purpose = run[r].purpose /\ v.used = run[r].used
      /\ ~finished => v.state = run[r].state
  <2> HIDE DEF finished, done
  <2> QED
    BY <1>0 DEF RunRecord
<1>6. \A x \in Runs : run'[x] = IF x = r THEN v ELSE run[x]
  <2> HIDE DEF v
  <2> QED
    BY <1>0, <1>2
<1>7. \A o \in Ops : RunOf[o] = r /\ VisitOf[o] \in done =>
         activation[o] = "Submitted" /\ work[o].outcome = "Succeeded"
  BY <1>4 DEF AuthorityInv, DoneIsConfirmed
<1>8. finished => \A o \in Ops : RunOf[o] = r => permit[o].state # "Issued"
  BY <1>4, <1>7 DEF AuthorityInv, PermitHasPart, SuccessSpendsPermit
<1> HIDE DEF v, finished
<1>9. LiveExecutorHasSession' /\ AttemptHasRun' /\ SuccessSpendsPermit'
  BY <1>1 DEF AuthorityInv, LiveExecutorHasSession, AttemptHasRun, SuccessSpendsPermit, runtimeVars
<1>10. \A a \in Attempts : /\ mandate'[a] = mandate[a] \/ (finished /\ a = m)
                           /\ mandate'[a].state = "Active" => mandate'[a] = mandate[a]
                           /\ mandate'[a].state # "None" => mandate[a].state # "None" \/ a = m
  BY <1>0, <1>3, <1>4 DEF MandateRecord
<1>11. MandateWasStarted'
  BY <1>1, <1>4, <1>10 DEF AuthorityInv, MandateWasStarted, RunOwnsMandate
<1>12. RunOwnsMandate'
  BY <1>1, <1>5, <1>6 DEF AuthorityInv, RunOwnsMandate
<1>13. PermitHasPart'
  BY <1>0, <1>1, <1>5, <1>6 DEF AuthorityInv, PermitHasPart
<1>14. DoneIsConfirmed'
  BY <1>1, <1>5, <1>6, <1>7 DEF AuthorityInv, DoneIsConfirmed
<1>15. PermitIsCurrent'
  <2> SUFFICES ASSUME NEW o \in Ops, permit[o].state = "Issued"
               PROVE  /\ permit[o].epoch = cell.epoch
                      /\ permit[o].mandate = run'[RunOf[o]].mandate
                      /\ mandate'[permit[o].mandate].state = "Active"
    BY <1>1 DEF PermitIsCurrent
  <2>1. /\ permit[o].epoch = cell.epoch /\ permit[o].mandate = run[RunOf[o]].mandate
        /\ mandate[permit[o].mandate].state = "Active" /\ permit[o].mandate # Nil
    BY DEF AuthorityInv, PermitIsCurrent, PermitHasPart
  <2>2. permit[o].mandate = run'[RunOf[o]].mandate
    BY <1>0, <1>5, <1>6, <2>1
  <2>3. permit[o].mandate \in Attempts
    BY <2>1 DEF PlatformTypeOK, PermitRecord
  <2>4. finished => permit[o].mandate # m
    <3>1. finished => RunOf[o] # r
      BY <1>8
    <3>2. permit[o].mandate = m => RunOf[o] = r
      <4>1. \A x \in Runs : run[x].mandate = m => attempt[m].run = x
        BY <1>4 DEF AuthorityInv, RunOwnsMandate
      <4>2. RunOf[o] \in Runs
        BY <1>0
      <4> QED
        BY <2>1, <4>1, <4>2
    <3> QED
      BY <3>1, <3>2
  <2> QED
    BY <1>10, <2>1, <2>2, <2>3, <2>4
<1>16. MandateIsCurrent'
  <2>1. Ready' <=> Ready
    BY <1>1 DEF Ready, RequireServing, runtimeVars
  <2> SUFFICES ASSUME NEW a \in Attempts, mandate'[a].state = "Active"
               PROVE  /\ Ready /\ executor.live
                      /\ mandate'[a].epoch = cell.epoch /\ mandate'[a].session = executor.session
                      /\ run'[attempt[a].run].state = "Executing"
                      /\ run'[attempt[a].run].mandate = a
                      /\ run'[attempt[a].run].session = executor.session
    BY <1>1, <2>1 DEF MandateIsCurrent, runtimeVars
  <2>2. mandate'[a] = mandate[a] /\ (finished => a # m)
    <3>1. finished => mandate'[m].state = "Exhausted"
      BY <1>0, <1>3, <1>4 DEF MandateRecord
    <3> QED
      BY <1>10, <3>1
  <2>3. /\ Ready /\ executor.live
        /\ mandate[a].epoch = cell.epoch /\ mandate[a].session = executor.session
        /\ run[attempt[a].run].state = "Executing" /\ run[attempt[a].run].mandate = a
        /\ run[attempt[a].run].session = executor.session
    BY <2>2 DEF AuthorityInv, MandateIsCurrent
  <2>4. attempt[a].run \in Runs
    BY <2>2 DEF AuthorityInv, MandateWasStarted, AttemptHasRun, PlatformTypeOK, AttemptRecord
  <2>5. CASE attempt[a].run = r
    <3>1. a = m /\ ~finished
      BY <2>2, <2>3, <2>5
    <3> QED
      BY <1>5, <1>6, <2>2, <2>3, <2>5, <3>1
  <2>6. CASE attempt[a].run # r
    BY <1>6, <2>2, <2>3, <2>4, <2>6
  <2> QED
    BY <2>5, <2>6
<1> QED
  BY <1>9, <1>11, <1>12, <1>13, <1>14, <1>15, <1>16 DEF AuthorityInv

\* Every step of delivery, evidence and handover keeps live authority current.
LEMMA DispatchStepAuthority ==
    ASSUME PlatformTypeOK, StoredWorkDecodes, AuthorityInv, DispatchStep
    PROVE  AuthorityInv'
<1> USE DEF cellVars, startVars
<1>0. /\ work \in [Ops -> OperationRecord(EvidenceKind)] /\ permit \in [Ops -> PermitRecord]
      /\ \A o \in Ops : work[o] \in OperationRecord(EvidenceKind) /\ Decodes(work[o])
  BY DEF PlatformTypeOK, StoredWorkDecodes
<1>a. UNCHANGED runtimeVars => LiveExecutorHasSession'
  BY DEF AuthorityInv, LiveExecutorHasSession, runtimeVars
<1>b. \A o \in Ops : /\ LoseContinuity(work[o]).outcome = work[o].outcome
                     /\ Dispute(work[o]).outcome = work[o].outcome
                     /\ Release(work[o], {"handover"}).outcome = work[o].outcome
                     /\ Sent(work[o]).outcome = work[o].outcome
  BY <1>0 DEF LoseContinuity, Dispute, Release, Sent, OperationRecord
<1>1. ASSUME NEW o \in Ops, ResolveActivation(o)
      PROVE  AuthorityInv'
  <2>1. /\ UNCHANGED <<runtimeVars, cell, run, attempt, mandate, permit, work>>
        /\ \A x \in Ops : activation[x] = "Submitted" => activation'[x] = activation[x]
    BY <1>1 DEF ResolveActivation, PlatformTypeOK
  <2>2. DoneIsConfirmed'
    BY <2>1 DEF AuthorityInv, DoneIsConfirmed
  <2>3. Ready' <=> Ready
    BY <2>1 DEF Ready, RequireServing, runtimeVars
  <2>4. MandateIsCurrent' /\ PermitIsCurrent'
    BY <2>1, <2>3 DEF AuthorityInv, MandateIsCurrent, PermitIsCurrent, runtimeVars
  <2> QED
    BY <2>1, <2>2, <2>4 DEF AuthorityInv, LiveExecutorHasSession, AttemptHasRun,
       MandateWasStarted, RunOwnsMandate, PermitHasPart, SuccessSpendsPermit, runtimeVars
<1>2. ASSUME NEW o \in Ops, PlanPrepare(o) \/ PlanAuthorize(o)
      PROVE  AuthorityInv'
  BY <1>2, AuthorityFrame DEF PlanPrepare, PlanAuthorize
<1>3. ASSUME NEW o \in Ops, NoteDeliveryAttention(o)
      PROVE  AuthorityInv'
  <2>1. \A x \in Ops : work'[x].outcome = work[x].outcome
    BY <1>0, <1>b, <1>3 DEF NoteDeliveryAttention
  <2> QED
    BY <1>3, <2>1, WorkChange DEF NoteDeliveryAttention
<1>4. ASSUME NEW o \in Ops, ReleaseResources(o)
      PROVE  AuthorityInv'
  <2>1. \A x \in Ops : work'[x].outcome = work[x].outcome
    BY <1>0, <1>b, <1>4 DEF ReleaseResources
  <2> QED
    BY <1>4, <2>1, WorkChange DEF ReleaseResources
<1>5. ASSUME NEW o \in Ops, DisputeOperation(o)
      PROVE  AuthorityInv'
  <2> DEFINE w == [work EXCEPT ![o] = Dispute(work[o])]
  <2>1. Dispute(work[o]) \in OperationRecord(EvidenceKind)
    BY <1>0, MethodsDecode
  <2>2. w \in [Ops -> OperationRecord(EvidenceKind)]
        /\ \A x \in Ops : work[x].outcome = "Succeeded" => w[x].outcome = "Succeeded"
    BY <1>0, <1>b, <2>1
  <2>3. /\ InvalidateCell(Nil, cell.qualified, w, permit, authorizeRow)
        /\ UNCHANGED <<runtimeVars, activation>>
    BY <1>5 DEF DisputeOperation
  <2> HIDE DEF w
  <2> QED
    BY <1>0, <1>a, <2>2, <2>3, InvalidateCellAuthority
<1>6. ASSUME NEW o \in Ops, NEW m \in {"prepare", "authorize"},
             NEW state \in {"Prepared", "VoidedBeforeSend", "SendEntered"},
             RecordHostReceipt(o, m, state)
      PROVE  AuthorityInv'
  <2>1. /\ work[o].outcome = "Succeeded" => ReceiptWork(o, state).outcome = "Succeeded"
        /\ ReceiptWork(o, state).outcome = "Succeeded" => work[o].outcome = "Succeeded"
    <3>1. work[o].outcome = "None" =>
             Conclude(work[o], "NotExecuted", {"void"}).outcome = "NotExecuted"
      BY <1>0 DEF Conclude, Decodes, OperationRecord
    <3> QED
      BY <1>b, <3>1 DEF ReceiptWork
  <2>2. work' = [work EXCEPT ![o] = ReceiptWork(o, state)]
    BY <1>6 DEF RecordHostReceipt
  <2>3. \A x \in Ops : permit'[x] = permit[x] \/ permit'[x].state # "Issued"
    BY <1>0, <1>6 DEF RecordHostReceipt, PermitRecord
  <2>4. UNCHANGED <<runtimeVars, cell, run, attempt, mandate, activation>>
    BY <1>6 DEF RecordHostReceipt
  <2> QED
    BY <1>0, <2>1, <2>2, <2>3, <2>4, WorkChange
<1>7. ASSUME NEW o \in Ops, NEW s \in Status, IngestEvidence(o, s)
      PROVE  AuthorityInv'
  <2>0. UNCHANGED <<runtimeVars, activation>>
    BY <1>7 DEF IngestEvidence
  <2>1. ASSUME NEW outcome \in NativeOutcomes(o, s), ApplyCorrelated(o, outcome)
        PROVE  AuthorityInv'
    <3> DEFINE w == [work EXCEPT ![o] = WorkAfterEvidence(o, outcome)]
               p == PermitAfterEvidence(o)
    <3>1. outcome \in {"None", "Succeeded", "Failed"}
      BY <2>1 DEF NativeOutcomes
    <3>2. /\ WorkAfterEvidence(o, outcome) \in OperationRecord(EvidenceKind)
          /\ work[o].outcome # "None" => WorkAfterEvidence(o, outcome).outcome = work[o].outcome
      BY <1>0, <3>1, EvidenceTypes
    <3>3. /\ w \in [Ops -> OperationRecord(EvidenceKind)]
          /\ \A x \in Ops : work[x].outcome = "Succeeded" => w[x].outcome = "Succeeded"
          /\ \A x \in Ops \ {o} : w[x] = work[x]
      BY <1>0, <3>2
    <3>4. /\ p \in [Ops -> PermitRecord] /\ p[o].state # "Issued"
          /\ \A x \in Ops \ {o} : p[x] = permit[x]
      BY <1>0 DEF PermitAfterEvidence, PermitRecord
    <3> HIDE DEF w, p
    <3>5. CASE InvalidateCell(Nil, cell.qualified, w, p, AuthorizeRowAfterEvidence(o))
      BY <1>a, <2>0, <3>3, <3>4, <3>5, InvalidateCellAuthority
    <3>6. CASE /\ work' = w /\ permit' = p
               /\ UNCHANGED <<cell, run, attempt, mandate>>
      BY <2>0, <3>3, <3>4, <3>6, WorkChange
    <3> QED
      BY <2>1, <3>5, <3>6 DEF ApplyCorrelated, w, p
  <2>2. ASSUME ApplyUncorrelated(o) PROVE AuthorityInv'
    <3>1. \A x \in Ops : work'[x].outcome = work[x].outcome
      BY <1>0, <1>b, <2>2 DEF ApplyUncorrelated
    <3> QED
      BY <2>0, <2>2, <3>1, WorkChange DEF ApplyUncorrelated
  <2> QED
    BY <1>7, <2>1, <2>2 DEF IngestEvidence
<1> QED
  BY <1>1, <1>2, <1>3, <1>4, <1>5, <1>6, <1>7, BeginPartAuthority, SubmitAuthority,
     CompletePartAuthority DEF DispatchStep

\* Every step of the cell itself (restart, executor, revocation) keeps live
\* authority current.
LEMMA CellStepAuthority ==
    ASSUME PlatformTypeOK, AuthorityInv,
           FenceStep \/ CellStep \/ (\E verified \in BOOLEAN : Restart(verified))
    PROVE  AuthorityInv'
<1> USE DEF cellVars, startVars, workVars
<1>0. /\ cell \in CellRecord /\ executor \in [session : Session, live : BOOLEAN]
      /\ work \in [Ops -> OperationRecord(EvidenceKind)] /\ permit \in [Ops -> PermitRecord]
  BY DEF PlatformTypeOK
<1>1. CASE FenceStep
  BY <1>1, AuthorityFrame DEF FenceStep, PlanFence, FinishFence
\* A cell that is not ready has no authority, so making it ready keeps all.
<1>2. ASSUME ~Ready, UNCHANGED <<run, attempt, mandate, permit, work, activation>>,
             LiveExecutorHasSession'
      PROVE  AuthorityInv'
  <2>1. \A a \in Attempts : mandate[a].state # "Active"
    BY <1>2 DEF AuthorityInv, MandateIsCurrent
  <2>2. \A o \in Ops : permit[o].state # "Issued"
    BY <2>1 DEF AuthorityInv, PermitIsCurrent, PermitHasPart, PlatformTypeOK, PermitRecord
  <2> QED
    BY <1>2, <2>1, <2>2 DEF AuthorityInv, AttemptHasRun, MandateWasStarted, RunOwnsMandate,
       PermitHasPart, SuccessSpendsPermit, DoneIsConfirmed, MandateIsCurrent, PermitIsCurrent
<1>3. UNCHANGED runtimeVars => LiveExecutorHasSession'
  BY DEF AuthorityInv, LiveExecutorHasSession, runtimeVars
<1>4. CASE Qualify
  BY <1>2, <1>3, <1>4 DEF Qualify, Ready
<1>5. ASSUME NEW cleared \in BOOLEAN, ActivateQualification(cleared)
      PROVE  AuthorityInv'
  BY <1>2, <1>3, <1>5 DEF ActivateQualification, Ready
<1>6. ASSUME NEW runtimeOnly \in BOOLEAN, OpenExecutor(runtimeOnly)
      PROVE  AuthorityInv'
  <2>1. executor'.live /\ executor'.session # 0
    <3>1. executor.session \in Nat
      BY <1>0, BoundAssumption DEF Session
    <3>2. executor.session + 1 # 0
      BY <3>1
    <3> QED
      BY <1>6, <3>2 DEF OpenExecutor
  <2>2. LiveExecutorHasSession'
    BY <2>1 DEF LiveExecutorHasSession
  <2>3. CASE Invalidate(Nil)
    BY <2>2, <2>3, InvalidateAuthority
  <2>4. CASE /\ executor.session = 0 \/ runtimeOnly
             /\ UNCHANGED <<cell, startVars, workVars, fenceRow, ingested>>
    <3>1. ~executor.live
      BY <1>6, <2>4 DEF OpenExecutor, AuthorityInv, LiveExecutorHasSession
    <3>2. \A a \in Attempts : mandate[a].state # "Active"
      BY <3>1 DEF AuthorityInv, MandateIsCurrent
    <3>3. \A o \in Ops : permit[o].state # "Issued"
      BY <3>2 DEF AuthorityInv, PermitIsCurrent, PermitHasPart, PlatformTypeOK, PermitRecord
    <3> QED
      BY <2>2, <2>4, <3>2, <3>3 DEF AuthorityInv, AttemptHasRun, MandateWasStarted,
         RunOwnsMandate, PermitHasPart, SuccessSpendsPermit, DoneIsConfirmed,
         MandateIsCurrent, PermitIsCurrent
  <2> QED
    BY <1>6, <2>3, <2>4 DEF OpenExecutor
<1>7. ASSUME NEW h \in Hosts, LinkHost(h)
      PROVE  AuthorityInv'
  BY <1>7, AuthorityFrame DEF LinkHost
<1>8. CASE (\E h \in Hosts : ReplaceHost(h)) \/ Hold \/ MaintainedConditionLost
  BY <1>3, <1>8, InvalidateAuthority DEF ReplaceHost, Hold, MaintainedConditionLost
<1>9. CASE RequestRuntimeStop
  BY <1>9, InvalidateAuthority DEF RequestRuntimeStop, AuthorityInv, LiveExecutorHasSession
<1>10. CASE CommitRuntimeStop
  <2>1. ~Ready
    BY <1>10 DEF CommitRuntimeStop, Ready, RequireServing
  <2>2. LiveExecutorHasSession'
    BY <1>10 DEF CommitRuntimeStop, AuthorityInv, LiveExecutorHasSession
  <2> QED
    BY <1>2, <1>10, <2>1, <2>2 DEF CommitRuntimeStop
<1>11. ASSUME NEW verified \in BOOLEAN, Restart(verified)
       PROVE  AuthorityInv'
  <2> DEFINE q == cell.qualified /\ verified
  <2>1. InvalidateCell(Nil, q, work, permit, authorizeRow) /\ UNCHANGED activation
    BY <1>11 DEF Restart
  <2>2. LiveExecutorHasSession'
    <3>1. executor'.live = FALSE
      BY <1>0, <1>11 DEF Restart
    <3> QED
      BY <3>1 DEF LiveExecutorHasSession
  <2> HIDE DEF q
  <2> QED
    BY <1>0, <2>1, <2>2, InvalidateCellAuthority
<1> QED
  BY <1>1, <1>4, <1>5, <1>6, <1>7, <1>8, <1>9, <1>10, <1>11 DEF CellStep

(* The inductive step of the authority invariant. *)
LEMMA StepAuthority ==
    TypeOK /\ StoredWorkDecodes /\ AuthorityInv /\ [Next]_vars => AuthorityInv'
<1> SUFFICES ASSUME TypeOK, StoredWorkDecodes, AuthorityInv, [Next]_vars
             PROVE  AuthorityInv'
  OBVIOUS
<1>0. PlatformTypeOK
  BY DEF TypeOK
<1>1. CASE UNCHANGED platformVars
  BY <1>1, AuthorityFrame DEF platformVars, cellVars, startVars, workVars
<1>2. CASE UNCHANGED vars
  BY <1>1, <1>2 DEF vars
<1> QED
  BY <1>0, <1>1, <1>2, StartStepAuthority, DispatchStepAuthority, CellStepAuthority DEF Next

(* For every number of runs, attempts, hosts and operations: an active       *)
(* mandate and an issued permit always belong to the present epoch and       *)
(* executor session of a ready cell.  No handler, late answer or restart     *)
(* leaves authority behind when its context ends.                            *)
THEOREM AuthorityIsAlwaysCurrent == Spec => []AuthorityIsCurrent
<1>1. Init => AuthorityInv
  BY DEF Init, PlatformInit, Admitted, AuthorityInv, LiveExecutorHasSession, AttemptHasRun,
         MandateWasStarted, RunOwnsMandate, PermitHasPart, SuccessSpendsPermit,
         DoneIsConfirmed, MandateIsCurrent, PermitIsCurrent
<1>2. AuthorityInv => AuthorityIsCurrent
  BY DEF AuthorityInv, AuthorityIsCurrent
<1> QED
  BY <1>1, <1>2, StepAuthority, StoredWorkAlwaysDecodes, PTL DEF Spec

-----------------------------------------------------------------------------
(***************************************************************************)
(* The start protocol, for every number of runs, attempts and hosts: a     *)
(* start attempt and its run never lose each other, overlapping starts of  *)
(* different purposes never both take effect, and a mandate is backed by   *)
(* every host.                                                             *)
(*                                                                         *)
(* None of the three is inductive.  What they need is that an arming       *)
(* attempt ends with the executor it was made for, that it is no newer     *)
(* than the cell, that nothing has begun to execute since the revision it  *)
(* quotes, and that no host is ahead of the cell or behind what its        *)
(* registration says.                                                      *)
(***************************************************************************)

ArmingIsLive == \A a \in Attempts : attempt[a].status = "Arming" => executor.live

AttemptIsPast ==
    \A a \in Attempts : attempt[a].status # "None" => attempt[a].revision <= cell.revision

(* While the cell still has the revision an attempt was made for, every run  *)
(* that executes has the purpose of the attempt's run.                       *)
ArmingSeesPurposes ==
    \A a \in Attempts, r \in Runs :
        /\ attempt[a].status = "Arming" /\ attempt[a].revision = cell.revision
        /\ run[r].state = "Executing"
        => run[r].purpose = run[attempt[a].run].purpose

AcksAreArmed == \A a \in Attempts : \A h \in attempt[a].acks : <<a, h>> \in armed

FencesArePast == \A h \in Hosts, e \in Epoch : fenceRow[<<h, e>>] # "None" => e <= cell.epoch

HostFollowsCell ==
    /\ \A h \in Hosts : host[h].epoch <= hostEpoch[h] /\ hostEpoch[h] <= cell.epoch
    /\ \A h \in Hosts, e \in Epoch : <<h, e>> \in fenced => e <= hostEpoch[h]

StartInv ==
    /\ StartIsPending /\ ArmingIsLive
    /\ AttemptIsPast /\ ArmingSeesPurposes /\ OnePurposeExecutes
    /\ AcksAreArmed /\ FencesArePast /\ HostFollowsCell /\ EveryHostIsArmed

(* Steps that touch neither the start records nor the fences. *)
LEMMA StartFrame ==
    ASSUME StartInv,
           \A r \in Runs : /\ run'[r].state = run[r].state /\ run'[r].pending = run[r].pending
                           /\ run'[r].purpose = run[r].purpose,
           UNCHANGED <<executor, attempt, mandate, fenceRow, host, hostEpoch, fenced, armed>>,
           cell'.epoch = cell.epoch, cell'.revision = cell.revision, cell'.mode = cell.mode,
           PlatformTypeOK, AttemptHasRun
    PROVE  StartInv'
<1>0. \A a \in Attempts : attempt[a].status = "Arming" => attempt[a].run \in Runs
  BY DEF AttemptHasRun, PlatformTypeOK, AttemptRecord
<1>1. StartIsPending' /\ ArmingIsLive'
  BY <1>0 DEF StartInv, StartIsPending, ArmingIsLive
<1>2. AttemptIsPast' /\ AcksAreArmed' /\ FencesArePast' /\ HostFollowsCell' /\ EveryHostIsArmed'
  BY DEF StartInv, AttemptIsPast, AcksAreArmed, FencesArePast, HostFollowsCell, EveryHostIsArmed
<1>3. ArmingSeesPurposes' /\ OnePurposeExecutes'
  BY <1>0 DEF StartInv, ArmingSeesPurposes, OnePurposeExecutes
<1> QED
  BY <1>1, <1>2, <1>3 DEF StartInv

(* An invalidation ends every start attempt and every executing run, and    *)
(* moves the cell past both the attempts and the hosts.                     *)
LEMMA InvalidateCellStart ==
    ASSUME PlatformTypeOK, HostTypeOK, StartInv, NEW paused, NEW qualified, NEW w, NEW p, NEW au,
           InvalidateCell(paused, qualified, w, p, au), UNCHANGED <<armed, hostEpoch, fenced>>,
           \A h \in Hosts : host'[h].epoch = host[h].epoch
    PROVE  StartInv'
<1>0. /\ run \in [Runs -> RunRecord] /\ attempt \in [Attempts -> AttemptRecord]
      /\ mandate \in [Attempts -> MandateRecord] /\ cell \in CellRecord
      /\ cell.epoch \in Nat /\ cell.revision \in Nat
      /\ \A h \in Hosts : hostEpoch[h] \in Nat /\ host[h].epoch \in Nat
      /\ \A a \in Attempts : attempt[a].revision \in Nat
  BY BoundAssumption DEF PlatformTypeOK, HostTypeOK, CellRecord, Epoch, AttemptRecord
<1>1. \A a \in Attempts : mandate'[a].state # "Active"
  BY <1>0 DEF InvalidateCell, RevokeIfActive, MandateRecord
<1>2. \A a \in Attempts : /\ attempt'[a].status # "Arming"
                          /\ attempt'[a].status # "None" => attempt[a].status # "None"
                          /\ attempt'[a].revision = attempt[a].revision
                          /\ attempt'[a].acks = attempt[a].acks
  BY <1>0 DEF InvalidateCell, RejectIfArming, AttemptRecord
<1>3. \A r \in Runs : run'[r].state # "Executing" /\ run'[r].pending = Nil
  <2>1. \A r \in Runs : run[r].pending # Nil => run[r].state = "Prepared"
    BY DEF StartInv, StartIsPending
  <2>2. \A r \in Runs : run'[r] = InvalidateRun(r, paused)
    BY DEF InvalidateCell
  <2>3. ASSUME NEW r \in Runs
        PROVE  run'[r].state # "Executing" /\ run'[r].pending = Nil
    <3> DEFINE v == [run[r] EXCEPT !.state = IF r = paused THEN "Paused" ELSE "RecoveryRequired",
                                   !.session = 0, !.pending = Nil]
    <3>1. v.state \in {"Paused", "RecoveryRequired"} /\ v.pending = Nil
      BY <1>0 DEF RunRecord
    <3>2. run'[r] = IF run[r].state \in {"Executing", "Prepared", "Paused"} THEN v ELSE run[r]
      BY <2>2 DEF InvalidateRun
    <3> HIDE DEF v
    <3> QED
      BY <2>1, <3>1, <3>2
  <2> QED
    BY <2>3
<1>4. cell'.epoch = cell.epoch + 1 /\ cell'.revision = cell.revision + 1
  BY <1>0 DEF InvalidateCell, RevokedCell, CellRecord
<1>5. StartIsPending' /\ ArmingIsLive' /\ ArmingSeesPurposes' /\ OnePurposeExecutes'
  BY <1>2, <1>3 DEF StartIsPending, ArmingIsLive, ArmingSeesPurposes, OnePurposeExecutes
<1>6. AttemptIsPast'
  BY <1>0, <1>2, <1>4 DEF StartInv, AttemptIsPast
<1>7. AcksAreArmed' /\ EveryHostIsArmed'
  BY <1>1, <1>2 DEF StartInv, AcksAreArmed, EveryHostIsArmed
<1>8. FencesArePast'
  <2>1. \A h \in Hosts, e \in Epoch :
           fenceRow'[<<h, e>>] = IF e = cell.epoch + 1 THEN "New" ELSE fenceRow[<<h, e>>]
    BY DEF InvalidateCell
  <2>2. \A e \in Epoch : e \in Nat
    BY BoundAssumption DEF Epoch
  <2> QED
    BY <1>0, <1>4, <2>1, <2>2 DEF StartInv, FencesArePast
<1>9. HostFollowsCell'
  BY <1>0, <1>4 DEF StartInv, HostFollowsCell
<1> QED
  BY <1>5, <1>6, <1>7, <1>8, <1>9 DEF StartInv

\* invalidate_cell ends every pending start with its attempt.
LEMMA InvalidateStart ==
    ASSUME PlatformTypeOK, HostTypeOK, StartInv, NEW paused, Invalidate(paused),
           UNCHANGED hostVars, \A h \in Hosts : host'[h].epoch = host[h].epoch
    PROVE  StartInv'
BY InvalidateCellStart DEF Invalidate, hostVars

(* A change of one run that stays outside execution and waits for no start. *)
LEMMA IdleRunStart ==
    ASSUME PlatformTypeOK, AttemptHasRun, StartInv, NEW r \in Runs,
           run[r].pending = Nil, run[r].state # "Executing",
           run'[r].pending = Nil, run'[r].state # "Executing",
           \A x \in Runs \ {r} : run'[x] = run[x],
           UNCHANGED <<executor, cell, attempt, mandate, fenceRow, host, hostEpoch, fenced, armed>>
    PROVE  StartInv'
<1>0. \A a \in Attempts : attempt[a].status = "Arming" => attempt[a].run \in Runs \ {r}
  BY NilAssumption DEF AttemptHasRun, PlatformTypeOK, AttemptRecord, StartInv, StartIsPending
<1>1. StartIsPending' /\ ArmingIsLive'
  BY <1>0 DEF StartInv, StartIsPending, ArmingIsLive
<1>2. AttemptIsPast' /\ AcksAreArmed' /\ FencesArePast' /\ HostFollowsCell' /\ EveryHostIsArmed'
  BY DEF StartInv, AttemptIsPast, AcksAreArmed, FencesArePast, HostFollowsCell, EveryHostIsArmed
<1>3. ArmingSeesPurposes' /\ OnePurposeExecutes'
  BY <1>0 DEF StartInv, ArmingSeesPurposes, OnePurposeExecutes
<1> QED
  BY <1>1, <1>2, <1>3 DEF StartInv

(* A start request pairs a fresh attempt with a run that waits for none. *)
LEMMA StartRunStart ==
    ASSUME PlatformTypeOK, AuthorityInv, StartInv, NEW r \in Runs, NEW a \in Attempts,
           NEW purpose \in {"Production", "Setup"}, NEW limit \in 1 .. MaxBudget,
           StartRun(r, a, purpose, limit), UNCHANGED hostVars
    PROVE  StartInv'
<1> DEFINE v == [run[r] EXCEPT !.limit = limit, !.purpose = purpose, !.pending = a]
           n == [status |-> "Arming", run |-> r, epoch |-> cell.epoch,
                 revision |-> cell.revision, session |-> executor.session, acks |-> {}]
<1>0. /\ run \in [Runs -> RunRecord] /\ attempt \in [Attempts -> AttemptRecord]
      /\ cell.revision \in Nat
      /\ \A x \in Attempts : attempt[x].status = "Arming" => attempt[x].run \in Runs
      /\ a # Nil
  BY BoundAssumption, NilAssumption
     DEF PlatformTypeOK, CellRecord, AuthorityInv, AttemptHasRun, AttemptRecord
<1>1. /\ v.state = run[r].state /\ v.pending = a /\ v.purpose = purpose
  BY <1>0 DEF RunRecord
<1>2. /\ run' = [run EXCEPT ![r] = v] /\ run[r].state = "Prepared" /\ run[r].pending = Nil
      /\ \A x \in Runs \ {r} : run[x].state = "Executing" => run[x].purpose = purpose
      /\ executor.live
  BY DEF StartRun, StartCandidate
<1>3. attempt' = [attempt EXCEPT ![a] = n] /\ attempt[a].status = "None"
  BY DEF StartRun
<1>4. UNCHANGED <<executor, cell, mandate, fenceRow, host, hostEpoch, fenced, armed>>
  BY DEF StartRun, runtimeVars, cellVars, hostVars
<1>a. /\ n.status = "Arming" /\ n.run = r /\ n.epoch = cell.epoch
      /\ n.revision = cell.revision /\ n.session = executor.session /\ n.acks = {}
  OBVIOUS
<1> HIDE DEF v, n
<1>5. run'[r] = v /\ \A x \in Runs \ {r} : run'[x] = run[x]
  BY <1>0, <1>2
<1>6. attempt'[a] = n /\ \A x \in Attempts \ {a} : attempt'[x] = attempt[x]
  BY <1>0, <1>3
<1>7. \A x \in Attempts : attempt[x].status = "Arming" => attempt[x].run # r /\ x # a
  BY <1>0, <1>2, <1>3, NilAssumption DEF StartInv, StartIsPending
<1>8. StartIsPending' /\ ArmingIsLive'
  <2>1. ASSUME NEW x \in Attempts, attempt'[x].status = "Arming"
        PROVE  /\ run'[attempt'[x].run].pending = x /\ executor'.live
               /\ attempt'[x].epoch = cell'.epoch /\ attempt'[x].session = executor'.session
    <3>1. CASE x = a
      BY <1>1, <1>2, <1>4, <1>5, <1>6, <1>a, <3>1
    <3>2. CASE x # a
      <4>1. attempt'[x] = attempt[x] /\ attempt[x].run \in Runs \ {r}
        BY <1>0, <1>6, <1>7, <2>1, <3>2
      <4> QED
        BY <1>2, <1>4, <1>5, <2>1, <4>1 DEF StartInv, StartIsPending
    <3> QED
      BY <3>1, <3>2
  <2>2. ASSUME NEW y \in Runs, run'[y].pending # Nil
        PROVE  /\ run'[y].state = "Prepared" /\ attempt'[run'[y].pending].status = "Arming"
               /\ attempt'[run'[y].pending].run = y
    <3>1. CASE y = r
      BY <1>1, <1>2, <1>5, <1>6, <1>a, <3>1
    <3>2. CASE y # r
      <4>1. run'[y] = run[y] /\ run[y].pending \in Attempts
        BY <1>0, <1>5, <2>2, <3>2 DEF RunRecord
      <4>2. /\ run[y].state = "Prepared" /\ attempt[run[y].pending].status = "Arming"
            /\ attempt[run[y].pending].run = y
        BY <2>2, <4>1 DEF StartInv, StartIsPending
      <4> QED
        BY <1>6, <1>7, <4>1, <4>2
    <3> QED
      BY <3>1, <3>2
  <2> QED
    BY <2>1, <2>2 DEF StartIsPending, ArmingIsLive
<1>9. AttemptIsPast'
  BY <1>0, <1>4, <1>6, <1>a DEF StartInv, AttemptIsPast
<1>10. AcksAreArmed'
  BY <1>4, <1>6, <1>a DEF StartInv, AcksAreArmed
<1>11. FencesArePast' /\ HostFollowsCell' /\ EveryHostIsArmed'
  BY <1>4 DEF StartInv, FencesArePast, HostFollowsCell, EveryHostIsArmed
<1>12. OnePurposeExecutes'
  BY <1>1, <1>2, <1>4, <1>5 DEF StartInv, OnePurposeExecutes
<1>13. ArmingSeesPurposes'
  <2> SUFFICES ASSUME NEW x \in Attempts, NEW y \in Runs,
                      attempt'[x].status = "Arming", attempt'[x].revision = cell.revision,
                      run'[y].state = "Executing"
               PROVE  run'[y].purpose = run'[attempt'[x].run].purpose
    BY <1>4 DEF ArmingSeesPurposes
  <2>1. y # r /\ run'[y] = run[y]
    BY <1>1, <1>2, <1>5
  <2>2. CASE x = a
    BY <1>1, <1>2, <1>5, <1>6, <1>a, <2>1, <2>2
  <2>3. CASE x # a
    <3>1. attempt'[x] = attempt[x] /\ attempt[x].run \in Runs \ {r}
      BY <1>0, <1>6, <1>7, <2>3
    <3> QED
      BY <1>5, <2>1, <3>1 DEF StartInv, ArmingSeesPurposes
  <2> QED
    BY <2>2, <2>3
<1> QED
  BY <1>8, <1>9, <1>10, <1>11, <1>12, <1>13 DEF StartInv

(* The last acknowledgment: every host has acknowledged this attempt and is *)
(* at the cell's epoch, and no run of another purpose has begun to execute  *)
(* since the attempt was made.                                              *)
LEMMA CreateMandateStart ==
    ASSUME PlatformTypeOK, HostTypeOK, AuthorityInv, StartInv,
           NEW a \in Attempts, NEW h \in Hosts, <<a, h>> \in armed,
           attempt[a].status = "Arming", ~AttemptStale(a), AllAcknowledged(a, h),
           \A g \in Hosts : PreparedHost(g), CreateMandate(a, h),
           UNCHANGED <<runtimeVars, host, fenceRow, hostVars>>
    PROVE  StartInv'
<1> DEFINE r == attempt[a].run
           v == [run[r] EXCEPT !.state = "Executing", !.pending = Nil,
                               !.session = executor.session, !.mandate = a]
           n == [attempt[a] EXCEPT !.acks = attempt[a].acks \cup {h}, !.status = "Started"]
           mode == IF run[r].purpose = "Production" THEN "Automatic" ELSE "Setup"
<1>0. /\ run \in [Runs -> RunRecord] /\ attempt \in [Attempts -> AttemptRecord]
      /\ mandate \in [Attempts -> MandateRecord] /\ cell \in CellRecord
      /\ cell.epoch \in Nat /\ cell.revision \in Nat /\ r \in Runs /\ a # Nil
      /\ \A x \in Attempts : attempt[x].revision \in Nat
      /\ \A x \in Attempts : attempt[x].status = "Arming" => attempt[x].run \in Runs
      /\ \A g \in Hosts : hostEpoch[g] \in Nat
  BY BoundAssumption, NilAssumption
     DEF PlatformTypeOK, HostTypeOK, CellRecord, Epoch, AuthorityInv, AttemptHasRun, AttemptRecord
<1>1. /\ v.state = "Executing" /\ v.pending = Nil /\ v.purpose = run[r].purpose
  BY <1>0 DEF RunRecord
<1>2. /\ n.status = "Started" /\ n.acks = Hosts /\ n.revision = attempt[a].revision
  BY <1>0 DEF AttemptRecord, AllAcknowledged
<1>3. run' = [run EXCEPT ![r] = v] /\ attempt' = [attempt EXCEPT ![a] = n]
  BY DEF CreateMandate
<1>4. mandate' = [mandate EXCEPT ![a] =
                    [state |-> "Active", epoch |-> cell.epoch, session |-> executor.session]]
  BY DEF CreateMandate
<1>5. cell'.epoch = cell.epoch /\ cell'.revision = cell.revision + 1 /\ cell'.mode = mode
  BY <1>0 DEF CreateMandate, CellRecord
<1>6. UNCHANGED <<executor, host, fenceRow, armed, hostEpoch, fenced>>
  BY DEF runtimeVars, hostVars
<1>7. attempt[a].revision = cell.revision /\ run[r].pending = a /\ run[r].state = "Prepared"
  BY DEF AttemptStale
<1>8. \A y \in Runs : run[y].state = "Executing" => run[y].purpose = run[r].purpose
  BY <1>7 DEF StartInv, ArmingSeesPurposes
<1> HIDE DEF v, n
<1>9. /\ run'[r] = v /\ \A x \in Runs \ {r} : run'[x] = run[x]
      /\ attempt'[a] = n /\ \A x \in Attempts \ {a} : attempt'[x] = attempt[x]
  BY <1>0, <1>3
<1> HIDE DEF r
<1>10. \A x \in Attempts : attempt'[x].status = "Arming" =>
          x # a /\ attempt'[x] = attempt[x] /\ attempt[x].run \in Runs \ {r}
  BY <1>0, <1>2, <1>7, <1>9 DEF StartInv, StartIsPending
<1>11. StartIsPending' /\ ArmingIsLive'
  <2>1. ASSUME NEW x \in Attempts, attempt'[x].status = "Arming"
        PROVE  /\ run'[attempt'[x].run].pending = x /\ executor'.live
               /\ attempt'[x].epoch = cell'.epoch /\ attempt'[x].session = executor'.session
    BY <1>5, <1>6, <1>9, <1>10, <2>1 DEF StartInv, StartIsPending, ArmingIsLive
  <2>2. ASSUME NEW y \in Runs, run'[y].pending # Nil
        PROVE  /\ run'[y].state = "Prepared" /\ attempt'[run'[y].pending].status = "Arming"
               /\ attempt'[run'[y].pending].run = y
    <3>1. y # r /\ run'[y] = run[y]
      BY <1>1, <1>9, <2>2
    <3>2. run[y].pending \in Attempts
      BY <1>0, <2>2, <3>1 DEF RunRecord
    <3>3. /\ run[y].state = "Prepared" /\ attempt[run[y].pending].status = "Arming"
          /\ attempt[run[y].pending].run = y
      BY <2>2, <3>1 DEF StartInv, StartIsPending
    <3>4. run[y].pending # a
      BY <3>1, <3>3 DEF r
    <3> QED
      BY <1>9, <3>1, <3>2, <3>3, <3>4
  <2> QED
    BY <2>1, <2>2 DEF StartIsPending, ArmingIsLive
<1>12. AttemptIsPast'
  BY <1>0, <1>2, <1>5, <1>7, <1>9 DEF StartInv, AttemptIsPast
<1>13. ArmingSeesPurposes'
  BY <1>0, <1>5, <1>10 DEF StartInv, AttemptIsPast, ArmingSeesPurposes
<1>14. OnePurposeExecutes'
  <2>1. ASSUME NEW y \in Runs, run'[y].state = "Executing"
        PROVE  run'[y].purpose = run[r].purpose
    BY <1>1, <1>8, <1>9, <2>1
  <2> QED
    BY <1>5, <2>1 DEF OnePurposeExecutes
<1>15. \A g \in Hosts : <<a, g>> \in armed
  <2>1. \A g \in attempt[a].acks : <<a, g>> \in armed
    BY DEF StartInv, AcksAreArmed
  <2> QED
    BY <2>1 DEF AllAcknowledged
<1>16. AcksAreArmed'
  BY <1>2, <1>6, <1>9, <1>15 DEF StartInv, AcksAreArmed
<1>17. FencesArePast' /\ HostFollowsCell'
  BY <1>5, <1>6 DEF StartInv, FencesArePast, HostFollowsCell
<1>18. EveryHostIsArmed'
  <2> SUFFICES ASSUME NEW x \in Attempts, NEW g \in Hosts, mandate'[x].state = "Active"
               PROVE  <<x, g>> \in armed /\ hostEpoch[g] = mandate'[x].epoch
    BY <1>6 DEF EveryHostIsArmed
  <2>1. CASE x = a
    <3>1. mandate'[x].epoch = cell.epoch
      BY <1>0, <1>4, <2>1
    <3>2. hostEpoch[g] = cell.epoch
      BY <1>0 DEF PreparedHost, StartInv, HostFollowsCell
    <3> QED
      BY <1>15, <2>1, <3>1, <3>2
  <2>2. CASE x # a
    <3>1. mandate'[x] = mandate[x]
      BY <1>0, <1>4, <2>2
    <3> QED
      BY <3>1 DEF StartInv, EveryHostIsArmed
  <2> QED
    BY <2>1, <2>2
<1> QED
  BY <1>11, <1>12, <1>13, <1>14, <1>16, <1>17, <1>18 DEF StartInv

(* An attempt that is rejected leaves its run waiting for none. *)
LEMMA RejectAttemptStart ==
    ASSUME PlatformTypeOK, AuthorityInv, StartInv, NEW a \in Attempts,
           attempt[a].status = "Arming", RejectAttempt(a),
           UNCHANGED <<runtimeVars, host, fenceRow, hostVars>>
    PROVE  StartInv'
<1> DEFINE r == attempt[a].run
<1>0. /\ run \in [Runs -> RunRecord] /\ attempt \in [Attempts -> AttemptRecord]
      /\ r \in Runs /\ a # Nil /\ run[r].pending = a
      /\ \A x \in Attempts : attempt[x].status = "Arming" => attempt[x].run \in Runs
  BY NilAssumption
     DEF PlatformTypeOK, AuthorityInv, AttemptHasRun, AttemptRecord, StartInv, StartIsPending
<1>1. /\ attempt'[a].status = "Rejected" /\ attempt'[a].revision = attempt[a].revision
      /\ attempt'[a].acks = attempt[a].acks
      /\ \A x \in Attempts \ {a} : attempt'[x] = attempt[x]
  BY <1>0 DEF RejectAttempt, AttemptRecord
<1>2. /\ run'[r].pending = Nil /\ run'[r].state = run[r].state
      /\ run'[r].purpose = run[r].purpose /\ \A x \in Runs \ {r} : run'[x] = run[x]
  BY <1>0 DEF RejectAttempt, RunRecord
<1>3. UNCHANGED <<executor, cell, mandate, host, fenceRow, armed, hostEpoch, fenced>>
  BY DEF RejectAttempt, runtimeVars, hostVars
<1> HIDE DEF r
<1>4. \A x \in Attempts : attempt'[x].status = "Arming" =>
         x # a /\ attempt'[x] = attempt[x] /\ attempt[x].run \in Runs \ {r}
  BY <1>0, <1>1 DEF StartInv, StartIsPending
<1>5. StartIsPending' /\ ArmingIsLive'
  <2>1. ASSUME NEW x \in Attempts, attempt'[x].status = "Arming"
        PROVE  /\ run'[attempt'[x].run].pending = x /\ executor'.live
               /\ attempt'[x].epoch = cell'.epoch /\ attempt'[x].session = executor'.session
    BY <1>2, <1>3, <1>4, <2>1 DEF StartInv, StartIsPending, ArmingIsLive
  <2>2. ASSUME NEW y \in Runs, run'[y].pending # Nil
        PROVE  /\ run'[y].state = "Prepared" /\ attempt'[run'[y].pending].status = "Arming"
               /\ attempt'[run'[y].pending].run = y
    <3>1. y # r /\ run'[y] = run[y]
      BY <1>2, <2>2
    <3>2. run[y].pending \in Attempts
      BY <1>0, <2>2, <3>1 DEF RunRecord
    <3>3. /\ run[y].state = "Prepared" /\ attempt[run[y].pending].status = "Arming"
          /\ attempt[run[y].pending].run = y
      BY <2>2, <3>1 DEF StartInv, StartIsPending
    <3>4. run[y].pending # a
      BY <3>1, <3>3 DEF r
    <3> QED
      BY <1>1, <3>1, <3>2, <3>3, <3>4
  <2> QED
    BY <2>1, <2>2 DEF StartIsPending, ArmingIsLive
<1>6. AttemptIsPast' /\ AcksAreArmed'
  BY <1>0, <1>1, <1>3 DEF StartInv, AttemptIsPast, AcksAreArmed
<1>7. FencesArePast' /\ HostFollowsCell' /\ EveryHostIsArmed'
  BY <1>3 DEF StartInv, FencesArePast, HostFollowsCell, EveryHostIsArmed
<1>8. \A y \in Runs : run'[y].state = run[y].state /\ run'[y].purpose = run[y].purpose
  BY <1>2
<1>9. ArmingSeesPurposes' /\ OnePurposeExecutes'
  BY <1>3, <1>4, <1>8 DEF StartInv, ArmingSeesPurposes, OnePurposeExecutes
<1> QED
  BY <1>5, <1>6, <1>7, <1>9 DEF StartInv

\* Every step of a start keeps attempts, runs and armed hosts together.
LEMMA StartStepStart ==
    ASSUME PlatformTypeOK, HostTypeOK, AuthorityInv, StartInv, StartStep, UNCHANGED hostVars
    PROVE  StartInv'
<1>0. /\ run \in [Runs -> RunRecord] /\ attempt \in [Attempts -> AttemptRecord]
      /\ AttemptHasRun
  BY DEF PlatformTypeOK, AuthorityInv
<1>1. \A r \in Runs : run[r].pending # Nil => run[r].state = "Prepared"
  BY DEF StartInv, StartIsPending
<1>2. ASSUME NEW r \in Runs, CreateRun(r)
      PROVE  StartInv'
  <2>1. /\ run[r].pending = Nil /\ run[r].state # "Executing"
        /\ run'[r].pending = Nil /\ run'[r].state # "Executing"
        /\ \A x \in Runs \ {r} : run'[x] = run[x]
    BY <1>0, <1>1, <1>2 DEF CreateRun, RunRecord
  <2> QED
    BY <1>0, <1>2, <2>1, IdleRunStart DEF CreateRun, runtimeVars, cellVars, hostVars
<1>3. ASSUME NEW r \in Runs, PauseRun(r)
      PROVE  StartInv'
  <2>1. CASE Invalidate(r) /\ UNCHANGED <<runtimeVars, host>>
    BY <2>1, InvalidateStart
  <2>2. CASE /\ run[r].state = "Prepared" /\ run[r].pending = Nil
             /\ run' = [run EXCEPT ![r].state = "Paused"]
             /\ UNCHANGED <<runtimeVars, cellVars, attempt, mandate, armRow, workVars,
                            fenceRow, ingested>>
    <3>1. /\ run'[r].pending = Nil /\ run'[r].state # "Executing"
          /\ \A x \in Runs \ {r} : run'[x] = run[x]
      BY <1>0, <2>2 DEF RunRecord
    <3> QED
      BY <1>0, <2>2, <3>1, IdleRunStart DEF runtimeVars, cellVars, hostVars
  <2> QED
    BY <1>3, <2>1, <2>2 DEF PauseRun
<1>4. ASSUME NEW r \in Runs, AbandonRun(r)
      PROVE  StartInv'
  <2> DEFINE v == [run[r] EXCEPT !.state = "Abandoned", !.session = 0]
  <2>1. v.pending = run[r].pending /\ v.state = "Abandoned"
    BY <1>0 DEF RunRecord
  <2>2. run' = [run EXCEPT ![r] = v] /\ run[r].state # "Executing" /\ run[r].pending = Nil
    BY <1>1, <1>4 DEF AbandonRun
  <2> HIDE DEF v
  <2>3. /\ run'[r].pending = Nil /\ run'[r].state # "Executing"
        /\ \A x \in Runs \ {r} : run'[x] = run[x]
    BY <1>0, <2>1, <2>2
  <2> QED
    BY <1>0, <1>4, <2>2, <2>3, IdleRunStart DEF AbandonRun, runtimeVars, cellVars, hostVars
<1>5. ASSUME NEW r \in Runs, NEW a \in Attempts, NEW purpose \in {"Production", "Setup"},
             NEW limit \in 1 .. MaxBudget, StartRun(r, a, purpose, limit)
      PROVE  StartInv'
  BY <1>5, StartRunStart
<1>6. ASSUME NEW a \in Attempts, NEW h \in Hosts, PlanArm(a, h)
      PROVE  StartInv'
  BY <1>0, <1>6, StartFrame DEF PlanArm, runtimeVars, cellVars, hostVars
<1>7. ASSUME NEW a \in Attempts, NEW h \in Hosts, NEW expired \in BOOLEAN,
             <<a, h>> \in armed, AcknowledgeArm(a, h, expired)
      PROVE  StartInv'
  <2>0. UNCHANGED <<runtimeVars, host, fenceRow, hostVars>>
    BY <1>7 DEF AcknowledgeArm
  <2>1. CASE attempt[a].status = "Arming" /\ RejectAttempt(a)
    BY <2>0, <2>1, RejectAttemptStart
  <2>2. CASE /\ attempt[a].status = "Arming" /\ ~AttemptStale(a)
             /\ \A g \in Hosts : PreparedHost(g)
             /\ AllAcknowledged(a, h) /\ CreateMandate(a, h)
    BY <1>7, <2>0, <2>2, CreateMandateStart
  <2>3. CASE /\ attempt' = [attempt EXCEPT ![a].acks = @ \cup {h}]
             /\ UNCHANGED <<cell, run, mandate>>
    <3>1. /\ \A x \in Attempts : /\ attempt'[x].status = attempt[x].status
                                 /\ attempt'[x].run = attempt[x].run
                                 /\ attempt'[x].epoch = attempt[x].epoch
                                 /\ attempt'[x].revision = attempt[x].revision
                                 /\ attempt'[x].session = attempt[x].session
                                 /\ attempt'[x].acks \subseteq
                                       attempt[x].acks \cup (IF x = a THEN {h} ELSE {})
      BY <1>0, <2>3 DEF AttemptRecord
    <3>2. UNCHANGED <<executor, cell, run, mandate, host, fenceRow, armed, hostEpoch, fenced>>
      BY <2>0, <2>3 DEF runtimeVars, hostVars
    <3>3. \A r \in Runs : run[r].pending # Nil => run[r].pending \in Attempts
      BY <1>0 DEF RunRecord
    <3>4. StartIsPending' /\ ArmingIsLive'
      BY <3>1, <3>2, <3>3 DEF StartInv, StartIsPending, ArmingIsLive
    <3>5. AttemptIsPast' /\ ArmingSeesPurposes'
      BY <3>1, <3>2 DEF StartInv, AttemptIsPast, ArmingSeesPurposes
    <3>6. AcksAreArmed'
      BY <1>7, <3>1, <3>2 DEF StartInv, AcksAreArmed
    <3>7. OnePurposeExecutes' /\ FencesArePast' /\ HostFollowsCell' /\ EveryHostIsArmed'
      BY <3>2 DEF StartInv, OnePurposeExecutes, FencesArePast, HostFollowsCell, EveryHostIsArmed
    <3> QED
      BY <3>4, <3>5, <3>6, <3>7 DEF StartInv
  <2>4. CASE UNCHANGED <<cell, run, attempt, mandate>>
    BY <1>0, <2>0, <2>4, StartFrame DEF runtimeVars, hostVars
  <2> QED
    BY <1>7, <2>1, <2>2, <2>3, <2>4 DEF AcknowledgeArm, AcceptAcknowledgment
<1> QED
  BY <1>2, <1>3, <1>4, <1>5, <1>6, <1>7 DEF StartStep

\* Every step of delivery, evidence and handover keeps attempts, runs and armed
\* hosts together.
LEMMA DispatchStepStart ==
    ASSUME PlatformTypeOK, HostTypeOK, AuthorityInv, StartInv, DispatchStep
    PROVE  StartInv'
<1> USE DEF cellVars, startVars, runtimeVars, hostVars
<1>0. /\ run \in [Runs -> RunRecord] /\ AttemptHasRun /\ \A o \in Ops : RunOf[o] \in Runs
  BY SlotAssumption DEF PlatformTypeOK, AuthorityInv
<1>1. ASSUME NEW r \in Runs, BeginPart(r)
      PROVE  StartInv'
  <2>1. \A x \in Runs : /\ run'[x].state = run[x].state /\ run'[x].pending = run[x].pending
                        /\ run'[x].purpose = run[x].purpose
    BY <1>0, <1>1 DEF BeginPart, RunRecord
  <2> QED
    BY <1>0, <1>1, <2>1, StartFrame DEF BeginPart
<1>2. ASSUME NEW o \in Ops, Submit(o)
      PROVE  StartInv'
  <2>1. \A x \in Runs : /\ run'[x].state = run[x].state /\ run'[x].pending = run[x].pending
                        /\ run'[x].purpose = run[x].purpose
    BY <1>0, <1>2 DEF Submit, RunRecord
  <2> QED
    BY <1>0, <1>2, <2>1, StartFrame DEF Submit
<1>3. ASSUME NEW o \in Ops, \/ ResolveActivation(o) \/ PlanPrepare(o) \/ PlanAuthorize(o)
                            \/ NoteDeliveryAttention(o) \/ ReleaseResources(o)
      PROVE  StartInv'
  <2>1. UNCHANGED <<runtimeVars, cellVars, startVars, fenceRow, hostEpoch, fenced, armed>>
    BY <1>3 DEF ResolveActivation, PlanPrepare, PlanAuthorize, NoteDeliveryAttention,
                ReleaseResources
  <2> QED
    BY <1>0, <2>1, StartFrame
<1>4. ASSUME NEW o \in Ops, DisputeOperation(o)
      PROVE  StartInv'
  BY <1>4, InvalidateCellStart DEF DisputeOperation
<1>5. ASSUME NEW o \in Ops, NEW m \in {"prepare", "authorize"},
             NEW state \in {"Prepared", "VoidedBeforeSend", "SendEntered"},
             RecordHostReceipt(o, m, state)
      PROVE  StartInv'
  BY <1>0, <1>5, StartFrame DEF RecordHostReceipt
<1>6. ASSUME NEW o \in Ops, NEW s \in Status, IngestEvidence(o, s)
      PROVE  StartInv'
  <2>0. UNCHANGED <<runtimeVars, host, hostVars>>
    BY <1>6 DEF IngestEvidence
  <2>1. CASE UNCHANGED <<cell, run, attempt, mandate, fenceRow>>
    BY <1>0, <2>0, <2>1, StartFrame
  <2>2. ASSUME NEW w, NEW p, NEW au, InvalidateCell(Nil, cell.qualified, w, p, au)
        PROVE  StartInv'
    BY <2>0, <2>2, InvalidateCellStart
  <2> QED
    BY <1>6, <2>1, <2>2 DEF IngestEvidence, ApplyCorrelated, ApplyUncorrelated
<1>7. ASSUME NEW r \in Runs, NEW part \in 1 .. MaxBudget, CompletePart(r, part)
      PROVE  StartInv'
  <2> DEFINE done == run[r].done \cup {part}
             finished == done = 1 .. run[r].used /\ run[r].used = run[r].limit
             v == [run[r] EXCEPT !.done = done,
                                 !.state = IF finished THEN "Completed" ELSE run[r].state]
  <2>1. /\ run' = [run EXCEPT ![r] = v] /\ run[r].state = "Executing"
        /\ mandate' = IF finished
             THEN [mandate EXCEPT ![run[r].mandate].state = "Exhausted"] ELSE mandate
    BY <1>7 DEF CompletePart, ActiveRun
  <2>2. /\ v.pending = run[r].pending /\ v.purpose = run[r].purpose
        /\ v.state \in {"Completed", "Executing"}
    BY <1>0, <2>1 DEF RunRecord
  <2> HIDE DEF v, finished
  <2>3. /\ \A x \in Runs : /\ run'[x].pending = run[x].pending /\ run'[x].purpose = run[x].purpose
                           /\ run'[x].state = "Executing" => run[x].state = "Executing"
                           /\ run[x].state # "Executing" => run'[x] = run[x]
    BY <1>0, <2>1, <2>2
  <2>4. UNCHANGED <<executor, cell, attempt, fenceRow, host, hostEpoch, fenced, armed>>
    BY <1>7 DEF CompletePart
  <2>5. \A a \in Attempts : mandate'[a].state = "Active" => mandate'[a] = mandate[a]
    BY <2>1 DEF PlatformTypeOK, MandateRecord
  <2>6. \A x \in Runs : run[x].pending # Nil => run[x].state = "Prepared" /\ run'[x] = run[x]
    BY <2>3 DEF StartInv, StartIsPending
  <2>7. \A a \in Attempts : attempt[a].status = "Arming" => attempt[a].run \in Runs
    BY <1>0 DEF AttemptHasRun, PlatformTypeOK, AttemptRecord
  <2>8. StartIsPending' /\ ArmingIsLive'
    BY <2>3, <2>4, <2>6, <2>7 DEF StartInv, StartIsPending, ArmingIsLive
  <2>9. AttemptIsPast' /\ AcksAreArmed' /\ FencesArePast' /\ HostFollowsCell'
    BY <2>4 DEF StartInv, AttemptIsPast, AcksAreArmed, FencesArePast, HostFollowsCell
  <2>10. ArmingSeesPurposes' /\ OnePurposeExecutes'
    BY <2>3, <2>4, <2>7 DEF StartInv, ArmingSeesPurposes, OnePurposeExecutes
  <2>11. EveryHostIsArmed'
    BY <2>4, <2>5 DEF StartInv, EveryHostIsArmed
  <2> QED
    BY <2>8, <2>9, <2>10, <2>11 DEF StartInv
<1> QED
  BY <1>1, <1>2, <1>3, <1>4, <1>5, <1>6, <1>7 DEF DispatchStep

\* Every step of the cell itself keeps attempts, runs and armed hosts together.
LEMMA CellStepStart ==
    ASSUME PlatformTypeOK, HostTypeOK, AuthorityInv, StartInv,
           FenceStep \/ CellStep \/ (\E verified \in BOOLEAN : Restart(verified))
    PROVE  StartInv'
<1> USE DEF cellVars, startVars, workVars, runtimeVars, hostVars
<1>0. /\ cell \in CellRecord /\ cell.epoch \in Nat /\ cell.revision \in Nat
      /\ executor \in [session : Session, live : BOOLEAN]
      /\ host \in [Hosts -> [registration : {"None", "Live", "Retired"}, epoch : Epoch]]
      /\ \A a \in Attempts : attempt[a].revision \in Nat
      /\ \A h \in Hosts : hostEpoch[h] \in Nat /\ host[h].epoch \in Nat
      /\ \A e \in Epoch : e \in Nat
      /\ AttemptHasRun
  BY BoundAssumption
     DEF PlatformTypeOK, HostTypeOK, CellRecord, Epoch, AttemptRecord, AuthorityInv
<1>1. ASSUME NEW h \in Hosts, NEW e \in Epoch, PlanFence(h, e)
      PROVE  StartInv'
  <2>1. UNCHANGED <<executor, cell, run, attempt, mandate, host, hostEpoch, fenced, armed>>
    BY <1>1 DEF PlanFence
  <2>2. \A g \in Hosts, d \in Epoch : fenceRow'[<<g, d>>] # "None" => fenceRow[<<g, d>>] # "None"
    BY <1>1 DEF PlanFence, PlatformTypeOK
  <2>3. FencesArePast'
    BY <2>1, <2>2 DEF StartInv, FencesArePast
  <2>4. StartIsPending' /\ ArmingIsLive' /\ AttemptIsPast' /\ ArmingSeesPurposes'
    BY <2>1 DEF StartInv, StartIsPending, ArmingIsLive, AttemptIsPast, ArmingSeesPurposes
  <2>5. OnePurposeExecutes' /\ AcksAreArmed' /\ HostFollowsCell' /\ EveryHostIsArmed'
    BY <2>1 DEF StartInv, OnePurposeExecutes, AcksAreArmed, HostFollowsCell, EveryHostIsArmed
  <2> QED
    BY <2>3, <2>4, <2>5 DEF StartInv
<1>2. ASSUME UNCHANGED <<executor, cell, run, attempt, mandate, hostEpoch, fenced, armed>>,
             \A h \in Hosts, e \in Epoch :
                fenceRow'[<<h, e>>] # "None" => fenceRow[<<h, e>>] # "None",
             \A h \in Hosts : host'[h].epoch <= hostEpoch[h]
      PROVE  StartInv'
  <2>1. FencesArePast' /\ HostFollowsCell'
    BY <1>2 DEF StartInv, FencesArePast, HostFollowsCell
  <2>2. StartIsPending' /\ ArmingIsLive' /\ AttemptIsPast' /\ ArmingSeesPurposes'
    BY <1>2 DEF StartInv, StartIsPending, ArmingIsLive, AttemptIsPast, ArmingSeesPurposes
  <2>3. OnePurposeExecutes' /\ AcksAreArmed' /\ EveryHostIsArmed'
    BY <1>2 DEF StartInv, OnePurposeExecutes, AcksAreArmed, EveryHostIsArmed
  <2> QED
    BY <2>1, <2>2, <2>3 DEF StartInv
<1>3. ASSUME NEW h \in Hosts, NEW e \in Epoch, FinishFence(h, e)
      PROVE  StartInv'
  <2>1. \A g \in Hosts : host'[g].epoch = IF g = h THEN RegisteredEpoch(h, e) ELSE host[g].epoch
    BY <1>0, <1>3 DEF FinishFence
  <2>2. \A g \in Hosts : host'[g].epoch <= hostEpoch[g]
    BY <1>0, <1>3, <2>1 DEF FinishFence, RegisteredEpoch, StartInv, HostFollowsCell
  <2>3. \A g \in Hosts, d \in Epoch : fenceRow'[<<g, d>>] # "None" => fenceRow[<<g, d>>] # "None"
    BY <1>3 DEF FinishFence, PlatformTypeOK
  <2> QED
    BY <1>2, <1>3, <2>2, <2>3 DEF FinishFence
<1>4. ASSUME NEW h \in Hosts, LinkHost(h)
      PROVE  StartInv'
  <2>1. \A g \in Hosts : host'[g].epoch <= hostEpoch[g]
    BY <1>0, <1>4 DEF LinkHost, StartInv, HostFollowsCell
  <2> QED
    BY <1>2, <1>4, <2>1 DEF LinkHost
\* A save of the cell that nobody executes through, or that keeps the mode.
<1>5. ASSUME UNCHANGED <<executor, host, run, attempt, mandate, fenceRow, hostEpoch, fenced, armed>>,
             cell'.epoch = cell.epoch, cell'.revision = cell.revision + 1,
             cell'.mode = cell.mode \/ \A r \in Runs : run[r].state # "Executing"
      PROVE  StartInv'
  <2>1. StartIsPending' /\ ArmingIsLive'
    BY <1>5 DEF StartInv, StartIsPending, ArmingIsLive
  <2>2. AttemptIsPast' /\ ArmingSeesPurposes'
    BY <1>0, <1>5 DEF StartInv, AttemptIsPast, ArmingSeesPurposes
  <2>3. OnePurposeExecutes'
    BY <1>5 DEF StartInv, OnePurposeExecutes
  <2>4. AcksAreArmed' /\ FencesArePast' /\ HostFollowsCell' /\ EveryHostIsArmed'
    BY <1>5 DEF StartInv, AcksAreArmed, FencesArePast, HostFollowsCell, EveryHostIsArmed
  <2> QED
    BY <2>1, <2>2, <2>3, <2>4 DEF StartInv
<1>6. CASE Qualify
  <2>1. cell'.epoch = cell.epoch /\ cell'.revision = cell.revision + 1 /\ cell'.mode = cell.mode
    BY <1>0, <1>6 DEF Qualify, SaveCell, CellRecord
  <2> QED
    BY <1>5, <1>6, <2>1 DEF Qualify
<1>7. ASSUME NEW cleared \in BOOLEAN, ActivateQualification(cleared)
      PROVE  StartInv'
  <2>1. cell'.epoch = cell.epoch /\ cell'.revision = cell.revision + 1
    BY <1>0, <1>7 DEF ActivateQualification, SaveCell, CellRecord
  <2>2. \A r \in Runs : run[r].state # "Executing"
    BY <1>7 DEF ActivateQualification, Quiet
  <2> QED
    BY <1>5, <1>7, <2>1, <2>2 DEF ActivateQualification
<1>8. ASSUME NEW runtimeOnly \in BOOLEAN, OpenExecutor(runtimeOnly)
      PROVE  StartInv'
  <2>1. CASE Invalidate(Nil)
    BY <1>8, <2>1, InvalidateStart DEF OpenExecutor
  <2>2. CASE /\ executor.session = 0 \/ runtimeOnly
             /\ UNCHANGED <<cell, startVars, workVars, fenceRow, ingested>>
    <3>1. ~executor.live
      BY <1>8, <2>2 DEF OpenExecutor, AuthorityInv, LiveExecutorHasSession
    <3>2. \A a \in Attempts : attempt[a].status # "Arming"
      BY <3>1 DEF StartInv, ArmingIsLive
    <3>3. UNCHANGED <<cell, run, attempt, mandate, host, fenceRow, hostEpoch, fenced, armed>>
      BY <1>8, <2>2 DEF OpenExecutor
    <3>4. StartIsPending' /\ ArmingIsLive' /\ AttemptIsPast' /\ ArmingSeesPurposes'
      BY <3>2, <3>3 DEF StartInv, StartIsPending, ArmingIsLive, AttemptIsPast, ArmingSeesPurposes
    <3>5. /\ OnePurposeExecutes' /\ AcksAreArmed' /\ FencesArePast' /\ HostFollowsCell'
          /\ EveryHostIsArmed'
      BY <3>3 DEF StartInv, OnePurposeExecutes, AcksAreArmed, FencesArePast, HostFollowsCell,
                  EveryHostIsArmed
    <3> QED
      BY <3>4, <3>5 DEF StartInv
  <2> QED
    BY <1>8, <2>1, <2>2 DEF OpenExecutor
<1>9. ASSUME NEW h \in Hosts, ReplaceHost(h)
      PROVE  StartInv'
  <2>1. \A g \in Hosts : host'[g].epoch = host[g].epoch
    BY <1>0, <1>9 DEF ReplaceHost
  <2> QED
    BY <1>9, <2>1, InvalidateStart DEF ReplaceHost
<1>10. CASE Hold \/ MaintainedConditionLost \/ RequestRuntimeStop
  BY <1>10, InvalidateStart DEF Hold, MaintainedConditionLost, RequestRuntimeStop
<1>11. CASE CommitRuntimeStop
  BY <1>0, <1>11, StartFrame DEF CommitRuntimeStop
<1>12. ASSUME NEW verified \in BOOLEAN, Restart(verified)
       PROVE  StartInv'
  <2>1. \A g \in Hosts : host'[g].epoch = host[g].epoch
    BY <1>0, <1>12 DEF Restart
  <2>2. InvalidateCell(Nil, cell.qualified /\ verified, work, permit, authorizeRow)
        /\ UNCHANGED <<armed, hostEpoch, fenced>>
    BY <1>12 DEF Restart
  <2> QED
    BY <2>1, <2>2, InvalidateCellStart
<1> QED
  BY <1>1, <1>3, <1>4, <1>6, <1>7, <1>8, <1>9, <1>10, <1>11, <1>12 DEF CellStep, FenceStep

(* A host that takes a request stays behind the cell: a fence is never of   *)
(* an epoch the cell has not reached, so none can pass an active mandate.   *)
LEMMA HostStepStart ==
    ASSUME PlatformTypeOK, HostTypeOK, AuthorityInv, StartInv, HostStep, UNCHANGED platformVars
    PROVE  StartInv'
<1>0. /\ UNCHANGED <<executor, cell, host, run, attempt, mandate, fenceRow>>
      /\ cell.epoch \in Nat /\ \A h \in Hosts : hostEpoch[h] \in Nat /\ host[h].epoch \in Nat
      /\ \A e \in Epoch : e \in Nat
      /\ hostEpoch \in [Hosts -> Epoch] /\ AttemptHasRun
  BY BoundAssumption
     DEF platformVars, runtimeVars, cellVars, startVars, PlatformTypeOK, HostTypeOK, CellRecord,
         Epoch, AuthorityInv
<1>1. StartIsPending' /\ ArmingIsLive' /\ AttemptIsPast' /\ ArmingSeesPurposes'
  BY <1>0 DEF StartInv, StartIsPending, ArmingIsLive, AttemptIsPast, ArmingSeesPurposes
<1>2. OnePurposeExecutes' /\ FencesArePast'
  BY <1>0 DEF StartInv, OnePurposeExecutes, FencesArePast
<1>3. ASSUME NEW h \in Hosts, NEW e \in Epoch, HostFences(h, e)
      PROVE  AcksAreArmed' /\ HostFollowsCell' /\ EveryHostIsArmed'
  <2>1. e <= cell.epoch /\ hostEpoch[h] <= e
    BY <1>0, <1>3 DEF HostFences, InstallsDelivery, InstallsLinkFence, StartInv, FencesArePast
  <2>2. /\ hostEpoch'[h] = e /\ \A g \in Hosts \ {h} : hostEpoch'[g] = hostEpoch[g]
        /\ armed' = armed
        /\ \A g \in Hosts, d \in Epoch :
              <<g, d>> \in fenced' => <<g, d>> \in fenced \/ (g = h /\ d = e)
    BY <1>0, <1>3 DEF HostFences, InstallsDelivery, InstallsLinkFence
  <2>3. HostFollowsCell'
    BY <1>0, <2>1, <2>2 DEF StartInv, HostFollowsCell
  <2>4. \A a \in Attempts : mandate[a].state = "Active" => mandate[a].epoch = cell.epoch
    BY DEF AuthorityInv, MandateIsCurrent
  <2>5. EveryHostIsArmed'
    BY <1>0, <2>1, <2>2, <2>4 DEF StartInv, EveryHostIsArmed
  <2> QED
    BY <1>0, <2>2, <2>3, <2>5 DEF StartInv, AcksAreArmed
<1>4. ASSUME armed \subseteq armed', hostEpoch' = hostEpoch, fenced' = fenced
      PROVE  AcksAreArmed' /\ HostFollowsCell' /\ EveryHostIsArmed'
  BY <1>0, <1>4 DEF StartInv, AcksAreArmed, HostFollowsCell, EveryHostIsArmed
<1> QED
  BY <1>1, <1>2, <1>3, <1>4
     DEF StartInv, HostStep, HostArms, HostPrepares, HostAuthorizes, NativeEnds, NativeContradicts

(* The inductive step of the start invariant. *)
LEMMA StepStart ==
    TypeOK /\ AuthorityInv /\ StartInv /\ [Next]_vars => StartInv'
<1> SUFFICES ASSUME TypeOK, AuthorityInv, StartInv, [Next]_vars
             PROVE  StartInv'
  OBVIOUS
<1>0. PlatformTypeOK /\ HostTypeOK /\ AttemptHasRun
  BY DEF TypeOK, AuthorityInv
<1>1. CASE UNCHANGED vars
  BY <1>0, <1>1, StartFrame
     DEF vars, platformVars, hostVars, runtimeVars, cellVars, startVars
<1> QED
  BY <1>0, <1>1, StartStepStart, DispatchStepStart, CellStepStart, HostStepStart DEF Next

(* The start invariant, with the invariants it rests on, holds of every     *)
(* behaviour.                                                               *)
LEMMA StartInvariant == Spec => [](TypeOK /\ StoredWorkDecodes /\ AuthorityInv /\ StartInv)
<1>1. Init => AuthorityInv
  BY DEF Init, PlatformInit, Admitted, AuthorityInv, LiveExecutorHasSession, AttemptHasRun,
         MandateWasStarted, RunOwnsMandate, PermitHasPart, SuccessSpendsPermit,
         DoneIsConfirmed, MandateIsCurrent, PermitIsCurrent
<1>2. Init => StartInv
  BY BoundAssumption
     DEF Init, PlatformInit, HostInit, StartInv, StartIsPending, ArmingIsLive, AttemptIsPast,
         ArmingSeesPurposes, OnePurposeExecutes, AcksAreArmed, FencesArePast, HostFollowsCell,
         EveryHostIsArmed
<1> QED
  BY <1>1, <1>2, StepAuthority, StepStart, StoredWorkAlwaysDecodes, PTL DEF Spec

(* For every number of runs, attempts and hosts: a start attempt arms       *)
(* exactly while its own run is prepared and waits for it, in the epoch and *)
(* the executor session it was made for.                                    *)
THEOREM StartIsAlwaysPending == Spec => []StartIsPending
<1>1. StartInv => StartIsPending
  BY DEF StartInv
<1> QED
  BY <1>1, StartInvariant, PTL

(* Two starts of different purposes that overlap while arming never both    *)
(* take effect: every executing run has the purpose of the cell's mode.     *)
THEOREM OnePurposeAlwaysExecutes == Spec => []OnePurposeExecutes
<1>1. StartInv => OnePurposeExecutes
  BY DEF StartInv
<1> QED
  BY <1>1, StartInvariant, PTL

(* However many hosts there are, an active mandate has the acknowledged Arm *)
(* of each of them, and none has been fenced since.                         *)
THEOREM EveryHostIsAlwaysArmed == Spec => []EveryHostIsArmed
<1>1. StartInv => EveryHostIsArmed
  BY DEF StartInv
<1> QED
  BY <1>1, StartInvariant, PTL

(***************************************************************************)
(* The ledger and the device, for every number of operations, hosts and    *)
(* resources: no command is issued twice or behind a confirmed fence, a    *)
(* recorded conclusion is true of the device, whoever may be acting holds  *)
(* its resources, and what was closed or voided stays so.                  *)
(*                                                                         *)
(* The invariant follows a request from the outbox over the wire to the    *)
(* device and back.  Each outbox row bounds what can have happened behind  *)
(* it: a row that never left has left nothing on the wire and nothing at   *)
(* the host, and a row leaves once.                                        *)
(***************************************************************************)

(* A slot that was not submitted has no request, no permit and no outcome.  *)
UnsubmittedIsBlank ==
    \A o \in Ops : activation[o] # "Submitted" =>
        prepareRow[o] = "None" /\ permit[o].state = "None" /\ work[o].outcome = "None"

(* A Prepare that never left the outbox: the host does not know the         *)
(* operation, and no receipt has led to an authorization.                   *)
UnpreparedIsAbsent ==
    \A o \in Ops : prepareRow[o] \in {"None", "New", "Voided"} =>
        /\ native[o] = "Absent" /\ o \notin prepareWire
        /\ authorizeRow[o] = "None" /\ o \notin invocation

PreparedOnce == \A o \in prepareWire : native[o] = "Absent"

(* An Authorize that never left the outbox has commanded nothing, and one   *)
(* on its way is the first.                                                 *)
UnauthorizedIsUnsent ==
    \A o \in Ops : authorizeRow[o] \in {"None", "New", "Voided"} =>
        sends[o] = 0 /\ o \notin authorizeWire

AuthorizedOnce == \A o \in authorizeWire : sends[o] = 0

AuthorizedIsInvoked == \A o \in Ops : authorizeRow[o] # "None" => o \in invocation

SendsAreCounted ==
    \A o \in Ops : sends[o] = IF native[o] \in {"Sent", "Ended"} THEN 1 ELSE 0

ResultsAreFinal == \A o \in Ops : results[o] # {} => native[o] = "Ended"

PreparedInTheEpoch ==
    \A o \in Ops : native[o] = "Prepared" => permit[o].epoch = hostEpoch[HostOf[o]]

(* A recorded outcome has its proof: for an execution the device has ended, *)
(* for none a request was withdrawn before it left or voided by the host.   *)
OutcomeIsProven ==
    \A o \in Ops :
        /\ work[o].outcome \in {"None", "NotExecuted", "Succeeded", "Failed"}
        /\ work[o].outcome \in {"Succeeded", "Failed"} => native[o] = "Ended"
        /\ work[o].outcome = "NotExecuted" =>
              \/ prepareRow[o] = "Voided" \/ authorizeRow[o] = "Voided"
              \/ native[o] \in {"Voided", "Refused"}

DeliveryInv ==
    /\ UnsubmittedIsBlank /\ UnpreparedIsAbsent /\ PreparedOnce
    /\ UnauthorizedIsUnsent /\ AuthorizedOnce /\ AuthorizedIsInvoked
    /\ SendsAreCounted /\ ResultsAreFinal /\ PreparedInTheEpoch /\ OutcomeIsProven

(* An operation keeps every resource of its intent until it is concluded.   *)
HoldsUntilConcluded ==
    \A o \in Ops : activation[o] = "Submitted" /\ work[o].outcome = "None" =>
        \A x \in ResourceSet[o] : resource[x].holder = o

-----------------------------------------------------------------------------
(* Steps that send nothing: rows are withdrawn at most, outcomes are added  *)
(* with their proof, and the host is not involved.                          *)
LEMMA DeliveryChange ==
    ASSUME DeliveryInv, UNCHANGED <<activation, invocation, hostVars>>,
           \A o \in Ops :
             /\ permit'[o].epoch = permit[o].epoch
             /\ permit[o].state = "None" => permit'[o].state = "None"
             /\ \/ prepareRow'[o] = prepareRow[o]
                \/ prepareRow[o] = "New" /\ prepareRow'[o] = "Voided"
             /\ \/ authorizeRow'[o] = authorizeRow[o]
                \/ authorizeRow[o] = "New" /\ authorizeRow'[o] = "Voided"
             /\ \/ work'[o].outcome = work[o].outcome
                \/ /\ activation[o] = "Submitted"
                   /\ \/ /\ work'[o].outcome = "NotExecuted"
                         /\ prepareRow'[o] = "Voided" \/ authorizeRow'[o] = "Voided"
                      \/ /\ work'[o].outcome \in {"Succeeded", "Failed"}
                         /\ native[o] = "Ended"
    PROVE  DeliveryInv'
<1> USE DEF hostVars
<1>1. UnsubmittedIsBlank'
  BY DEF DeliveryInv, UnsubmittedIsBlank
<1>2. UnpreparedIsAbsent' /\ PreparedOnce'
  BY DEF DeliveryInv, UnpreparedIsAbsent, PreparedOnce
<1>3. UnauthorizedIsUnsent' /\ AuthorizedOnce' /\ AuthorizedIsInvoked'
  BY DEF DeliveryInv, UnauthorizedIsUnsent, AuthorizedOnce, AuthorizedIsInvoked
<1>4. SendsAreCounted' /\ ResultsAreFinal' /\ PreparedInTheEpoch'
  BY DEF DeliveryInv, SendsAreCounted, ResultsAreFinal, PreparedInTheEpoch
<1>5. OutcomeIsProven'
  BY DEF DeliveryInv, OutcomeIsProven
<1> QED
  BY <1>1, <1>2, <1>3, <1>4, <1>5 DEF DeliveryInv

(* What an invalidation concludes: nothing that has an outcome, and not     *)
(* executed only what it withdraws from the outbox in the same step.        *)
LEMMA InvalidatedOutcome ==
    ASSUME NEW o \in Ops, NEW w \in [Ops -> OperationRecord(EvidenceKind)], NEW au,
           Decodes(w[o])
    PROVE  \/ Invalidated(o, w, au).outcome = w[o].outcome
           \/ /\ Invalidated(o, w, au).outcome = "NotExecuted" /\ w[o].outcome = "None"
              /\ prepareRow[o] = "New" \/ au[o] = "New"
<1> DEFINE voided == prepareRow[o] = "New" \/ au[o] = "New"
           closed == IF w[o].outcome # "None" THEN w[o]
                     ELSE IF voided /\ w[o].knowledge = "NotSent"
                       THEN Conclude(w[o], "NotExecuted", {"void"})
                       ELSE LoseContinuity(w[o])
<1>1. /\ w[o] \in OperationRecord(EvidenceKind)
      /\ LoseContinuity(w[o]) \in OperationRecord(EvidenceKind)
      /\ LoseContinuity(w[o]).outcome = w[o].outcome
  <2>1. w[o] \in OperationRecord(EvidenceKind)
    OBVIOUS
  <2>2. LoseContinuity(w[o]) \in OperationRecord(EvidenceKind)
    BY <2>1, MethodsDecode
  <2>3. LoseContinuity(w[o]).outcome = w[o].outcome
    BY <2>1 DEF LoseContinuity, OperationRecord
  <2> QED
    BY <2>1, <2>2, <2>3
<1>2. /\ Conclude(w[o], "NotExecuted", {"void"}) \in OperationRecord(EvidenceKind)
      /\ w[o].outcome = "None" => Conclude(w[o], "NotExecuted", {"void"}).outcome = "NotExecuted"
  <2>1. CanConclude("NotExecuted", {"void"}) /\ "NotExecuted" \in Outcome
        /\ {"void"} \in SUBSET EvidenceKind
    BY DEF CanConclude, Outcome, EvidenceKind
  <2>2. w[o].outcome = "None" => w[o].phase # "Settled"
    BY DEF Decodes
  <2>3. w[o].phase # "Settled" => Conclude(w[o], "NotExecuted", {"void"}).outcome = "NotExecuted"
    BY <1>1 DEF Conclude, OperationRecord
  <2> QED
    BY <1>1, <2>1, <2>2, <2>3, ConcludeDecodes
<1>3. /\ closed \in OperationRecord(EvidenceKind)
      /\ \/ closed.outcome = w[o].outcome
         \/ closed.outcome = "NotExecuted" /\ w[o].outcome = "None" /\ voided
  BY <1>1, <1>2
<1>4. Quarantine(closed).outcome = closed.outcome
  BY <1>3 DEF Quarantine, OperationRecord
<1>5. Invalidated(o, w, au) = IF Holds(o) THEN Quarantine(closed) ELSE closed
  BY DEF Invalidated
<1> HIDE DEF closed
<1> QED
  BY <1>3, <1>4, <1>5

(* One invalidation, after what its handler changed in the same transaction. *)
LEMMA InvalidateCellDelivery ==
    ASSUME PlatformTypeOK, DeliveryInv, NEW paused, NEW qualified,
           NEW w \in [Ops -> OperationRecord(EvidenceKind)], \A o \in Ops : Decodes(w[o]),
           NEW p \in [Ops -> PermitRecord], NEW au \in [Ops -> OutboxState],
           \A o \in Ops :
             /\ p[o].epoch = permit[o].epoch
             /\ permit[o].state = "None" => p[o].state = "None"
             /\ au[o] = authorizeRow[o] \/ (authorizeRow[o] = "New" /\ au[o] = "Voided")
             /\ \/ w[o].outcome = work[o].outcome
                \/ /\ activation[o] = "Submitted" /\ native[o] = "Ended"
                   /\ w[o].outcome \in {"Succeeded", "Failed"},
           InvalidateCell(paused, qualified, w, p, au),
           UNCHANGED <<activation, invocation, hostVars>>
    PROVE  DeliveryInv'
<1>1. \A o \in Ops : /\ permit'[o].epoch = permit[o].epoch
                     /\ permit[o].state = "None" => permit'[o].state = "None"
  BY DEF InvalidateCell, VoidIfIssued, PermitRecord
<1>2. \A o \in Ops :
         prepareRow'[o] = IF o \in Submitted /\ w[o].outcome = "None" /\ prepareRow[o] = "New"
                            THEN "Voided" ELSE prepareRow[o]
  BY DEF InvalidateCell, VoidNew
<1>3. \A o \in Ops :
         authorizeRow'[o] = IF o \in Submitted /\ w[o].outcome = "None" /\ au[o] = "New"
                              THEN "Voided" ELSE au[o]
  BY DEF InvalidateCell, VoidNew
<1>4. \A o \in Ops :
         work'[o] = IF o \in Submitted THEN Invalidated(o, w, au) ELSE w[o]
  BY DEF InvalidateCell
<1>5. ASSUME NEW o \in Ops
      PROVE  /\ \/ prepareRow'[o] = prepareRow[o]
                \/ prepareRow[o] = "New" /\ prepareRow'[o] = "Voided"
             /\ \/ authorizeRow'[o] = authorizeRow[o]
                \/ authorizeRow[o] = "New" /\ authorizeRow'[o] = "Voided"
             /\ \/ work'[o].outcome = work[o].outcome
                \/ /\ activation[o] = "Submitted"
                   /\ \/ /\ work'[o].outcome = "NotExecuted"
                         /\ prepareRow'[o] = "Voided" \/ authorizeRow'[o] = "Voided"
                      \/ /\ work'[o].outcome \in {"Succeeded", "Failed"}
                         /\ native[o] = "Ended"
  <2>1. \/ prepareRow'[o] = prepareRow[o]
        \/ prepareRow[o] = "New" /\ prepareRow'[o] = "Voided"
    BY <1>2
  <2>2. \/ authorizeRow'[o] = authorizeRow[o]
        \/ authorizeRow[o] = "New" /\ authorizeRow'[o] = "Voided"
    BY <1>3
  <2>3. CASE o \notin Submitted
    BY <1>4, <2>1, <2>2, <2>3
  <2>4. CASE o \in Submitted
    <3>1. activation[o] = "Submitted" /\ work'[o] = Invalidated(o, w, au)
      BY <1>4, <2>4 DEF Submitted
    <3>2. CASE work'[o].outcome = w[o].outcome
      BY <2>1, <2>2, <3>1, <3>2
    <3>3. CASE /\ work'[o].outcome = "NotExecuted" /\ w[o].outcome = "None"
               /\ prepareRow[o] = "New" \/ au[o] = "New"
      BY <1>2, <1>3, <2>1, <2>2, <2>4, <3>1, <3>3
    <3> QED
      BY <3>1, <3>2, <3>3, InvalidatedOutcome
  <2> QED
    BY <2>3, <2>4
<1> QED
  BY <1>1, <1>5, DeliveryChange

\* invalidate_cell, called from many handlers, keeps the facts about
\* deliveries.
LEMMA InvalidateDelivery ==
    ASSUME PlatformTypeOK, StoredWorkDecodes, DeliveryInv, NEW paused, Invalidate(paused),
           UNCHANGED hostVars
    PROVE  DeliveryInv'
BY InvalidateCellDelivery DEF Invalidate, PlatformTypeOK, StoredWorkDecodes

(* A submission starts from a blank slot: its first request waits in the    *)
(* outbox and the host knows nothing of it.                                 *)
LEMMA SubmitDelivery ==
    ASSUME PlatformTypeOK, DeliveryInv, NEW o \in Ops, Submit(o)
    PROVE  DeliveryInv'
<1>1. /\ activation[o] = "Resolved"
      /\ prepareRow[o] = "None" /\ permit[o].state = "None"
      /\ native[o] = "Absent" /\ o \notin prepareWire /\ authorizeRow[o] = "None"
      /\ o \notin invocation
  BY DEF Submit, DeliveryInv, UnsubmittedIsBlank, UnpreparedIsAbsent
<1>2. /\ activation'[o] = "Submitted" /\ prepareRow'[o] = "New" /\ work'[o].outcome = "None"
      /\ \A x \in Ops \ {o} : /\ activation'[x] = activation[x] /\ prepareRow'[x] = prepareRow[x]
                              /\ permit'[x] = permit[x] /\ work'[x] = work[x]
  BY DEF Submit, PlatformTypeOK, Admitted
<1>3. UNCHANGED <<invocation, authorizeRow, hostVars>>
  BY DEF Submit
<1> USE DEF hostVars
<1>4. UnsubmittedIsBlank'
  BY <1>2 DEF DeliveryInv, UnsubmittedIsBlank
<1>5. UnpreparedIsAbsent' /\ PreparedOnce'
  BY <1>1, <1>2, <1>3 DEF DeliveryInv, UnpreparedIsAbsent, PreparedOnce
<1>6. UnauthorizedIsUnsent' /\ AuthorizedOnce' /\ AuthorizedIsInvoked'
  BY <1>3 DEF DeliveryInv, UnauthorizedIsUnsent, AuthorizedOnce, AuthorizedIsInvoked
<1>7. SendsAreCounted' /\ ResultsAreFinal'
  BY <1>3 DEF DeliveryInv, SendsAreCounted, ResultsAreFinal
<1>8. PreparedInTheEpoch'
  BY <1>1, <1>2, <1>3 DEF DeliveryInv, PreparedInTheEpoch
<1>9. OutcomeIsProven'
  BY <1>2, <1>3 DEF DeliveryInv, OutcomeIsProven
<1> QED
  BY <1>4, <1>5, <1>6, <1>7, <1>8, <1>9 DEF DeliveryInv

(* A request leaves the outbox once. *)
LEMMA PlanDelivery ==
    ASSUME PlatformTypeOK, DeliveryInv, NEW o \in Ops, PlanPrepare(o) \/ PlanAuthorize(o)
    PROVE  DeliveryInv'
<1>1. CASE PlanPrepare(o)
  <2>1. /\ prepareRow[o] = "New" /\ permit[o].state = "Issued"
        /\ prepareRow'[o] = "EmitEntered" /\ \A x \in Ops \ {o} : prepareRow'[x] = prepareRow[x]
        /\ prepareWire' = prepareWire \cup {o}
        /\ UNCHANGED <<activation, work, invocation, permit, authorizeRow, authorizeWire,
                       hostEpoch, fenced, native, sends, results>>
    BY <1>1 DEF PlanPrepare, EmissionAllowed, PlatformTypeOK
  <2>2. native[o] = "Absent"
    BY <2>1 DEF DeliveryInv, UnpreparedIsAbsent
  <2>3. UnsubmittedIsBlank' /\ UnpreparedIsAbsent' /\ PreparedOnce'
    BY <2>1, <2>2 DEF DeliveryInv, UnsubmittedIsBlank, UnpreparedIsAbsent, PreparedOnce
  <2>4. UnauthorizedIsUnsent' /\ AuthorizedOnce' /\ AuthorizedIsInvoked'
    BY <2>1 DEF DeliveryInv, UnauthorizedIsUnsent, AuthorizedOnce, AuthorizedIsInvoked
  <2>5. SendsAreCounted' /\ ResultsAreFinal' /\ PreparedInTheEpoch'
    BY <2>1 DEF DeliveryInv, SendsAreCounted, ResultsAreFinal, PreparedInTheEpoch
  <2>6. OutcomeIsProven'
    BY <2>1 DEF DeliveryInv, OutcomeIsProven
  <2> QED
    BY <2>3, <2>4, <2>5, <2>6 DEF DeliveryInv
<1>2. CASE PlanAuthorize(o)
  <2>1. /\ authorizeRow[o] = "New" /\ o \in invocation
        /\ authorizeRow'[o] = "EmitEntered"
        /\ \A x \in Ops \ {o} : authorizeRow'[x] = authorizeRow[x]
        /\ authorizeWire' = authorizeWire \cup {o}
        /\ UNCHANGED <<activation, work, invocation, permit, prepareRow, prepareWire,
                       hostEpoch, fenced, native, sends, results>>
    BY <1>2 DEF PlanAuthorize, PlatformTypeOK
  <2>2. sends[o] = 0
    BY <2>1 DEF DeliveryInv, UnauthorizedIsUnsent
  <2>3. UnsubmittedIsBlank' /\ UnpreparedIsAbsent' /\ PreparedOnce'
    BY <2>1 DEF DeliveryInv, UnsubmittedIsBlank, UnpreparedIsAbsent, PreparedOnce
  <2>4. UnauthorizedIsUnsent' /\ AuthorizedOnce' /\ AuthorizedIsInvoked'
    BY <2>1, <2>2 DEF DeliveryInv, UnauthorizedIsUnsent, AuthorizedOnce, AuthorizedIsInvoked
  <2>5. SendsAreCounted' /\ ResultsAreFinal' /\ PreparedInTheEpoch'
    BY <2>1 DEF DeliveryInv, SendsAreCounted, ResultsAreFinal, PreparedInTheEpoch
  <2>6. OutcomeIsProven'
    BY <2>1 DEF DeliveryInv, OutcomeIsProven
  <2> QED
    BY <2>3, <2>4, <2>5, <2>6 DEF DeliveryInv
<1> QED
  BY <1>1, <1>2

(* A receipt is the host's word about a request that has left: it names the *)
(* invocation, authorizes at most once and concludes only what is void.     *)
LEMMA ReceiptDelivery ==
    ASSUME PlatformTypeOK, StoredWorkDecodes, DeliveryInv, NEW o \in Ops,
           NEW m \in {"prepare", "authorize"},
           NEW state \in {"Prepared", "VoidedBeforeSend", "SendEntered"},
           RecordHostReceipt(o, m, state)
    PROVE  DeliveryInv'
<1>0. /\ work[o] \in OperationRecord(EvidenceKind) /\ Decodes(work[o])
      /\ permit \in [Ops -> PermitRecord]
  BY DEF PlatformTypeOK, StoredWorkDecodes
<1>1. /\ m = "prepare" => prepareRow[o] \in {"EmitEntered", "Delivered"}
      /\ m = "authorize" => authorizeRow[o] \in {"EmitEntered", "Delivered"}
      /\ state \in ReceiptsOf(o)
  BY DEF RecordHostReceipt, MessageRow
<1>2. prepareRow[o] \notin {"None", "New", "Voided"}
  BY <1>1 DEF DeliveryInv, UnpreparedIsAbsent
<1>3. activation[o] = "Submitted"
  BY <1>2 DEF DeliveryInv, UnsubmittedIsBlank
<1>4. /\ prepareRow'[o] \notin {"None", "New", "Voided"}
      /\ \A x \in Ops \ {o} : prepareRow'[x] = prepareRow[x]
  BY <1>2 DEF RecordHostReceipt, PlatformTypeOK
<1>5. /\ \/ authorizeRow'[o] = authorizeRow[o]
         \/ authorizeRow[o] = "None" /\ authorizeRow'[o] = "New" /\ state = "Prepared"
         \/ authorizeRow[o] \in {"EmitEntered", "Delivered"} /\ authorizeRow'[o] = "Delivered"
      /\ \A x \in Ops \ {o} : authorizeRow'[x] = authorizeRow[x]
  <2>1. authorizeRow' = [authorizeRow EXCEPT ![o] = ReceiptAuthorizeRow(o, m, state)]
    BY DEF RecordHostReceipt
  <2> QED
    BY <1>1, <2>1 DEF ReceiptAuthorizeRow, EnqueueAuthorize, PlatformTypeOK
<1>6. /\ invocation \subseteq invocation' /\ invocation' \subseteq invocation \cup {o}
      /\ state = "Prepared" => o \in invocation'
  <2>1. native[o] = "Refused" => state # "Prepared"
    BY <1>1 DEF ReceiptsOf
  <2> QED
    BY <2>1 DEF RecordHostReceipt
<1>7. /\ \A x \in Ops : permit'[x].epoch = permit[x].epoch
      /\ \A x \in Ops \ {o} : permit'[x] = permit[x]
  BY <1>0 DEF RecordHostReceipt, PermitRecord
<1>8. /\ \/ work'[o].outcome = work[o].outcome
         \/ work'[o].outcome = "NotExecuted" /\ native[o] \in {"Voided", "Refused"}
      /\ \A x \in Ops \ {o} : work'[x] = work[x]
  <2>1. work' = [work EXCEPT ![o] = ReceiptWork(o, state)]
    BY DEF RecordHostReceipt
  <2>2. state = "VoidedBeforeSend" => native[o] \in {"Voided", "Refused"}
    BY <1>1 DEF ReceiptsOf, HostTypeOK
  <2>3. Sent(work[o]).outcome = work[o].outcome
    BY <1>0 DEF Sent, OperationRecord
  <2>4. work[o].outcome = "None" => Conclude(work[o], "NotExecuted", {"void"}).outcome = "NotExecuted"
    BY <1>0 DEF Conclude, Decodes, OperationRecord
  <2>5. \/ ReceiptWork(o, state).outcome = work[o].outcome
        \/ ReceiptWork(o, state).outcome = "NotExecuted" /\ native[o] \in {"Voided", "Refused"}
    BY <2>2, <2>3, <2>4 DEF ReceiptWork
  <2> QED
    BY <2>1, <2>5 DEF PlatformTypeOK
<1>9. UNCHANGED <<activation, hostVars>>
  BY DEF RecordHostReceipt
<1> USE DEF hostVars
<1>10. UnsubmittedIsBlank'
  BY <1>3, <1>4, <1>7, <1>8, <1>9 DEF DeliveryInv, UnsubmittedIsBlank
<1>11. UnpreparedIsAbsent' /\ PreparedOnce'
  BY <1>4, <1>5, <1>6, <1>9 DEF DeliveryInv, UnpreparedIsAbsent, PreparedOnce
<1>12. UnauthorizedIsUnsent' /\ AuthorizedOnce'
  BY <1>5, <1>9 DEF DeliveryInv, UnauthorizedIsUnsent, AuthorizedOnce
<1>13. AuthorizedIsInvoked'
  BY <1>5, <1>6 DEF DeliveryInv, AuthorizedIsInvoked
<1>14. SendsAreCounted' /\ ResultsAreFinal' /\ PreparedInTheEpoch'
  BY <1>7, <1>9 DEF DeliveryInv, SendsAreCounted, ResultsAreFinal, PreparedInTheEpoch
<1>15. OutcomeIsProven'
  BY <1>2, <1>4, <1>5, <1>8, <1>9 DEF DeliveryInv, OutcomeIsProven
<1> QED
  BY <1>10, <1>11, <1>12, <1>13, <1>14, <1>15 DEF DeliveryInv

-----------------------------------------------------------------------------
(* What the ledger's handlers do to an operation, apart from submission and *)
(* delivery, has one of two shapes.                                         *)

(* New evidence or a dispute about operations: w, p and au are what the     *)
(* handler writes.  An outcome is added only for a device that has ended,   *)
(* and an issued permit may be used up.                                     *)
Revises(w, p, au) ==
    /\ w \in [Ops -> OperationRecord(EvidenceKind)] /\ \A o \in Ops : Decodes(w[o])
    /\ p \in [Ops -> PermitRecord] /\ au \in [Ops -> OutboxState]
    /\ \A o \in Ops :
         /\ p[o].epoch = permit[o].epoch
         /\ p[o] = permit[o] \/ (permit[o].state = "Issued" /\ p[o].state = "Consumed")
         /\ au[o] = authorizeRow[o] \/ (authorizeRow[o] = "New" /\ au[o] = "Voided")
         /\ \/ w[o].outcome = work[o].outcome
            \/ /\ activation[o] = "Submitted" /\ native[o] = "Ended"
               /\ work[o].outcome = "None" /\ w[o].outcome \in {"Succeeded", "Failed"}

(* The operation and its rows after a revision that revoked nothing. *)
Applied(w, p, au) ==
    /\ work' = w /\ permit' = p /\ authorizeRow' = au
    /\ UNCHANGED <<cell, run, attempt, mandate, resource, prepareRow, fenceRow>>

(* Evidence and disputes revise, and revoke when the record is disputed.    *)
LEMMA EvidenceRevises ==
    ASSUME PlatformTypeOK, StoredWorkDecodes, DeliveryInv, NEW o \in Ops,
           \/ DisputeOperation(o) \/ NoteDeliveryAttention(o)
           \/ \E s \in Status : IngestEvidence(o, s)
    PROVE  /\ \E w, p, au : /\ Revises(w, p, au)
                            /\ \/ InvalidateCell(Nil, cell.qualified, w, p, au)
                               \/ Applied(w, p, au)
           /\ UNCHANGED <<runtimeVars, host, activation, invocation, hostVars>>
<1>0. /\ work \in [Ops -> OperationRecord(EvidenceKind)] /\ permit \in [Ops -> PermitRecord]
      /\ authorizeRow \in [Ops -> OutboxState]
      /\ \A x \in Ops : work[x] \in OperationRecord(EvidenceKind) /\ Decodes(work[x])
  BY DEF PlatformTypeOK, StoredWorkDecodes
<1>1. UNCHANGED <<runtimeVars, host, activation, invocation, hostVars>>
  BY DEF DisputeOperation, NoteDeliveryAttention, IngestEvidence, cellVars
\* A method that leaves the outcome alone, and nothing but the record.
<1>2. ASSUME NEW v, v \in OperationRecord(EvidenceKind), Decodes(v),
             v.outcome = work[o].outcome
      PROVE  Revises([work EXCEPT ![o] = v], permit, authorizeRow)
  BY <1>0, <1>2 DEF Revises
<1>3. /\ LoseContinuity(work[o]) \in OperationRecord(EvidenceKind)
      /\ Decodes(LoseContinuity(work[o])) /\ Dispute(work[o]) \in OperationRecord(EvidenceKind)
      /\ Decodes(Dispute(work[o]))
  BY <1>0, MethodsDecode
<1>4. /\ LoseContinuity(work[o]).outcome = work[o].outcome
      /\ Dispute(work[o]).outcome = work[o].outcome
  BY <1>0 DEF LoseContinuity, Dispute, OperationRecord
<1>5. CASE DisputeOperation(o)
  <2>1. InvalidateCell(Nil, cell.qualified, [work EXCEPT ![o] = Dispute(work[o])],
                       permit, authorizeRow)
    BY <1>5 DEF DisputeOperation
  <2> QED
    BY <1>1, <1>2, <1>3, <1>4, <2>1
<1>6. CASE NoteDeliveryAttention(o)
  <2>1. Applied([work EXCEPT ![o] = LoseContinuity(work[o])], permit, authorizeRow)
    BY <1>6 DEF NoteDeliveryAttention, Applied, cellVars, startVars
  <2> QED
    BY <1>1, <1>2, <1>3, <1>4, <2>1
<1>7. ASSUME NEW s \in Status, IngestEvidence(o, s)
      PROVE  \E w, p, au : /\ Revises(w, p, au)
                           /\ \/ InvalidateCell(Nil, cell.qualified, w, p, au)
                              \/ Applied(w, p, au)
  <2>1. CASE ApplyUncorrelated(o)
    <3>1. Applied([work EXCEPT ![o] = LoseContinuity(work[o])], permit, authorizeRow)
      BY <2>1 DEF ApplyUncorrelated, Applied
    <3> QED
      BY <1>2, <1>3, <1>4, <3>1
  <2>2. ASSUME NEW outcome \in NativeOutcomes(o, s), ApplyCorrelated(o, outcome)
        PROVE  \E w, p, au : /\ Revises(w, p, au)
                             /\ \/ InvalidateCell(Nil, cell.qualified, w, p, au)
                                \/ Applied(w, p, au)
    <3> DEFINE w == [work EXCEPT ![o] = WorkAfterEvidence(o, outcome)]
               p == PermitAfterEvidence(o)
               au == AuthorizeRowAfterEvidence(o)
    <3>1. outcome \in {"None", "Succeeded", "Failed"}
      BY <2>2 DEF NativeOutcomes
    <3>2. /\ WorkAfterEvidence(o, outcome) \in OperationRecord(EvidenceKind)
          /\ Decodes(WorkAfterEvidence(o, outcome))
          /\ work[o].outcome # "None" => WorkAfterEvidence(o, outcome).outcome = work[o].outcome
      BY <1>0, <3>1, EvidenceTypes
    <3>3. work[o].outcome = "None" => WorkAfterEvidence(o, outcome).outcome = outcome
      <4>1. outcome # "None" /\ work[o].outcome = "None" =>
               Conclude(work[o], outcome, {"native"}).outcome = outcome
        BY <1>0 DEF Conclude, Decodes, OperationRecord
      <4> QED
        BY <1>4, <4>1 DEF WorkAfterEvidence
    <3>4. native[o] = "Ended"
      BY <1>7 DEF IngestEvidence, DeliveryInv, ResultsAreFinal
    <3>5. activation[o] = "Submitted"
      BY <3>4 DEF DeliveryInv, UnsubmittedIsBlank, UnpreparedIsAbsent
    <3>6. /\ w \in [Ops -> OperationRecord(EvidenceKind)] /\ \A x \in Ops : Decodes(w[x])
          /\ \A x \in Ops \ {o} : w[x] = work[x] /\ w[o] = WorkAfterEvidence(o, outcome)
      BY <1>0, <3>2
    <3>7. /\ p \in [Ops -> PermitRecord]
          /\ \A x \in Ops : /\ p[x].epoch = permit[x].epoch
                            /\ p[x] = permit[x]
                               \/ (permit[x].state = "Issued" /\ p[x].state = "Consumed")
      BY <1>0 DEF PermitAfterEvidence, PermitRecord
    <3>8. /\ au \in [Ops -> OutboxState]
          /\ \A x \in Ops : au[x] = authorizeRow[x]
                            \/ (authorizeRow[x] = "New" /\ au[x] = "Voided")
      BY <1>0 DEF AuthorizeRowAfterEvidence, OutboxState
    <3>9. w[o] = WorkAfterEvidence(o, outcome)
      BY <1>0
    <3> HIDE DEF w, p, au
    <3>10. Revises(w, p, au)
      BY <3>1, <3>2, <3>3, <3>4, <3>5, <3>6, <3>7, <3>8, <3>9 DEF Revises
    <3>11. InvalidateCell(Nil, cell.qualified, w, p, au) \/ Applied(w, p, au)
      BY <2>2 DEF ApplyCorrelated, Applied, w, p, au
    <3> QED
      BY <3>10, <3>11
  <2> QED
    BY <1>7, <2>1, <2>2 DEF IngestEvidence
<1> QED
  BY <1>1, <1>5, <1>6, <1>7

(* Every other handler of a start, a fence, a connection, a stop or a boot  *)
(* leaves the operations alone or revokes the whole cell.                   *)
LEMMA OtherStepsRevoke ==
    ASSUME \/ StartStep /\ UNCHANGED hostVars
           \/ FenceStep \/ CellStep \/ \E verified \in BOOLEAN : Restart(verified)
    PROVE  \/ UNCHANGED <<workVars, hostVars>>
           \/ /\ \E paused, qualified :
                    InvalidateCell(paused, qualified, work, permit, authorizeRow)
              /\ UNCHANGED <<activation, invocation, hostVars>>
<1>1. CASE StartStep /\ UNCHANGED hostVars
  <2>1. CASE \E r \in Runs : PauseRun(r)
    BY <1>1, <2>1 DEF PauseRun, Invalidate
  <2> QED
    BY <1>1, <2>1 DEF StartStep, CreateRun, AbandonRun, StartRun, PlanArm, AcknowledgeArm
<1>2. CASE FenceStep
  BY <1>2 DEF FenceStep, PlanFence, FinishFence
<1>3. CASE CellStep
  <2>1. CASE \E runtimeOnly \in BOOLEAN : OpenExecutor(runtimeOnly)
    BY <2>1 DEF OpenExecutor, Invalidate
  <2>2. CASE \E h \in Hosts : ReplaceHost(h)
    BY <2>2 DEF ReplaceHost, Invalidate
  <2>3. CASE Hold \/ MaintainedConditionLost \/ RequestRuntimeStop
    BY <2>3 DEF Hold, MaintainedConditionLost, RequestRuntimeStop, Invalidate
  <2> QED
    BY <1>3, <2>1, <2>2, <2>3
       DEF CellStep, Qualify, ActivateQualification, LinkHost, CommitRuntimeStop
<1>4. CASE \E verified \in BOOLEAN : Restart(verified)
  BY <1>4 DEF Restart
<1> QED
  BY <1>1, <1>2, <1>3, <1>4

-----------------------------------------------------------------------------
(* The delivery invariant is inductive.                                     *)

\* Every step of delivery, evidence and handover keeps the facts about
\* deliveries.
LEMMA DispatchStepDelivery ==
    ASSUME PlatformTypeOK, StoredWorkDecodes, DeliveryInv, DispatchStep
    PROVE  DeliveryInv'
<1>0. /\ work \in [Ops -> OperationRecord(EvidenceKind)]
      /\ \A o \in Ops : work[o] \in OperationRecord(EvidenceKind)
  BY DEF PlatformTypeOK
<1>1. ASSUME \/ \E r \in Runs : BeginPart(r)
             \/ \E r \in Runs, part \in 1 .. MaxBudget : CompletePart(r, part)
      PROVE  DeliveryInv'
  BY <1>1, DeliveryChange DEF BeginPart, CompletePart, workVars
<1>2. ASSUME NEW o \in Ops, ResolveActivation(o)
      PROVE  DeliveryInv'
  <2>1. /\ activation[o] # "Submitted" /\ activation'[o] # "Submitted"
        /\ \A x \in Ops \ {o} : activation'[x] = activation[x]
        /\ UNCHANGED <<work, invocation, permit, prepareRow, authorizeRow, hostVars>>
    BY <1>2 DEF ResolveActivation, PlatformTypeOK
  <2>2. UnsubmittedIsBlank'
    BY <2>1 DEF DeliveryInv, UnsubmittedIsBlank
  <2> QED
    BY <2>1, <2>2 DEF hostVars, DeliveryInv, UnpreparedIsAbsent, PreparedOnce,
       UnauthorizedIsUnsent, AuthorizedOnce, AuthorizedIsInvoked, SendsAreCounted,
       ResultsAreFinal, PreparedInTheEpoch, OutcomeIsProven
<1>3. ASSUME NEW o \in Ops, ReleaseResources(o)
      PROVE  DeliveryInv'
  <2>1. Release(work[o], {"handover"}).outcome = work[o].outcome
    BY <1>0 DEF Release, OperationRecord
  <2>2. \A x \in Ops : work'[x].outcome = work[x].outcome
    BY <1>0, <1>3, <2>1 DEF ReleaseResources
  <2>3. UNCHANGED <<activation, invocation, permit, prepareRow, authorizeRow, hostVars>>
    BY <1>3 DEF ReleaseResources
  <2> QED
    BY <2>2, <2>3, DeliveryChange
<1>4. ASSUME NEW o \in Ops,
             \/ DisputeOperation(o) \/ NoteDeliveryAttention(o)
             \/ \E s \in Status : IngestEvidence(o, s)
      PROVE  DeliveryInv'
  <2>1. UNCHANGED <<activation, invocation, hostVars>>
    BY <1>4, EvidenceRevises
  <2>2. PICK w, p, au : /\ Revises(w, p, au)
                        /\ \/ InvalidateCell(Nil, cell.qualified, w, p, au)
                           \/ Applied(w, p, au)
    BY <1>4, EvidenceRevises
  <2>3. CASE InvalidateCell(Nil, cell.qualified, w, p, au)
    BY <2>1, <2>2, <2>3, InvalidateCellDelivery DEF Revises
  <2>4. CASE Applied(w, p, au)
    BY <2>1, <2>2, <2>4, DeliveryChange DEF Revises, Applied
  <2> QED
    BY <2>2, <2>3, <2>4
<1> QED
  BY <1>1, <1>2, <1>3, <1>4, SubmitDelivery, PlanDelivery, ReceiptDelivery DEF DispatchStep

(* The host takes each request once: what it prepares is of its own epoch,  *)
(* a fence voids all it had prepared, and a result is a command's.          *)
LEMMA HostStepDelivery ==
    ASSUME PlatformTypeOK, HostTypeOK, DeliveryInv, HostStep, UNCHANGED platformVars
    PROVE  DeliveryInv'
<1>0. /\ UNCHANGED <<activation, work, invocation, permit, prepareRow, authorizeRow>>
      /\ native \in [Ops -> {"Absent", "Prepared", "Voided", "Refused", "Sent", "Ended"}]
      /\ sends \in [Ops -> 0 .. 2] /\ results \in [Ops -> SUBSET Status]
      /\ hostEpoch \in [Hosts -> Epoch]
      /\ prepareWire \subseteq Ops /\ authorizeWire \subseteq Ops
  BY DEF platformVars, workVars, HostTypeOK
<1>1. UnsubmittedIsBlank' /\ AuthorizedIsInvoked'
  BY <1>0 DEF DeliveryInv, UnsubmittedIsBlank, AuthorizedIsInvoked
<1>2. ASSUME NEW a \in Attempts, NEW h \in Hosts, HostArms(a, h)
      PROVE  DeliveryInv'
  BY <1>0, <1>1, <1>2 DEF HostArms, DeliveryInv, UnpreparedIsAbsent, PreparedOnce,
     UnauthorizedIsUnsent, AuthorizedOnce, SendsAreCounted, ResultsAreFinal,
     PreparedInTheEpoch, OutcomeIsProven
<1>3. ASSUME NEW o \in Ops, HostPrepares(o)
      PROVE  DeliveryInv'
  <2>1. native[o] = "Absent" /\ o \in prepareWire
    BY <1>3 DEF HostPrepares, DeliveryInv, PreparedOnce
  <2>2. /\ prepareWire' = prepareWire \ {o}
        /\ native'[o] \in {"Prepared", "Refused"}
        /\ native'[o] = "Prepared" => permit[o].epoch = hostEpoch[HostOf[o]]
        /\ \A x \in Ops \ {o} : native'[x] = native[x]
        /\ UNCHANGED <<authorizeWire, armed, hostEpoch, fenced, sends, results>>
    BY <1>0, <1>3 DEF HostPrepares
  <2>3. UnpreparedIsAbsent' /\ PreparedOnce'
    BY <1>0, <2>1, <2>2 DEF DeliveryInv, UnpreparedIsAbsent, PreparedOnce
  <2>4. UnauthorizedIsUnsent' /\ AuthorizedOnce' /\ SendsAreCounted'
    BY <1>0, <2>1, <2>2 DEF DeliveryInv, UnauthorizedIsUnsent, AuthorizedOnce, SendsAreCounted
  <2>5. ResultsAreFinal' /\ PreparedInTheEpoch' /\ OutcomeIsProven'
    BY <1>0, <2>1, <2>2 DEF DeliveryInv, ResultsAreFinal, PreparedInTheEpoch, OutcomeIsProven
  <2> QED
    BY <1>1, <2>3, <2>4, <2>5 DEF DeliveryInv
<1>4. ASSUME NEW o \in Ops, HostAuthorizes(o)
      PROVE  DeliveryInv'
  <2>1. sends[o] = 0 /\ o \in authorizeWire /\ native[o] \notin {"Sent", "Ended"}
    BY <1>4 DEF HostAuthorizes, DeliveryInv, AuthorizedOnce, SendsAreCounted
  <2>2. CASE UNCHANGED <<native, sends>>
    BY <1>0, <1>1, <1>4, <2>2 DEF HostAuthorizes, DeliveryInv, UnpreparedIsAbsent, PreparedOnce,
       UnauthorizedIsUnsent, AuthorizedOnce, SendsAreCounted, ResultsAreFinal,
       PreparedInTheEpoch, OutcomeIsProven
  <2>3. CASE /\ native[o] \in {"Prepared", "Sent", "Ended"}
             /\ native' = [native EXCEPT ![o] = "Sent"]
             /\ sends' = [sends EXCEPT ![o] = @ + 1]
    <3>1. /\ native[o] = "Prepared" /\ native'[o] = "Sent" /\ sends'[o] = 1
          /\ \A x \in Ops \ {o} : native'[x] = native[x] /\ sends'[x] = sends[x]
          /\ authorizeWire' = authorizeWire \ {o}
          /\ UNCHANGED <<prepareWire, hostEpoch, fenced, results>>
      BY <1>0, <1>4, <2>1, <2>3 DEF HostAuthorizes
    <3>2. authorizeRow[o] \notin {"None", "New", "Voided"}
      BY <2>1 DEF DeliveryInv, UnauthorizedIsUnsent
    <3>3. prepareRow[o] \notin {"None", "New", "Voided"}
      BY <3>1 DEF DeliveryInv, UnpreparedIsAbsent
    <3>4. UnpreparedIsAbsent' /\ PreparedOnce'
      BY <1>0, <3>1, <3>3 DEF DeliveryInv, UnpreparedIsAbsent, PreparedOnce
    <3>5. UnauthorizedIsUnsent' /\ AuthorizedOnce' /\ SendsAreCounted'
      BY <1>0, <3>1, <3>2 DEF DeliveryInv, UnauthorizedIsUnsent, AuthorizedOnce, SendsAreCounted
    <3>6. ResultsAreFinal' /\ PreparedInTheEpoch' /\ OutcomeIsProven'
      BY <1>0, <3>1, <3>2, <3>3
         DEF DeliveryInv, ResultsAreFinal, PreparedInTheEpoch, OutcomeIsProven
    <3> QED
      BY <1>1, <3>4, <3>5, <3>6 DEF DeliveryInv
  <2> QED
    BY <1>4, <2>2, <2>3 DEF HostAuthorizes
<1>5. ASSUME NEW h \in Hosts, NEW e \in Epoch, HostFences(h, e)
      PROVE  DeliveryInv'
  <2>0. hostEpoch[h] \in Nat /\ e \in Nat /\ hostEpoch[h] <= e
    BY <1>0, <1>5, BoundAssumption DEF HostFences, InstallsDelivery, InstallsLinkFence, Epoch
  <2>1. /\ \A x \in Ops :
              \/ /\ native'[x] = IF HostOf[x] = h /\ native[x] = "Prepared"
                                    THEN "Voided" ELSE native[x]
                 /\ hostEpoch[h] < e
              \/ native'[x] = native[x] /\ hostEpoch' = hostEpoch
        /\ \A g \in Hosts \ {h} : hostEpoch'[g] = hostEpoch[g]
        /\ UNCHANGED <<prepareWire, authorizeWire, sends, results>>
        /\ \A x \in Ops : HostOf[x] \in Hosts
    BY <1>0, <1>5, <2>0, SlotAssumption DEF HostFences
  <2>2. UnpreparedIsAbsent' /\ PreparedOnce' /\ UnauthorizedIsUnsent' /\ AuthorizedOnce'
    BY <1>0, <2>1 DEF DeliveryInv, UnpreparedIsAbsent, PreparedOnce, UnauthorizedIsUnsent,
                      AuthorizedOnce
  <2>3. SendsAreCounted' /\ ResultsAreFinal'
    BY <1>0, <2>1 DEF DeliveryInv, SendsAreCounted, ResultsAreFinal
  <2>4. PreparedInTheEpoch' /\ OutcomeIsProven'
    BY <1>0, <2>1 DEF DeliveryInv, PreparedInTheEpoch, OutcomeIsProven
  <2> QED
    BY <1>1, <2>2, <2>3, <2>4 DEF DeliveryInv
<1>6. ASSUME NEW o \in Ops, NEW s \in Status, NativeEnds(o, s) \/ NativeContradicts(o, s)
      PROVE  DeliveryInv'
  <2>1. /\ native[o] \in {"Sent", "Ended"} /\ native'[o] = "Ended"
        /\ \A x \in Ops \ {o} : native'[x] = native[x] /\ results'[x] = results[x]
        /\ UNCHANGED <<prepareWire, authorizeWire, hostEpoch, fenced, sends>>
    BY <1>0, <1>6 DEF NativeEnds, NativeContradicts
  <2>2. UnpreparedIsAbsent' /\ PreparedOnce' /\ UnauthorizedIsUnsent' /\ AuthorizedOnce'
    BY <1>0, <2>1 DEF DeliveryInv, UnpreparedIsAbsent, PreparedOnce, UnauthorizedIsUnsent,
                      AuthorizedOnce
  <2>3. SendsAreCounted' /\ ResultsAreFinal'
    BY <1>0, <2>1 DEF DeliveryInv, SendsAreCounted, ResultsAreFinal
  <2>4. PreparedInTheEpoch' /\ OutcomeIsProven'
    BY <1>0, <2>1 DEF DeliveryInv, PreparedInTheEpoch, OutcomeIsProven
  <2> QED
    BY <1>1, <2>2, <2>3, <2>4 DEF DeliveryInv
<1> QED
  BY <1>2, <1>3, <1>4, <1>5, <1>6 DEF HostStep

\* No step of the platform disturbs the facts about deliveries.
LEMMA StepDelivery ==
    TypeOK /\ StoredWorkDecodes /\ DeliveryInv /\ [Next]_vars => DeliveryInv'
<1> SUFFICES ASSUME TypeOK, StoredWorkDecodes, DeliveryInv, [Next]_vars
             PROVE  DeliveryInv'
  OBVIOUS
<1>0. PlatformTypeOK /\ HostTypeOK
  BY DEF TypeOK
<1>1. CASE UNCHANGED <<workVars, hostVars>>
  BY <1>1, DeliveryChange DEF workVars
<1>2. CASE /\ \E paused, qualified :
                 InvalidateCell(paused, qualified, work, permit, authorizeRow)
           /\ UNCHANGED <<activation, invocation, hostVars>>
  BY <1>0, <1>2, InvalidateCellDelivery DEF PlatformTypeOK, StoredWorkDecodes
<1>3. CASE UNCHANGED vars
  BY <1>1, <1>3 DEF vars, platformVars
<1> QED
  BY <1>0, <1>1, <1>2, <1>3, OtherStepsRevoke, DispatchStepDelivery, HostStepDelivery DEF Next

-----------------------------------------------------------------------------
(* Conclusions and holders.                                                 *)

(* Whatever happens, a submitted operation stays submitted and a recorded   *)
(* outcome is never replaced.                                               *)
OutcomesStay ==
    \A o \in Ops : activation[o] = "Submitted" =>
        /\ activation'[o] = "Submitted"
        /\ work[o].outcome # "None" => work'[o].outcome = work[o].outcome

\* A revocation changes no recorded outcome and no holder of a resource.
LEMMA InvalidateCellOutcomes ==
    ASSUME PlatformTypeOK, NEW paused, NEW qualified, NEW w, NEW p, NEW au, Revises(w, p, au),
           InvalidateCell(paused, qualified, w, p, au), UNCHANGED activation
    PROVE  /\ OutcomesStay
           /\ \A x \in Resources : resource'[x].holder = resource[x].holder
<1>1. w \in [Ops -> OperationRecord(EvidenceKind)]
  BY DEF Revises
<1>2. \A o \in Ops : work'[o] = w[o] \/ work'[o] = Invalidated(o, w, au)
  BY DEF InvalidateCell
<1>3. \A o \in Ops : work[o].outcome # "None" => w[o].outcome = work[o].outcome
  BY DEF Revises
<1>4. \A x \in Resources : resource'[x].holder = resource[x].holder
  BY DEF InvalidateCell, QuarantineIfHeld, PlatformTypeOK, ResourceRecord
<1> QED
  BY <1>1, <1>2, <1>3, <1>4, InvalidatedKeepsOutcome DEF OutcomesStay

(* A resource changes hands only from nobody to a submission and from a     *)
(* concluded operation to nobody.                                           *)
HoldersStay ==
    /\ \A x \in Resources : \/ resource'[x].holder = resource[x].holder
                            \/ resource[x].holder = Nil
                            \/ \E o \in Ops : resource[x].holder = o /\ work[o].outcome # "None"
    /\ \A o \in Ops : activation'[o] = "Submitted" /\ activation[o] # "Submitted" =>
          \A x \in ResourceSet[o] : resource'[x].holder = o

\* No step takes back an outcome, or a resource before its holder has one.
LEMMA StepOutcomes ==
    ASSUME TypeOK, StoredWorkDecodes, DeliveryInv, [Next]_vars
    PROVE  OutcomesStay /\ HoldersStay
<1>0. /\ PlatformTypeOK /\ work \in [Ops -> OperationRecord(EvidenceKind)]
      /\ \A o \in Ops : work[o] \in OperationRecord(EvidenceKind) /\ Decodes(work[o])
      /\ resource \in [Resources -> ResourceRecord]
  BY DEF TypeOK, PlatformTypeOK, StoredWorkDecodes
<1>1. CASE UNCHANGED <<activation, work, resource>>
  BY <1>1 DEF OutcomesStay, HoldersStay
<1>2. ASSUME NEW paused, NEW qualified, NEW w, NEW p, NEW au, Revises(w, p, au),
             InvalidateCell(paused, qualified, w, p, au), UNCHANGED activation
      PROVE  OutcomesStay /\ HoldersStay
  BY <1>0, <1>2, InvalidateCellOutcomes DEF HoldersStay
<1>3. Revises(work, permit, authorizeRow)
  BY <1>0 DEF Revises, PlatformTypeOK
<1>4. CASE /\ \E paused, qualified :
                 InvalidateCell(paused, qualified, work, permit, authorizeRow)
           /\ UNCHANGED <<activation, invocation, hostVars>>
  BY <1>2, <1>3, <1>4
<1>5. CASE DispatchStep
  <2>1. ASSUME NEW o \in Ops, ResolveActivation(o)
        PROVE  OutcomesStay /\ HoldersStay
    BY <2>1 DEF ResolveActivation, PlatformTypeOK, OutcomesStay, HoldersStay
  <2>2. ASSUME NEW o \in Ops, Submit(o)
        PROVE  OutcomesStay /\ HoldersStay
    <3>1. /\ activation[o] # "Submitted"
          /\ \A x \in Ops \ {o} : activation'[x] = activation[x] /\ work'[x] = work[x]
      BY <1>0, <2>2 DEF Submit, PlatformTypeOK
    <3>2. \A x \in Resources :
             resource'[x] = IF x \in ResourceSet[o] THEN [resource[x] EXCEPT !.holder = o]
                            ELSE resource[x]
      BY <2>2 DEF Submit
    <3>3. \A x \in ResourceSet[o] : x \in Resources /\ resource[x].holder = Nil
      BY <2>2, SlotAssumption DEF Submit, Free
    <3>4. \A x \in ResourceSet[o] : resource'[x].holder = o
      BY <1>0, <3>2, <3>3 DEF ResourceRecord
    <3>5. OutcomesStay
      BY <3>1 DEF OutcomesStay
    <3>6. HoldersStay
      BY <3>1, <3>2, <3>3, <3>4 DEF HoldersStay
    <3> QED
      BY <3>5, <3>6
  <2>3. ASSUME NEW o \in Ops, ReleaseResources(o)
        PROVE  OutcomesStay /\ HoldersStay
    <3>1. Release(work[o], {"handover"}).outcome = work[o].outcome
      BY <1>0 DEF Release, OperationRecord
    <3>2. \A x \in Ops : work'[x].outcome = work[x].outcome
      BY <1>0, <2>3, <3>1 DEF ReleaseResources
    <3>3. work[o].outcome # "None"
      BY <1>0, <2>3 DEF ReleaseResources, CanRelease, Decodes
    <3>4. /\ \A x \in Resources : x \notin ResourceSet[o] => resource'[x] = resource[x]
          /\ \A x \in ResourceSet[o] : resource[x].holder = o
      BY <2>3 DEF ReleaseResources
    <3>5. UNCHANGED activation
      BY <2>3 DEF ReleaseResources
    <3> QED
      BY <3>2, <3>3, <3>4, <3>5 DEF OutcomesStay, HoldersStay
  <2>4. ASSUME NEW o \in Ops, NEW m \in {"prepare", "authorize"},
               NEW state \in {"Prepared", "VoidedBeforeSend", "SendEntered"},
               RecordHostReceipt(o, m, state)
        PROVE  OutcomesStay /\ HoldersStay
    <3>1. Sent(work[o]).outcome = work[o].outcome
      BY <1>0 DEF Sent, OperationRecord
    <3>2. work[o].outcome # "None" => ReceiptWork(o, state).outcome = work[o].outcome
      BY <3>1 DEF ReceiptWork
    <3>3. /\ work' = [work EXCEPT ![o] = ReceiptWork(o, state)]
          /\ UNCHANGED <<activation, resource>>
      BY <2>4 DEF RecordHostReceipt
    <3> QED
      BY <1>0, <3>2, <3>3 DEF OutcomesStay, HoldersStay
  <2>5. ASSUME NEW o \in Ops,
               \/ DisputeOperation(o) \/ NoteDeliveryAttention(o)
               \/ \E s \in Status : IngestEvidence(o, s)
        PROVE  OutcomesStay /\ HoldersStay
    <3>1. UNCHANGED activation
      BY <1>0, <2>5, EvidenceRevises
    <3>2. PICK w, p, au : /\ Revises(w, p, au)
                          /\ \/ InvalidateCell(Nil, cell.qualified, w, p, au)
                             \/ Applied(w, p, au)
      BY <1>0, <2>5, EvidenceRevises
    <3>3. CASE InvalidateCell(Nil, cell.qualified, w, p, au)
      BY <1>2, <3>1, <3>2, <3>3
    <3>4. CASE Applied(w, p, au)
      BY <3>1, <3>2, <3>4 DEF Revises, Applied, OutcomesStay, HoldersStay
    <3> QED
      BY <3>2, <3>3, <3>4
  <2>6. CASE \E o \in Ops : PlanPrepare(o) \/ PlanAuthorize(o)
    BY <1>1, <2>6 DEF PlanPrepare, PlanAuthorize
  <2>7. CASE \/ \E r \in Runs : BeginPart(r)
             \/ \E r \in Runs, part \in 1 .. MaxBudget : CompletePart(r, part)
    BY <1>1, <2>7 DEF BeginPart, CompletePart, workVars
  <2> QED
    BY <1>5, <2>1, <2>2, <2>3, <2>4, <2>5, <2>6, <2>7 DEF DispatchStep
<1>6. CASE HostStep /\ UNCHANGED platformVars
  BY <1>1, <1>6 DEF platformVars, workVars
<1>7. CASE UNCHANGED vars
  BY <1>1, <1>7 DEF vars, platformVars, workVars
<1>8. CASE UNCHANGED <<workVars, hostVars>>
  BY <1>1, <1>8 DEF workVars
<1> QED
  BY <1>4, <1>5, <1>6, <1>7, <1>8, OtherStepsRevoke DEF Next

\* No step takes a resource from an operation that is not concluded.
LEMMA StepHolds ==
    ASSUME TypeOK, StoredWorkDecodes, DeliveryInv, HoldsUntilConcluded, [Next]_vars
    PROVE  HoldsUntilConcluded'
<1>1. OutcomesStay /\ HoldersStay
  BY StepOutcomes
<1> SUFFICES ASSUME NEW o \in Ops, activation'[o] = "Submitted", work'[o].outcome = "None",
                    NEW x \in ResourceSet[o]
             PROVE  resource'[x].holder = o
  BY DEF HoldsUntilConcluded
<1>2. x \in Resources /\ o # Nil
  BY SlotAssumption, NilAssumption
<1>3. CASE activation[o] # "Submitted"
  BY <1>1, <1>3 DEF HoldersStay
<1>4. CASE activation[o] = "Submitted"
  <2>1. work[o].outcome = "None"
    BY <1>1, <1>4 DEF OutcomesStay
  <2>2. resource[x].holder = o
    BY <1>4, <2>1 DEF HoldsUntilConcluded
  <2> QED
    BY <1>1, <1>2, <2>1, <2>2 DEF HoldersStay
<1> QED
  BY <1>3, <1>4

(* The delivery invariant, with the invariants it rests on, holds of every  *)
(* behaviour.                                                               *)
LEMMA DeliveryInvariant ==
    Spec => [](/\ TypeOK /\ StoredWorkDecodes /\ AuthorityInv /\ StartInv
               /\ DeliveryInv /\ HoldsUntilConcluded)
<1>1. Init => DeliveryInv
  BY DEF Init, PlatformInit, HostInit, Admitted, DeliveryInv, UnsubmittedIsBlank,
         UnpreparedIsAbsent, PreparedOnce, UnauthorizedIsUnsent, AuthorizedOnce,
         AuthorizedIsInvoked, SendsAreCounted, ResultsAreFinal, PreparedInTheEpoch,
         OutcomeIsProven
<1>2. Init => HoldsUntilConcluded
  BY DEF Init, PlatformInit, HoldsUntilConcluded
<1> QED
  BY <1>1, <1>2, StepDelivery, StepHolds, StartInvariant, PTL DEF Spec

-----------------------------------------------------------------------------
(* For every number of operations and hosts: although the platform crashes, *)
(* times out and retries and the host does not deduplicate, no native       *)
(* command is issued twice.                                                 *)
THEOREM CommandIsSentOnce == Spec => []SentAtMostOnce
<1>1. DeliveryInv => SentAtMostOnce
  BY DEF DeliveryInv, SendsAreCounted, SentAtMostOnce
<1> QED
  BY <1>1, DeliveryInvariant, PTL

(* An undisputed conclusion in the ledger is true of the device, and rests  *)
(* on evidence whose invocation is known.                                   *)
THEOREM ConclusionIsAlwaysTrue == Spec => []ConclusionIsTrue
<1>1. DeliveryInv => ConclusionIsTrue
  <2> SUFFICES ASSUME DeliveryInv PROVE ConclusionIsTrue
    OBVIOUS
  <2>1. EvidenceIsCorrelated
    BY DEF DeliveryInv, ResultsAreFinal, SendsAreCounted, UnauthorizedIsUnsent,
           AuthorizedIsInvoked, EvidenceIsCorrelated
  <2>2. \A o \in Ops : work[o].outcome = "NotExecuted" => native[o] \notin {"Sent", "Ended"}
    BY DEF DeliveryInv, OutcomeIsProven, UnpreparedIsAbsent, UnauthorizedIsUnsent, SendsAreCounted
  <2>3. \A o \in Ops : work[o].outcome \in {"Succeeded", "Failed"} => native[o] = "Ended"
    BY DEF DeliveryInv, OutcomeIsProven
  <2> QED
    BY <2>1, <2>2, <2>3 DEF ConclusionIsTrue, Submitted
<1> QED
  BY <1>1, DeliveryInvariant, PTL

(* A device that may be acting works on resources that its operation still  *)
(* holds, so that no other operation can have them.                         *)
THEOREM ActingAlwaysHolds == Spec => []ActingHoldsResources
<1>1. DeliveryInv /\ HoldsUntilConcluded => ActingHoldsResources
  <2> SUFFICES ASSUME DeliveryInv, HoldsUntilConcluded, NEW o \in Ops, native[o] = "Sent"
               PROVE  \A r \in ResourceSet[o] : resource[r].holder = o
    BY DEF ActingHoldsResources
  <2>1. sends[o] = 1
    BY DEF DeliveryInv, SendsAreCounted
  <2>2. /\ prepareRow[o] \notin {"None", "New", "Voided"}
        /\ authorizeRow[o] \notin {"None", "New", "Voided"}
    BY <2>1 DEF DeliveryInv, UnpreparedIsAbsent, UnauthorizedIsUnsent
  <2>3. activation[o] = "Submitted"
    BY <2>2 DEF DeliveryInv, UnsubmittedIsBlank
  <2>4. work[o].outcome = "None"
    BY <2>2 DEF DeliveryInv, OutcomeIsProven
  <2> QED
    BY <2>3, <2>4 DEF HoldsUntilConcluded
<1> QED
  BY <1>1, DeliveryInvariant, PTL

(* A registration never runs ahead of its host, and a host that is taken as *)
(* fenced has nothing prepared for an earlier epoch.                        *)
THEOREM FencedHostIsAlwaysFenced == Spec => []FencedHostIsFenced
<1>1. TypeOK /\ StartInv /\ DeliveryInv => FencedHostIsFenced
  <2> SUFFICES ASSUME TypeOK, StartInv, DeliveryInv PROVE FencedHostIsFenced
    OBVIOUS
  <2>1. \A h \in Hosts : host[h].epoch <= hostEpoch[h]
    BY DEF StartInv, HostFollowsCell
  <2>2. \A o \in Ops : native[o] = "Prepared" => permit[o].epoch = hostEpoch[HostOf[o]]
    BY DEF DeliveryInv, PreparedInTheEpoch
  <2> QED
    BY <2>1, <2>2, BoundAssumption
       DEF FencedHostIsFenced, TypeOK, PlatformTypeOK, HostTypeOK, Epoch
<1> QED
  BY <1>1, DeliveryInvariant, PTL

(* Only a host that takes an Authorize of its own epoch issues a command,   *)
(* so that none is issued behind a fence whose receipt the platform holds.  *)
THEOREM NoSendIsBehindFence == Spec => NoSendBehindFence
<1>1. TypeOK /\ StartInv /\ [Next]_vars => [SendsInTheEpoch]_vars
  <2> SUFFICES ASSUME TypeOK, StartInv, Next, NEW o \in Ops, sends'[o] > sends[o]
               PROVE  permit[o].epoch >= host[HostOf[o]].epoch
    BY DEF SendsInTheEpoch
  <2>0. /\ sends \in [Ops -> 0 .. 2] /\ \A x \in Ops : HostOf[x] \in Hosts
        /\ \A h \in Hosts : hostEpoch[h] \in Nat /\ host[h].epoch \in Nat
    BY SlotAssumption, BoundAssumption DEF TypeOK, PlatformTypeOK, HostTypeOK, Epoch
  <2>1. UNCHANGED sends => FALSE
    BY <2>0
  <2>2. HostStep
    <3>1. UNCHANGED hostVars => FALSE
      BY <2>1 DEF hostVars
    <3>2. ~DispatchStep
      BY <2>1 DEF DispatchStep, BeginPart, CompletePart, ResolveActivation, Submit, PlanPrepare,
         PlanAuthorize, NoteDeliveryAttention, DisputeOperation, ReleaseResources,
         RecordHostReceipt, IngestEvidence, hostVars
    <3>3. ~(FenceStep \/ CellStep \/ \E verified \in BOOLEAN : Restart(verified))
      BY <2>1, OtherStepsRevoke DEF hostVars
    <3> QED
      BY <3>1, <3>2, <3>3 DEF Next
  <2>3. HostAuthorizes(o)
    <3>1. PICK x \in Ops : HostAuthorizes(x)
      BY <2>1, <2>2 DEF HostStep, HostArms, HostPrepares, HostFences, NativeEnds,
                        NativeContradicts
    <3>2. x # o => sends'[o] = sends[o]
      BY <2>0, <3>1 DEF HostAuthorizes
    <3> QED
      BY <2>0, <3>1, <3>2
  <2>4. permit[o].epoch = hostEpoch[HostOf[o]]
    BY <2>1, <2>3 DEF HostAuthorizes
  <2> QED
    BY <2>0, <2>4 DEF StartInv, HostFollowsCell
<1> QED
  BY <1>1, DeliveryInvariant, PTL DEF Spec, NoSendBehindFence

-----------------------------------------------------------------------------
(* Nothing that was closed, voided or refused comes back.                   *)

\* A revocation brings nothing back that has ended.
LEMMA InvalidateCellRevives ==
    ASSUME PlatformTypeOK, NEW paused, NEW qualified, NEW w, NEW p, NEW au, Revises(w, p, au),
           InvalidateCell(paused, qualified, w, p, au)
    PROVE  RevivesNothing
<1>1. \A a \in Attempts :
         /\ mandate[a].state # "Active" => mandate'[a] = mandate[a]
         /\ attempt[a].status # "Arming" => attempt'[a] = attempt[a]
  BY DEF InvalidateCell, RevokeIfActive, RejectIfArming
<1>2. \A o \in Ops : permit[o].state \in {"Consumed", "Voided"} => permit'[o] = permit[o]
  BY DEF InvalidateCell, VoidIfIssued, Revises
<1>3. \A o \in Ops : /\ prepareRow[o] = "Voided" => prepareRow'[o] = "Voided"
                     /\ authorizeRow[o] = "Voided" => authorizeRow'[o] = "Voided"
  BY DEF InvalidateCell, VoidNew, Revises
<1>4. \A r \in Runs : run[r].state \in {"Completed", "Abandoned"} => run'[r] = run[r]
  BY DEF InvalidateCell, InvalidateRun
<1> QED
  BY <1>1, <1>2, <1>3, <1>4 DEF RevivesNothing

(* A start, pause or abandonment acts on runs and attempts that are open.   *)
LEMMA StartStepRevives ==
    ASSUME PlatformTypeOK, AuthorityInv, Revises(work, permit, authorizeRow), StartStep
    PROVE  RevivesNothing
<1>0. /\ run \in [Runs -> RunRecord] /\ attempt \in [Attempts -> AttemptRecord]
      /\ mandate \in [Attempts -> MandateRecord]
      /\ \A a \in Attempts : attempt[a].status # "Started" => mandate[a].state = "None"
      /\ \A a \in Attempts : attempt[a].status # "None" => attempt[a].run \in Runs
  BY DEF PlatformTypeOK, AuthorityInv, MandateWasStarted, AttemptHasRun, AttemptRecord
<1>1. ASSUME UNCHANGED workVars, NEW r \in Runs, run[r].state \notin {"Completed", "Abandoned"},
             \A x \in Runs \ {r} : run'[x] = run[x],
             \A a \in Attempts :
                /\ mandate'[a] = mandate[a] \/ mandate[a].state = "None"
                /\ attempt'[a] = attempt[a] \/ attempt[a].status # "Rejected"
      PROVE  RevivesNothing
  BY <1>1 DEF RevivesNothing, workVars
<1>2. ASSUME NEW r \in Runs, CreateRun(r) \/ AbandonRun(r)
      PROVE  RevivesNothing
  BY <1>0, <1>1, <1>2 DEF CreateRun, AbandonRun
<1>3. ASSUME NEW r \in Runs, PauseRun(r)
      PROVE  RevivesNothing
  <2>1. CASE Invalidate(r)
    BY <2>1, InvalidateCellRevives DEF Invalidate
  <2>2. CASE ~Invalidate(r)
    BY <1>0, <1>1, <1>3, <2>2 DEF PauseRun
  <2> QED
    BY <2>1, <2>2
<1>4. ASSUME NEW r \in Runs, NEW a \in Attempts, NEW purpose \in {"Production", "Setup"},
             NEW limit \in 1 .. MaxBudget, StartRun(r, a, purpose, limit)
      PROVE  RevivesNothing
  BY <1>0, <1>1, <1>4 DEF StartRun, StartCandidate
<1>5. ASSUME NEW a \in Attempts, NEW h \in Hosts, PlanArm(a, h)
      PROVE  RevivesNothing
  BY <1>5 DEF PlanArm, RevivesNothing, workVars
<1>6. ASSUME NEW a \in Attempts, NEW h \in Hosts, NEW expired \in BOOLEAN,
             AcknowledgeArm(a, h, expired)
      PROVE  RevivesNothing
  <2>0. UNCHANGED workVars
    BY <1>6 DEF AcknowledgeArm
  <2>1. CASE attempt[a].status = "Started"
    BY <1>6, <2>0, <2>1 DEF AcknowledgeArm, RevivesNothing, workVars
  <2>2. CASE attempt[a].status = "Arming" /\ RejectAttempt(a)
    <3>1. \A r \in Runs : run'[r].state = run[r].state
      BY <1>0, <2>2 DEF RejectAttempt, RunRecord
    <3> QED
      BY <1>0, <2>0, <2>2, <3>1 DEF RejectAttempt, RevivesNothing, workVars
  <2>3. CASE attempt[a].status = "Arming" /\ ~AttemptStale(a) /\ AcceptAcknowledgment(a, h)
    <3>1. attempt[a].run \in Runs /\ run[attempt[a].run].state = "Prepared"
          /\ mandate[a].state = "None"
      BY <1>0, <2>3 DEF AttemptStale
    <3>2. CASE CreateMandate(a, h)
      BY <1>0, <1>1, <2>0, <2>3, <3>1, <3>2 DEF CreateMandate
    <3>3. CASE ~CreateMandate(a, h)
      BY <1>0, <2>0, <2>3, <3>3 DEF AcceptAcknowledgment, RevivesNothing, workVars
    <3> QED
      BY <3>2, <3>3
  <2> QED
    BY <1>6, <2>1, <2>2, <2>3 DEF AcknowledgeArm
<1> QED
  BY <1>2, <1>3, <1>4, <1>5, <1>6 DEF StartStep

\* No step of delivery, evidence and handover brings back what has ended.
LEMMA DispatchStepRevives ==
    ASSUME PlatformTypeOK, StoredWorkDecodes, AuthorityInv, DeliveryInv, DispatchStep
    PROVE  RevivesNothing
<1>0. /\ run \in [Runs -> RunRecord] /\ mandate \in [Attempts -> MandateRecord]
      /\ permit \in [Ops -> PermitRecord] /\ prepareRow \in [Ops -> OutboxState]
      /\ authorizeRow \in [Ops -> OutboxState] /\ \A o \in Ops : RunOf[o] \in Runs
  BY SlotAssumption DEF PlatformTypeOK
<1>1. ASSUME UNCHANGED <<attempt, mandate>>, \A r \in Runs : run'[r].state = run[r].state,
             \A o \in Ops :
                /\ permit'[o] = permit[o] \/ permit[o].state \notin {"Consumed", "Voided"}
                /\ prepareRow'[o] = prepareRow[o] \/ prepareRow[o] # "Voided"
                /\ authorizeRow'[o] = authorizeRow[o] \/ authorizeRow[o] # "Voided"
      PROVE  RevivesNothing
  BY <1>1 DEF RevivesNothing
<1>2. ASSUME NEW r \in Runs, BeginPart(r)
      PROVE  RevivesNothing
  <2>1. \A x \in Runs : run'[x].state = run[x].state
    BY <1>0, <1>2 DEF BeginPart, RunRecord
  <2> QED
    BY <1>1, <1>2, <2>1 DEF BeginPart, workVars
<1>3. ASSUME NEW r \in Runs, NEW part \in 1 .. MaxBudget, CompletePart(r, part)
      PROVE  RevivesNothing
  <2>1. /\ run[r].state = "Executing" /\ run[r].mandate # Nil
        /\ mandate[run[r].mandate].state = "Active"
    BY <1>3 DEF CompletePart, ActiveRun
  <2>2. \A x \in Runs : run[x].state # "Executing" => run'[x] = run[x]
    BY <1>0, <1>3, <2>1 DEF CompletePart
  <2>3. \A a \in Attempts : mandate[a].state # "Active" => mandate'[a] = mandate[a]
    BY <1>0, <1>3, <2>1 DEF CompletePart
  <2>4. UNCHANGED <<attempt, workVars>>
    BY <1>3 DEF CompletePart
  <2> QED
    BY <2>2, <2>3, <2>4 DEF RevivesNothing, workVars
<1>4. ASSUME NEW o \in Ops, Submit(o)
      PROVE  RevivesNothing
  <2>1. permit[o].state = "None" /\ prepareRow[o] = "None"
    BY <1>4 DEF Submit, DeliveryInv, UnsubmittedIsBlank
  <2>2. \A x \in Runs : run'[x].state = run[x].state
    BY <1>0, <1>4 DEF Submit, RunRecord
  <2>3. \A x \in Ops \ {o} : permit'[x] = permit[x] /\ prepareRow'[x] = prepareRow[x]
    BY <1>0, <1>4 DEF Submit
  <2>4. UNCHANGED <<attempt, mandate, authorizeRow>>
    BY <1>4 DEF Submit
  <2> QED
    BY <1>1, <2>1, <2>2, <2>3, <2>4
<1>5. ASSUME NEW o \in Ops,
             \/ ResolveActivation(o) \/ ReleaseResources(o)
             \/ PlanPrepare(o) \/ PlanAuthorize(o)
      PROVE  RevivesNothing
  <2>1. UNCHANGED <<run, attempt, mandate, permit>>
    BY <1>5 DEF ResolveActivation, ReleaseResources, PlanPrepare, PlanAuthorize, startVars
  <2>2. \A x \in Ops : /\ prepareRow'[x] = prepareRow[x] \/ prepareRow[x] # "Voided"
                       /\ authorizeRow'[x] = authorizeRow[x] \/ authorizeRow[x] # "Voided"
    BY <1>0, <1>5 DEF ResolveActivation, ReleaseResources, PlanPrepare, PlanAuthorize
  <2> QED
    BY <1>1, <2>1, <2>2
<1>6. ASSUME NEW o \in Ops, NEW m \in {"prepare", "authorize"},
             NEW state \in {"Prepared", "VoidedBeforeSend", "SendEntered"},
             RecordHostReceipt(o, m, state)
      PROVE  RevivesNothing
  <2>1. \A x \in Ops :
           /\ permit'[x] = permit[x] \/ permit[x].state \notin {"Consumed", "Voided"}
           /\ prepareRow'[x] = prepareRow[x] \/ prepareRow[x] # "Voided"
    BY <1>0, <1>6 DEF RecordHostReceipt, MessageRow
  <2>2. \A x \in Ops : authorizeRow'[x] = authorizeRow[x] \/ authorizeRow[x] # "Voided"
    <3>1. authorizeRow' = [authorizeRow EXCEPT ![o] = ReceiptAuthorizeRow(o, m, state)]
      BY <1>6 DEF RecordHostReceipt
    <3>2. m = "authorize" => authorizeRow[o] # "Voided"
      BY <1>6 DEF RecordHostReceipt, MessageRow
    <3>3. ReceiptAuthorizeRow(o, m, state) = authorizeRow[o] \/ authorizeRow[o] # "Voided"
      BY <3>2 DEF ReceiptAuthorizeRow, EnqueueAuthorize
    <3> QED
      BY <1>0, <3>1, <3>3
  <2>3. UNCHANGED startVars
    BY <1>6 DEF RecordHostReceipt
  <2> QED
    BY <1>1, <2>1, <2>2, <2>3 DEF startVars
<1>7. ASSUME NEW o \in Ops,
             \/ DisputeOperation(o) \/ NoteDeliveryAttention(o)
             \/ \E s \in Status : IngestEvidence(o, s)
      PROVE  RevivesNothing
  <2>1. PICK w, p, au : /\ Revises(w, p, au)
                        /\ \/ InvalidateCell(Nil, cell.qualified, w, p, au)
                           \/ Applied(w, p, au)
    BY <1>7, EvidenceRevises
  <2>2. CASE InvalidateCell(Nil, cell.qualified, w, p, au)
    BY <2>1, <2>2, InvalidateCellRevives
  <2>3. CASE Applied(w, p, au)
    BY <1>1, <2>1, <2>3 DEF Applied, Revises
  <2> QED
    BY <2>1, <2>2, <2>3
<1> QED
  BY <1>2, <1>3, <1>4, <1>5, <1>6, <1>7 DEF DispatchStep

(* The handlers of fences, connections, stops and boots leave runs and      *)
(* operations alone or revoke the whole cell.                               *)
LEMMA CellStepsRevoke ==
    ASSUME FenceStep \/ CellStep \/ (\E verified \in BOOLEAN : Restart(verified))
    PROVE  \/ UNCHANGED <<run, attempt, mandate, workVars>>
           \/ \E paused, qualified :
                 InvalidateCell(paused, qualified, work, permit, authorizeRow)
BY DEF FenceStep, PlanFence, FinishFence, CellStep, Qualify, ActivateQualification,
       OpenExecutor, LinkHost, ReplaceHost, Hold, MaintainedConditionLost,
       RequestRuntimeStop, CommitRuntimeStop, Restart, Invalidate, startVars

\* No step of the platform brings back what has ended.
LEMMA StepRevives ==
    ASSUME TypeOK, StoredWorkDecodes, AuthorityInv, DeliveryInv, Next
    PROVE  RevivesNothing
<1>0. PlatformTypeOK
  BY DEF TypeOK
<1>1. Revises(work, permit, authorizeRow)
  BY <1>0 DEF Revises, PlatformTypeOK, StoredWorkDecodes
<1>2. CASE \E paused, qualified :
              InvalidateCell(paused, qualified, work, permit, authorizeRow)
  BY <1>0, <1>1, <1>2, InvalidateCellRevives
<1>3. CASE UNCHANGED <<run, attempt, mandate, workVars>>
  BY <1>3 DEF RevivesNothing, workVars
<1>4. CASE UNCHANGED platformVars
  BY <1>3, <1>4 DEF platformVars, startVars
<1> QED
  BY <1>0, <1>1, <1>2, <1>3, <1>4, CellStepsRevoke, StartStepRevives, DispatchStepRevives
     DEF Next

(* What was revoked, refused, used up or voided stays so: no handler, retry *)
(* or restart revives a mandate, permit, start attempt, outbox row or       *)
(* closed run.                                                              *)
THEOREM NothingIsEverRevived == Spec => NothingIsRevived
<1>1. TypeOK /\ StoredWorkDecodes /\ AuthorityInv /\ DeliveryInv /\ [Next]_vars
         => [RevivesNothing]_vars
  BY StepRevives
<1> QED
  BY <1>1, DeliveryInvariant, PTL DEF Spec, NothingIsRevived

-----------------------------------------------------------------------------
(* How runs end.                                                            *)

(* A submitted operation belongs to a run whose purpose and budget are      *)
(* fixed, and to a part of it that was begun.                               *)
SubmittedHasPart ==
    \A o \in Ops : activation[o] = "Submitted" =>
        /\ run[RunOf[o]].limit # 0
        /\ run[RunOf[o]].purpose = "Production" => VisitOf[o] \in 1 .. run[RunOf[o]].used

StartedHasLimit ==
    \A r \in Runs : run[r].state = "Executing" \/ run[r].pending # Nil => run[r].limit # 0

CompletedIsExhausted ==
    \A r \in Runs : run[r].state = "Completed" =>
        /\ run[r].mandate # Nil /\ mandate[run[r].mandate].state = "Exhausted"
        /\ run[r].purpose = "Production" /\ run[r].done = 1 .. run[r].used

AbandonedIsConcluded ==
    \A o \in Ops : run[RunOf[o]].state = "Abandoned" /\ activation[o] = "Submitted" =>
        work[o].outcome # "None"

ClosingInv ==
    SubmittedHasPart /\ StartedHasLimit /\ CompletedIsExhausted /\ AbandonedIsConcluded

(* What a step may do to a run. *)
RunsProgress ==
    \A r \in Runs :
        /\ run[r].limit # 0 => run'[r].limit = run[r].limit /\ run'[r].purpose = run[r].purpose
        /\ 1 .. run[r].used \subseteq 1 .. run'[r].used
        /\ run'[r].state = "Executing" \/ run'[r].pending # Nil =>
              run[r].state = "Executing" \/ run[r].pending # Nil \/ run'[r].limit # 0
        /\ run[r].state \in {"Completed", "Abandoned"} => run'[r] = run[r]
        /\ run'[r].state = "Completed" /\ run[r].state # "Completed" =>
              /\ run'[r].mandate # Nil /\ mandate'[run'[r].mandate].state = "Exhausted"
              /\ run'[r].purpose = "Production" /\ run'[r].done = 1 .. run'[r].used
        /\ run'[r].state = "Abandoned" /\ run[r].state # "Abandoned" =>
              \A o \in Ops : RunOf[o] = r /\ activation[o] = "Submitted" =>
                  work[o].outcome # "None"

(* A submission is made for a part of an executing run. *)
SubmissionsHaveParts ==
    \A o \in Ops : activation'[o] = "Submitted" /\ activation[o] # "Submitted" =>
        /\ run[RunOf[o]].state = "Executing" /\ run'[RunOf[o]].state = "Executing"
        /\ run[RunOf[o]].purpose = "Production" => VisitOf[o] \in 1 .. run[RunOf[o]].used

\* What a run submits is work of a part that it has begun.
LEMMA SubmissionsAreOfParts ==
    ASSUME TypeOK, StoredWorkDecodes, DeliveryInv, Next
    PROVE  SubmissionsHaveParts
<1>0. /\ PlatformTypeOK /\ run \in [Runs -> RunRecord]
      /\ \A o \in Ops : RunOf[o] \in Runs
  BY SlotAssumption DEF TypeOK, PlatformTypeOK
<1>1. CASE UNCHANGED activation
  BY <1>1 DEF SubmissionsHaveParts
<1>2. CASE UNCHANGED workVars
  BY <1>1, <1>2 DEF workVars
<1>3. ASSUME NEW o \in Ops, Submit(o)
      PROVE  SubmissionsHaveParts
  <2>1. /\ run[RunOf[o]].state = "Executing"
        /\ run[RunOf[o]].purpose = "Production" => VisitOf[o] \in 1 .. run[RunOf[o]].used
    BY <1>3 DEF Submit, ActiveRun, ValidatePart
  <2>2. run'[RunOf[o]].state = run[RunOf[o]].state
    BY <1>0, <1>3 DEF Submit, RunRecord
  <2>3. \A x \in Ops \ {o} : activation'[x] = activation[x]
    BY <1>0, <1>3 DEF Submit, PlatformTypeOK
  <2> QED
    BY <2>1, <2>2, <2>3 DEF SubmissionsHaveParts
<1>4. ASSUME NEW o \in Ops, ResolveActivation(o)
      PROVE  SubmissionsHaveParts
  BY <1>0, <1>4 DEF ResolveActivation, PlatformTypeOK, SubmissionsHaveParts
<1>5. CASE DispatchStep
  BY <1>1, <1>2, <1>3, <1>4, <1>5
     DEF DispatchStep, BeginPart, CompletePart, PlanPrepare, PlanAuthorize,
         NoteDeliveryAttention, DisputeOperation, ReleaseResources, RecordHostReceipt,
         IngestEvidence
<1>6. CASE UNCHANGED platformVars
  BY <1>2, <1>6 DEF platformVars
<1> QED
  BY <1>1, <1>2, <1>5, <1>6, OtherStepsRevoke DEF Next

\* A revocation pauses runs and undoes nothing they have done.
LEMMA InvalidateCellProgress ==
    ASSUME PlatformTypeOK, NEW paused, NEW qualified, NEW w, NEW p, NEW au,
           InvalidateCell(paused, qualified, w, p, au)
    PROVE  RunsProgress
<1> SUFFICES ASSUME NEW r \in Runs
             PROVE  /\ run'[r].limit = run[r].limit /\ run'[r].purpose = run[r].purpose
                    /\ run'[r].used = run[r].used
                    /\ \/ run'[r] = run[r]
                       \/ /\ run[r].state \in {"Executing", "Prepared", "Paused"}
                          /\ run'[r].state \in {"Paused", "RecoveryRequired"}
                          /\ run'[r].pending = Nil
  BY DEF RunsProgress
<1> DEFINE v == [run[r] EXCEPT !.state = IF r = paused THEN "Paused" ELSE "RecoveryRequired",
                               !.session = 0, !.pending = Nil]
<1>1. run[r] \in RunRecord
  BY DEF PlatformTypeOK
<1>2. /\ v.state \in {"Paused", "RecoveryRequired"} /\ v.pending = Nil
      /\ v.limit = run[r].limit /\ v.purpose = run[r].purpose /\ v.used = run[r].used
  BY <1>1 DEF RunRecord
<1>3. run'[r] = IF run[r].state \in {"Executing", "Prepared", "Paused"} THEN v ELSE run[r]
  BY DEF InvalidateCell, InvalidateRun
<1> HIDE DEF v
<1> QED
  BY <1>2, <1>3

\* The steps of a start undo no progress of a run.
LEMMA StartStepProgress ==
    ASSUME PlatformTypeOK, AuthorityInv, StartInv, StartStep
    PROVE  RunsProgress
<1>0. /\ run \in [Runs -> RunRecord] /\ \A r \in Runs : run[r] \in RunRecord
      /\ \A a \in Attempts : attempt[a].status # "None" => attempt[a].run \in Runs
      /\ \A l \in 1 .. MaxBudget : l # 0
  BY BoundAssumption DEF PlatformTypeOK, AuthorityInv, AttemptHasRun, AttemptRecord
<1>1. CASE UNCHANGED run
  BY <1>1 DEF RunsProgress
\* One open run changes and keeps its budget.
<1>2. ASSUME NEW r \in Runs, \A x \in Runs \ {r} : run'[x] = run[x],
             run[r].state \notin {"Completed", "Abandoned"},
             run'[r].limit = run[r].limit, run'[r].purpose = run[r].purpose,
             run'[r].used = run[r].used, run'[r].state # "Completed",
             run'[r].state = "Executing" \/ run'[r].pending # Nil => run[r].pending # Nil,
             run'[r].state = "Abandoned" =>
                \A o \in Submitted : RunOf[o] = r => work[o].outcome # "None"
      PROVE  RunsProgress
  BY <1>2 DEF RunsProgress, Submitted
<1>3. ASSUME NEW r \in Runs, CreateRun(r)
      PROVE  RunsProgress
  <2>1. /\ run'[r].limit = run[r].limit /\ run'[r].purpose = run[r].purpose
        /\ run'[r].used = run[r].used /\ run'[r].state = "Prepared"
        /\ run'[r].pending = run[r].pending /\ \A x \in Runs \ {r} : run'[x] = run[x]
    BY <1>0, <1>3 DEF CreateRun, RunRecord
  <2> QED
    BY <1>2, <1>3, <2>1 DEF CreateRun
<1>4. ASSUME NEW r \in Runs, AbandonRun(r)
      PROVE  RunsProgress
  <2>1. /\ run'[r].limit = run[r].limit /\ run'[r].purpose = run[r].purpose
        /\ run'[r].used = run[r].used /\ run'[r].state = "Abandoned"
        /\ run'[r].pending = run[r].pending /\ \A x \in Runs \ {r} : run'[x] = run[x]
    BY <1>0, <1>4 DEF AbandonRun, RunRecord
  <2> QED
    BY <1>2, <1>4, <2>1 DEF AbandonRun
<1>5. ASSUME NEW r \in Runs, PauseRun(r)
      PROVE  RunsProgress
  <2>1. CASE Invalidate(r)
    BY <2>1, InvalidateCellProgress DEF Invalidate
  <2>2. CASE run[r].state = "Prepared" /\ run' = [run EXCEPT ![r].state = "Paused"]
    <3>1. /\ run'[r].limit = run[r].limit /\ run'[r].purpose = run[r].purpose
          /\ run'[r].used = run[r].used /\ run'[r].state = "Paused"
          /\ run'[r].pending = run[r].pending /\ \A x \in Runs \ {r} : run'[x] = run[x]
      BY <1>0, <2>2 DEF RunRecord
    <3> QED
      BY <1>2, <2>2, <3>1
  <2> QED
    BY <1>5, <2>1, <2>2 DEF PauseRun
<1>6. ASSUME NEW r \in Runs, NEW a \in Attempts, NEW purpose \in {"Production", "Setup"},
             NEW limit \in 1 .. MaxBudget, StartRun(r, a, purpose, limit)
      PROVE  RunsProgress
  <2>1. /\ run[r].state = "Prepared"
        /\ run[r].limit # 0 => run[r].limit = limit /\ run[r].purpose = purpose
    BY <1>6 DEF StartRun, StartCandidate
  <2>2. /\ run'[r].limit = limit /\ run'[r].purpose = purpose
        /\ run'[r].used = run[r].used /\ run'[r].state = run[r].state
        /\ \A x \in Runs \ {r} : run'[x] = run[x]
    BY <1>0, <1>6 DEF StartRun, RunRecord
  <2> QED
    BY <1>0, <2>1, <2>2 DEF RunsProgress
<1>7. ASSUME NEW a \in Attempts, NEW h \in Hosts, NEW expired \in BOOLEAN,
             AcknowledgeArm(a, h, expired)
      PROVE  RunsProgress
  <2>1. CASE attempt[a].status = "Started" /\ UNCHANGED run
    BY <1>1, <2>1
  <2>2. CASE attempt[a].status = "Arming"
    <3> DEFINE r == attempt[a].run
    <3>1. r \in Runs /\ run[r].pending = a /\ a # Nil /\ run[r].state = "Prepared"
      BY <1>0, <2>2, NilAssumption DEF StartInv, StartIsPending
    <3> HIDE DEF r
    <3>2. CASE RejectAttempt(a)
      <4>1. /\ run'[r].limit = run[r].limit /\ run'[r].purpose = run[r].purpose
            /\ run'[r].used = run[r].used /\ run'[r].state = run[r].state
            /\ \A x \in Runs \ {r} : run'[x] = run[x]
        BY <1>0, <3>1, <3>2 DEF RejectAttempt, RunRecord, r
      <4> QED
        BY <1>2, <3>1, <4>1
    <3>3. CASE CreateMandate(a, h)
      <4>1. /\ run'[r].limit = run[r].limit /\ run'[r].purpose = run[r].purpose
            /\ run'[r].used = run[r].used /\ run'[r].state = "Executing"
            /\ \A x \in Runs \ {r} : run'[x] = run[x]
        BY <1>0, <3>1, <3>3 DEF CreateMandate, RunRecord, r
      <4> QED
        BY <1>2, <3>1, <4>1
    <3> QED
      BY <1>1, <1>7, <2>2, <3>2, <3>3 DEF AcknowledgeArm, AcceptAcknowledgment
  <2> QED
    BY <1>7, <2>1, <2>2 DEF AcknowledgeArm
<1>8. ASSUME NEW a \in Attempts, NEW h \in Hosts, PlanArm(a, h)
      PROVE  RunsProgress
  BY <1>1, <1>8 DEF PlanArm
<1> QED
  BY <1>3, <1>4, <1>5, <1>6, <1>7, <1>8 DEF StartStep

\* The steps of delivery, evidence and handover undo no progress of a run.
LEMMA DispatchStepProgress ==
    ASSUME PlatformTypeOK, StoredWorkDecodes, DeliveryInv, DispatchStep
    PROVE  RunsProgress
<1>0. /\ run \in [Runs -> RunRecord] /\ \A r \in Runs : run[r] \in RunRecord
      /\ mandate \in [Attempts -> MandateRecord] /\ \A o \in Ops : RunOf[o] \in Runs
      /\ \A r \in Runs : run[r].used \in 0 .. MaxBudget /\ run[r].limit \in 0 .. MaxBudget
  BY SlotAssumption DEF PlatformTypeOK, RunRecord
<1>1. CASE UNCHANGED run
  BY <1>1 DEF RunsProgress
\* An executing run uses more of its budget.
<1>2. ASSUME NEW r \in Runs, NEW n \in 0 .. MaxBudget, n >= run[r].used,
             run' = [run EXCEPT ![r].used = n], run[r].state = "Executing"
      PROVE  RunsProgress
  <2>1. \A x \in Runs : /\ run'[x].state = run[x].state /\ run'[x].limit = run[x].limit
                        /\ run'[x].purpose = run[x].purpose /\ run'[x].pending = run[x].pending
                        /\ 1 .. run[x].used \subseteq 1 .. run'[x].used
    BY <1>0, <1>2 DEF RunRecord
  <2>2. \A x \in Runs : run[x].state # "Executing" => run'[x] = run[x]
    BY <1>0, <1>2
  <2> QED
    BY <2>1, <2>2 DEF RunsProgress
<1>3. ASSUME NEW r \in Runs, BeginPart(r)
      PROVE  RunsProgress
  <2>1. /\ run[r].used + 1 \in 0 .. MaxBudget /\ run[r].used + 1 >= run[r].used
        /\ run[r].state = "Executing" /\ run' = [run EXCEPT ![r].used = run[r].used + 1]
    BY <1>0, <1>3, BoundAssumption DEF BeginPart, ActiveRun
  <2> QED
    BY <1>2, <2>1
<1>4. ASSUME NEW o \in Ops, Submit(o)
      PROVE  RunsProgress
  <2> DEFINE r == RunOf[o]
             n == IF run[r].purpose = "Setup" THEN run[r].used + 1 ELSE run[r].used
  <2>1. /\ n \in 0 .. MaxBudget /\ n >= run[r].used /\ r \in Runs
        /\ run[r].state = "Executing" /\ run' = [run EXCEPT ![r].used = n]
    BY <1>0, <1>4, BoundAssumption DEF Submit, ActiveRun
  <2> HIDE DEF r, n
  <2> QED
    BY <1>2, <2>1
<1>5. ASSUME NEW r \in Runs, NEW part \in 1 .. MaxBudget, CompletePart(r, part)
      PROVE  RunsProgress
  <2> DEFINE done == run[r].done \cup {part}
             finished == done = 1 .. run[r].used /\ run[r].used = run[r].limit
             v == [run[r] EXCEPT !.done = done,
                                 !.state = IF finished THEN "Completed" ELSE run[r].state]
  <2>1. /\ run' = [run EXCEPT ![r] = v]
        /\ mandate' = IF finished
             THEN [mandate EXCEPT ![run[r].mandate].state = "Exhausted"] ELSE mandate
        /\ run[r].purpose = "Production" /\ run[r].state = "Executing"
        /\ run[r].mandate # Nil /\ run[r].mandate \in Attempts
    BY <1>0, <1>5 DEF CompletePart, ActiveRun, RunRecord
  <2>2. /\ v.limit = run[r].limit /\ v.purpose = run[r].purpose /\ v.used = run[r].used
        /\ v.pending = run[r].pending /\ v.mandate = run[r].mandate /\ v.done = done
        /\ v.state = IF finished THEN "Completed" ELSE run[r].state
    BY <1>0 DEF RunRecord
  <2>3. finished => mandate'[run[r].mandate].state = "Exhausted" /\ done = 1 .. run[r].used
    BY <1>0, <2>1 DEF MandateRecord
  <2> HIDE DEF v, finished, done
  <2>4. run'[r] = v /\ \A x \in Runs \ {r} : run'[x] = run[x]
    BY <1>0, <2>1
  <2> QED
    BY <2>1, <2>2, <2>3, <2>4 DEF RunsProgress
<1>6. ASSUME NEW o \in Ops,
             \/ DisputeOperation(o) \/ NoteDeliveryAttention(o)
             \/ \E s \in Status : IngestEvidence(o, s)
      PROVE  RunsProgress
  <2>1. PICK w, p, au : /\ Revises(w, p, au)
                        /\ \/ InvalidateCell(Nil, cell.qualified, w, p, au)
                           \/ Applied(w, p, au)
    BY <1>6, EvidenceRevises
  <2> QED
    BY <1>1, <2>1, InvalidateCellProgress DEF Applied
<1> QED
  BY <1>1, <1>3, <1>4, <1>5, <1>6
     DEF DispatchStep, ResolveActivation, PlanPrepare, PlanAuthorize, ReleaseResources,
         RecordHostReceipt, startVars

\* No step of the platform undoes progress of a run.
LEMMA StepProgress ==
    ASSUME TypeOK, StoredWorkDecodes, AuthorityInv, StartInv, DeliveryInv, Next
    PROVE  RunsProgress
<1>0. PlatformTypeOK
  BY DEF TypeOK
<1>1. CASE UNCHANGED run
  BY <1>1 DEF RunsProgress
<1>2. CASE UNCHANGED platformVars
  BY <1>1, <1>2 DEF platformVars, startVars
<1> QED
  BY <1>0, <1>1, <1>2, StartStepProgress, DispatchStepProgress, CellStepsRevoke,
     InvalidateCellProgress DEF Next

\* A run that is closed stays closed with what it had: the step lemma for
\* ClosingInv.
LEMMA StepClosing ==
    /\ TypeOK /\ StoredWorkDecodes /\ AuthorityInv /\ StartInv /\ DeliveryInv /\ ClosingInv
    /\ [Next]_vars
    => ClosingInv'
<1> SUFFICES ASSUME TypeOK, StoredWorkDecodes, AuthorityInv, StartInv, DeliveryInv, ClosingInv,
                    [Next]_vars
             PROVE  ClosingInv'
  OBVIOUS
<1>1. CASE UNCHANGED vars
  BY <1>1 DEF vars, platformVars, startVars, workVars, ClosingInv, SubmittedHasPart,
              StartedHasLimit, CompletedIsExhausted, AbandonedIsConcluded
<1>2. CASE Next
  <2>0. /\ \A o \in Ops : RunOf[o] \in Runs
        /\ \A r \in Runs : run[r].mandate # Nil => run[r].mandate \in Attempts
    BY SlotAssumption DEF TypeOK, PlatformTypeOK, RunRecord
  <2>1. RunsProgress /\ OutcomesStay /\ SubmissionsHaveParts
    BY <1>2, StepProgress, StepOutcomes, SubmissionsAreOfParts
  <2>2. \A a \in Attempts : mandate[a].state = "Exhausted" => mandate'[a] = mandate[a]
    BY <1>2, StepRevives DEF RevivesNothing
  <2>3. SubmittedHasPart'
    <3> SUFFICES ASSUME NEW o \in Ops, activation'[o] = "Submitted"
                 PROVE  /\ run'[RunOf[o]].limit # 0
                        /\ run'[RunOf[o]].purpose = "Production" =>
                              VisitOf[o] \in 1 .. run'[RunOf[o]].used
      BY DEF SubmittedHasPart
    <3>1. /\ run[RunOf[o]].limit # 0
          /\ run[RunOf[o]].purpose = "Production" => VisitOf[o] \in 1 .. run[RunOf[o]].used
      BY <2>0, <2>1 DEF SubmissionsHaveParts, ClosingInv, SubmittedHasPart, StartedHasLimit
    <3> QED
      BY <2>0, <2>1, <3>1 DEF RunsProgress
  <2>4. StartedHasLimit'
    BY <2>1 DEF RunsProgress, ClosingInv, StartedHasLimit
  <2>5. CompletedIsExhausted'
    BY <2>0, <2>1, <2>2 DEF RunsProgress, ClosingInv, CompletedIsExhausted
  <2>6. AbandonedIsConcluded'
    <3> SUFFICES ASSUME NEW o \in Ops, run'[RunOf[o]].state = "Abandoned",
                        activation'[o] = "Submitted"
                 PROVE  work'[o].outcome # "None"
      BY DEF AbandonedIsConcluded
    <3>1. activation[o] = "Submitted"
      BY <2>1 DEF SubmissionsHaveParts
    <3>2. work[o].outcome # "None"
      BY <2>0, <2>1, <3>1 DEF RunsProgress, ClosingInv, AbandonedIsConcluded
    <3> QED
      BY <2>1, <3>1, <3>2 DEF OutcomesStay
  <2> QED
    BY <2>3, <2>4, <2>5, <2>6 DEF ClosingInv
<1> QED
  BY <1>1, <1>2

\* The facts about closed runs hold in every behaviour.
LEMMA ClosingInvariant ==
    Spec => [](/\ TypeOK /\ StoredWorkDecodes /\ AuthorityInv /\ StartInv
               /\ DeliveryInv /\ HoldsUntilConcluded /\ ClosingInv)
<1>1. Init => ClosingInv
  BY SlotAssumption
     DEF Init, PlatformInit, ClosingInv, SubmittedHasPart, StartedHasLimit,
         CompletedIsExhausted, AbandonedIsConcluded
<1> QED
  BY <1>1, StepClosing, DeliveryInvariant, PTL DEF Spec

(* However many parts, steps and hosts a run has: once it is completed its  *)
(* mandate is used up and every operation it submitted has ended well, so   *)
(* that nothing of it can still act.                                        *)
THEOREM CompletedRunIsAlwaysFinished == Spec => []CompletedRunIsFinished
<1>1. AuthorityInv /\ DeliveryInv /\ ClosingInv => CompletedRunIsFinished
  <2> SUFFICES ASSUME AuthorityInv, DeliveryInv, ClosingInv, NEW r \in Runs,
                      run[r].state = "Completed"
               PROVE  /\ mandate[run[r].mandate].state = "Exhausted"
                      /\ \A o \in Submitted : RunOf[o] = r =>
                            /\ permit[o].state # "Issued"
                            /\ native[o] = "Ended" /\ work[o].outcome = "Succeeded"
    BY DEF CompletedRunIsFinished
  <2>1. /\ mandate[run[r].mandate].state = "Exhausted"
        /\ run[r].purpose = "Production" /\ run[r].done = 1 .. run[r].used
    BY DEF ClosingInv, CompletedIsExhausted
  <2>2. ASSUME NEW o \in Ops, activation[o] = "Submitted", RunOf[o] = r
        PROVE  /\ permit[o].state # "Issued"
               /\ native[o] = "Ended" /\ work[o].outcome = "Succeeded"
    <3>1. VisitOf[o] \in run[r].done
      BY <2>1, <2>2 DEF ClosingInv, SubmittedHasPart
    <3>2. work[o].outcome = "Succeeded"
      BY <2>2, <3>1 DEF AuthorityInv, DoneIsConfirmed
    <3> QED
      BY <3>2 DEF AuthorityInv, SuccessSpendsPermit, DeliveryInv, OutcomeIsProven
  <2> QED
    BY <2>1, <2>2 DEF Submitted
<1> QED
  BY <1>1, ClosingInvariant, PTL

(* Nothing of an abandoned run acts or can begin to act, in whatever order  *)
(* its fences, receipts and delayed requests arrive.                        *)
THEOREM AbandonedRunIsAlwaysInert == Spec => []AbandonedRunIsInert
<1>1. TypeOK /\ AuthorityInv /\ DeliveryInv /\ ClosingInv => AbandonedRunIsInert
  <2> SUFFICES ASSUME TypeOK, AuthorityInv, DeliveryInv, ClosingInv, NEW o \in Ops,
                      run[RunOf[o]].state = "Abandoned"
               PROVE  /\ native[o] # "Sent" /\ permit[o].state # "Issued"
                      /\ ~(o \in authorizeWire /\ native[o] = "Prepared")
    BY DEF AbandonedRunIsInert
  <2>1. permit[o].state # "Issued"
    BY IdleRunHasNoAuthority, SlotAssumption DEF TypeOK
  <2>2. ASSUME native[o] = "Sent" \/ (o \in authorizeWire /\ native[o] = "Prepared")
        PROVE  FALSE
    <3>1. /\ prepareRow[o] \notin {"None", "New", "Voided"}
          /\ authorizeRow[o] \notin {"None", "New", "Voided"}
      BY <2>2 DEF DeliveryInv, UnpreparedIsAbsent, UnauthorizedIsUnsent, SendsAreCounted
    <3>2. activation[o] = "Submitted"
      BY <3>1 DEF DeliveryInv, UnsubmittedIsBlank
    <3>3. work[o].outcome # "None"
      BY <3>2 DEF ClosingInv, AbandonedIsConcluded
    <3> QED
      BY <2>2, <3>1, <3>3 DEF DeliveryInv, OutcomeIsProven
  <2> QED
    BY <2>1, <2>2
<1> QED
  BY <1>1, ClosingInvariant, PTL
=============================================================================
