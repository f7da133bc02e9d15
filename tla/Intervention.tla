----------------------------- MODULE Intervention -----------------------------
(* Intervention cases on a group of cells that share scopes or resources: a   *)
(* case contains the cells, people report their work on them, the lead        *)
(* accounts for everybody and hands over, and a cohort of cases is closed     *)
(* without a restart on a clearance that was prepared before.                 *)
EXTENDS Naturals, FiniteSets

CONSTANTS
  Cells,      \* the connected cells: every case affects all of them
  Cases, People,
  Kinds,      \* the kinds of case that are opened
  Qualities,  \* what reports are like; see Advanced
  Modes,      \* the operating modes the cells may start in
  Doubts,     \* may the scope of a case be uncertain?
  Admitted,   \* are both policies admitted at the start?
  Absent,
  MaxReports, \* reports beyond the ones a closure needs
  MaxHolds    \* invalidations from outside the cases

ASSUME InterventionConstants ==
  /\ Absent \notin Cases \cup People
  /\ Kinds \subseteq {"diagnostic", "recovery", "maintenance"}
  /\ Qualities \subseteq {"sound", "unsound", "uncertain", "misscoped"}
  /\ "sound" \in Qualities
  /\ Modes \subseteq {"setup", "automatic"}
  /\ Doubts \subseteq BOOLEAN /\ Admitted \in BOOLEAN
  /\ MaxReports \in Nat /\ MaxHolds \in Nat

External == {"started", "finished", "isolation", "configuration"}
Actions == External \cup {"entry", "personnel", "handover"}

VARIABLES
  cells,     \* cells[c]: epoch, mode, blocks and open cases
  acked,     \* acked[c]: the epoch every host of c acknowledged the fence of
  case,      \* case[k]: Absent, or the case with its procedure progress
  policy,    \* which policies are admitted, and whether they still verify
  clearance, \* the last clearance prepared and not consumed, or Absent
  spent,     \* reports used of MaxReports
  holds      \* invalidations used of MaxHolds

caseVars == <<cells, acked, case, policy, clearance, spent, holds>>

\* A block is named by its cell, the epoch it was added in and, for the block of
\* a diagnostic case, which adds no epoch, by the case.
Block(c, e, k) == [cell |-> c, at |-> e, of |-> k]

Stranger == [active |-> FALSE, finished |-> FALSE, accounted |-> FALSE, handover |-> FALSE]
Participant == [active : BOOLEAN, finished : BOOLEAN, accounted : BOOLEAN, handover : BOOLEAN]

CaseInit ==
  /\ \E m \in Modes :
       cells = [c \in Cells |-> [epoch |-> 0, mode |-> m, blocks |-> {}, open |-> {}]]
  /\ acked = [c \in Cells |-> 0]
  /\ case = [k \in Cases |-> Absent]
  /\ policy = [procedure |-> Admitted, close |-> Admitted, verified |-> TRUE]
  /\ clearance = Absent
  /\ spent = 0
  /\ holds = 0

----------------------------------------------------------------------------
(* The cells.                                                                *)

\* invalidate_closure: every connected cell enters a new epoch under a block.
Invalidated(cs) ==
  [c \in Cells |->
     [cs[c] EXCEPT !.epoch = @ + 1,
                   !.blocks = @ \cup {Block(c, cs[c].epoch + 1, Absent)}]]

NewBlocks(cs) == {Block(c, cs[c].epoch + 1, Absent) : c \in Cells}

Epochs(cs) == [c \in Cells |-> cs[c].epoch]

\* require_fences: every host acknowledged the present epoch of every cell.
Fenced == \A c \in Cells : acked[c] = cells[c].epoch

ModeOf(kind) == IF kind = "maintenance" THEN "maintenance" ELSE "recovery"

Hold ==
  /\ holds < MaxHolds
  /\ holds' = holds + 1
  /\ cells' = Invalidated(cells)
  /\ UNCHANGED <<acked, case, policy, clearance, spent>>

AckCaseFence(c) ==
  /\ acked[c] # cells[c].epoch
  /\ acked' = [acked EXCEPT ![c] = cells[c].epoch]
  /\ UNCHANGED <<cells, case, policy, clearance, spent, holds>>

----------------------------------------------------------------------------
(* Opening a case, and acknowledging it.                                     *)

OpenCase(k, kind, uncertain) ==
  /\ case[k] = Absent
  /\ LET diagnostic == kind = "diagnostic"
         held  == IF diagnostic
                  THEN [c \in Cells |-> [cells[c] EXCEPT
                         !.blocks = @ \cup {Block(c, cells[c].epoch, k)}]]
                  ELSE [c \in Cells |-> [Invalidated(cells)[c] EXCEPT !.mode = ModeOf(kind)]]
     IN /\ cells' = [c \in Cells |-> [held[c] EXCEPT !.open = @ \cup {k}]]
        /\ case' = [case EXCEPT ![k] =
             [kind |-> kind,
              state |-> IF diagnostic THEN "open" ELSE "containment",
              blocks |-> IF diagnostic THEN {Block(c, cells[c].epoch, k) : c \in Cells}
                                       ELSE NewBlocks(cells),
              uncertain |-> uncertain,
              entry |-> FALSE, context |-> Absent,
              participants |-> {}, people |-> [p \in People |-> Stranger],
              personnel |-> FALSE, handover |-> FALSE,
              changed |-> FALSE, rev |-> 1]]
  /\ UNCHANGED <<acked, policy, clearance, spent, holds>>

AcknowledgeCase(k) ==
  /\ case[k] # Absent
  /\ spent < MaxReports
  /\ case' = [case EXCEPT ![k].rev = @ + 1]
  /\ spent' = spent + 1
  /\ UNCHANGED <<cells, acked, policy, clearance, holds>>

AdmitProcedure ==
  /\ policy.verified /\ ~policy.procedure
  /\ policy' = [policy EXCEPT !.procedure = TRUE]
  /\ UNCHANGED <<cells, acked, case, clearance, spent, holds>>

AdmitClosePolicy ==
  /\ policy.verified /\ policy.procedure /\ ~policy.close
  /\ policy' = [policy EXCEPT !.close = TRUE]
  /\ UNCHANGED <<cells, acked, case, clearance, spent, holds>>

\* The authority no longer verifies the policies of this configuration.
Withdraw ==
  /\ policy.procedure
  /\ policy' = [policy EXCEPT !.verified = FALSE]
  /\ UNCHANGED <<cells, acked, case, clearance, spent, holds>>

----------------------------------------------------------------------------
(* Procedure reports.  A report is recorded whatever it says; only the        *)
(* promotion of the case may be refused.                                      *)

Done(k) == \A p \in k.participants :
             ~k.people[p].active /\ k.people[p].finished
             /\ k.people[p].accounted /\ k.people[p].handover

\* A slip for the mutation runs: a diagnostic case that was worked on stays open.
RecordedOpen(k, p, a, certain) ==
  IF a \notin External THEN k
  ELSE [k EXCEPT !.kind = IF @ = "diagnostic" THEN "recovery" ELSE @,
                 !.state = IF @ = "closed" THEN "containment" ELSE @,
                 !.personnel = FALSE, !.handover = FALSE,
                 !.blocks = @ \cup NewBlocks(cells)]

\* What the facts of a report do to the case before any promotion.
Recorded(k, p, a, certain) ==
  IF a \notin External THEN k
  ELSE LET told == [q \in People |-> [k.people[q] EXCEPT !.accounted = FALSE, !.handover = FALSE]]
           people == CASE a = "started" -> [told EXCEPT ![p] = [Stranger EXCEPT !.active = TRUE]]
                       [] a = "finished" /\ certain /\ p \in k.participants ->
                            [told EXCEPT ![p].active = FALSE, ![p].finished = TRUE]
                       [] OTHER -> told
           upset == k.state = "closed" \/ a \in {"isolation", "configuration"}
       IN [k EXCEPT !.people = people,
                    !.participants = IF a = "started" THEN @ \cup {p} ELSE @,
                    !.personnel = FALSE, !.handover = FALSE,
                    !.kind = IF @ = "diagnostic" THEN "recovery" ELSE @,
                    !.state = IF upset \/ k.kind = "diagnostic" THEN "containment" ELSE @,
                    !.entry = IF upset THEN FALSE ELSE @,
                    !.changed = @ \/ a = "configuration",
                    !.blocks = @ \cup NewBlocks(cells)]

\* latch: the invalidation, and the membership of a case that had none.  The
\* mode is written with the membership only.
Latched(k) ==
  [c \in Cells |->
     IF k \in cells[c].open THEN Invalidated(cells)[c]
     ELSE [Invalidated(cells)[c] EXCEPT !.open = @ \cup {k}, !.mode = ModeOf(case[k].kind)]]

Refused(k) == [case |-> k, ok |-> FALSE]
Accepted(k) ==
  [case |-> IF k.participants # {} /\ Done(k) THEN [k EXCEPT !.state = "revalidating"] ELSE k,
   ok |-> TRUE]

\* What the action itself requires, and what it changes.  `seen` says whether
\* the roll call or handover was observed after the last physical report.
Step(k, p, a, seen, epochs) ==
  CASE a = "entry" ->
         IF /\ ~k.changed /\ k.kind # "diagnostic" /\ Fenced
            /\ k.state \in {"containment", "revalidating"}
         THEN Accepted([k EXCEPT !.entry = TRUE, !.context = epochs, !.state = "active"])
         ELSE Refused(k)
    [] a = "started" ->
         IF k.state = "active" /\ k.entry
         THEN Accepted([k EXCEPT !.context = epochs]) ELSE Refused(k)
    [] a = "finished" ->
         IF k.state = "active" /\ p \in k.participants
         THEN Accepted([k EXCEPT !.context = epochs,
                                 !.people[p].active = FALSE, !.people[p].finished = TRUE])
         ELSE Refused(k)
    [] a \in {"personnel", "handover"} ->
         IF /\ k.participants # {}
            /\ \A q \in k.participants : ~k.people[q].active /\ k.people[q].finished
         THEN Accepted(IF a = "personnel"
                THEN [k EXCEPT !.personnel = seen,
                               !.people = [q \in People |-> [@[q] EXCEPT
                                             !.accounted = q \in k.participants]]]
                ELSE [k EXCEPT !.handover = seen,
                               !.people = [q \in People |-> [@[q] EXCEPT
                                             !.handover = q \in k.participants]]])
         ELSE Refused(k)
    [] OTHER ->
         Accepted([k EXCEPT !.state = IF @ = "active" THEN @ ELSE "containment"])

\* advance: the current policy, the entry context, the quality of the report.
\* A sound report has the right step, actor (the lead, where the lead must
\* report), age and evidence; an uncertain one says so, a misscoped one names
\* other scopes than the case has.
Advanced(k, p, a, quality, seen, before, epochs) ==
  CASE ~policy.procedure -> Refused([k EXCEPT !.state = "escalated", !.entry = FALSE])
    [] policy.procedure /\ (k.kind = "diagnostic" \/ quality = "misscoped") -> Refused(k)
    [] policy.procedure /\ k.kind # "diagnostic" /\ quality # "misscoped" ->
       CASE ~policy.verified -> Refused([k EXCEPT !.state = "escalated", !.entry = FALSE])
         [] policy.verified /\ a \in {"started", "finished"} /\ k.context # before ->
              Refused([k EXCEPT !.state = "containment", !.entry = FALSE])
         [] policy.verified /\ ~(a \in {"started", "finished"} /\ k.context # before) ->
              IF quality = "sound" THEN Step(k, p, a, seen, epochs) ELSE Refused(k)

\* record_procedure: the facts, the promotion unless the case was closed or the
\* request stale, and what a refused start of work leaves behind.
Reported(k, p, a, quality, seen, stale) ==
  LET external == a \in External
      facts    == Recorded(case[k], p, a, quality # "uncertain")
      before   == Epochs(cells)
      epochs   == Epochs(IF external THEN Invalidated(cells) ELSE cells)
      step     == IF case[k].state = "closed" \/ stale THEN Refused(facts)
                  ELSE Advanced(facts, p, a, quality, seen, before, epochs)
      settled  == IF stale /\ external
                  THEN [step.case EXCEPT !.state = "containment", !.entry = FALSE]
                  ELSE step.case
      final    == IF ~step.ok /\ a = "started" /\ settled.state # "active"
                  THEN [settled EXCEPT !.state = "escalated"] ELSE settled
  IN [final EXCEPT !.rev = @ + 1]

\* A report that a closure waits for, while the policies verify: not counted
\* against MaxReports.
Needed(k, p, a) ==
  /\ policy.procedure /\ policy.verified
  /\ \/ a = "finished" /\ case[k].people[p].active
     \/ /\ a \in {"personnel", "handover"} /\ case[k].participants # {}
        /\ \A q \in case[k].participants : case[k].people[q].finished
        /\ \/ ~(IF a = "personnel" THEN case[k].personnel ELSE case[k].handover)
           \/ /\ case[k].personnel /\ case[k].handover
              /\ case[k].state \notin {"revalidating", "closed"}

Report(k, p, a, quality, seen, stale) ==
  /\ case[k] # Absent
  /\ ~seen => a \in {"personnel", "handover"}
  /\ LET needed == Needed(k, p, a) /\ quality = "sound" /\ seen /\ ~stale
     IN /\ needed \/ spent < MaxReports
        /\ spent' = IF needed THEN spent ELSE spent + 1
  /\ case' = [case EXCEPT ![k] = Reported(k, p, a, quality, seen, stale)]
  /\ cells' = IF a \in External THEN Latched(k) ELSE cells
  /\ UNCHANGED <<acked, policy, clearance, holds>>

\* A record identifier comes back with other content: the case is latched and
\* escalated, its progress left as it was.
ConflictingReport(k) ==
  /\ case[k] # Absent
  /\ spent < MaxReports
  /\ cells' = Latched(k)
  /\ case' = [case EXCEPT ![k].blocks = @ \cup NewBlocks(cells),
                          ![k].state = "escalated", ![k].rev = @ + 1]
  /\ spent' = spent + 1
  /\ UNCHANGED <<acked, policy, clearance, holds>>

----------------------------------------------------------------------------
(* Closing without a restart.                                                *)

Verified(k) ==
  /\ case[k] # Absent
  /\ case[k].state = "revalidating" /\ ~case[k].uncertain /\ ~case[k].changed
  /\ case[k].participants # {} /\ Done(case[k])
  /\ case[k].personnel /\ case[k].handover
  /\ policy.procedure /\ policy.close /\ policy.verified
  /\ Fenced

Revisions(cohort) == [k \in cohort |-> case[k].rev]

PrepareClose(cohort) ==
  /\ \A k \in cohort : Verified(k)
  /\ clearance' = [revs |-> Revisions(cohort), contexts |-> cells]
  /\ clearance' # clearance
  /\ UNCHANGED <<cells, acked, case, policy, spent, holds>>

\* The blocks of the cohort that no other open case refers to.
Removable(cohort) ==
  (UNION {case[k].blocks : k \in cohort})
    \ (UNION {case[k].blocks : k \in {j \in Cases \ cohort :
                                        case[j] # Absent /\ case[j].state # "closed"}})

\* The cases and the cells are as they were when the clearance was prepared.
Unmoved(cohort) ==
  /\ DOMAIN clearance.revs = cohort
  /\ clearance.revs = Revisions(cohort)
  /\ clearance.contexts = cells

CloseWithoutRestart(cohort) ==
  /\ clearance # Absent
  /\ Unmoved(cohort)
  /\ \A k \in cohort : Verified(k)
  /\ cells' = [c \in Cells |-> [Invalidated(cells)[c] EXCEPT
                 !.mode = "maintenance",
                 !.blocks = @ \ Removable(cohort),
                 !.open = @ \ cohort]]
  /\ case' = [k \in Cases |->
                IF k \in cohort THEN [case[k] EXCEPT !.state = "closed", !.rev = @ + 1]
                ELSE case[k]]
  /\ clearance' = Absent
  /\ UNCHANGED <<acked, policy, spent, holds>>

----------------------------------------------------------------------------
Cohorts == (SUBSET Cases) \ {{}}

CaseNext ==
  \/ \E k \in Cases, kind \in Kinds, u \in Doubts : OpenCase(k, kind, u)
  \/ \E k \in Cases : AcknowledgeCase(k) \/ ConflictingReport(k)
  \/ \E k \in Cases, p \in People, a \in Actions, q \in Qualities, seen, stale \in BOOLEAN :
       Report(k, p, a, q, seen, stale)
  \/ AdmitProcedure \/ AdmitClosePolicy \/ Withdraw
  \/ Hold \/ \E c \in Cells : AckCaseFence(c)
  \/ \E cohort \in Cohorts : PrepareClose(cohort) \/ CloseWithoutRestart(cohort)

CaseSpec == CaseInit /\ [][CaseNext]_caseVars

----------------------------------------------------------------------------
States == {"open", "containment", "active", "revalidating", "escalated", "closed"}

Blocks == [cell : Cells, at : Nat, of : Cases \cup {Absent}]

CaseCell ==
  [epoch : Nat, mode : {"setup", "automatic", "recovery", "maintenance"},
   blocks : SUBSET Blocks, open : SUBSET Cases]

CaseRecord ==
  [kind : {"diagnostic", "recovery", "maintenance"}, state : States,
   blocks : SUBSET Blocks, uncertain : BOOLEAN, entry : BOOLEAN,
   context : [Cells -> Nat] \cup {Absent}, participants : SUBSET People,
   people : [People -> Participant], personnel : BOOLEAN, handover : BOOLEAN,
   changed : BOOLEAN, rev : Nat]

\* Types.  A case without work is diagnostic, nothing is known of people who
\* take no part in it, and no fence is acknowledged before it is set.
CaseTypeOK ==
  /\ cells \in [Cells -> CaseCell]
  /\ acked \in [Cells -> Nat] /\ \A c \in Cells : acked[c] <= cells[c].epoch
  /\ case \in [Cases -> CaseRecord \cup {Absent}]
  /\ \A k \in Cases : case[k] # Absent =>
       /\ (case[k].state = "open") => case[k].kind = "diagnostic"
       /\ \A p \in People \ case[k].participants : case[k].people[p] = Stranger
  /\ policy \in [procedure : BOOLEAN, close : BOOLEAN, verified : BOOLEAN]
  /\ clearance # Absent => clearance.contexts \in [Cells -> CaseCell]
  /\ spent \in 0..MaxReports /\ holds \in 0..MaxHolds

\* A case that is not closed is a member of every connected cell and has a block
\* of its own on it, and anybody reported at work is at work in such a case,
\* whatever order reports, closures and late reports come in
\* (procedure.rs latch, closure.rs close_without_restart).
NobodyWorksUncontained ==
  \A k \in Cases : case[k] # Absent =>
    IF case[k].state # "closed"
    THEN \A c \in Cells : k \in cells[c].open /\ case[k].blocks \cap cells[c].blocks # {}
    ELSE \A p \in People : ~case[k].people[p].active

\* After a case was closed its cells stay blocked: a closure never hands a cell
\* back to production (the OUT_OF_SERVICE block of close_without_restart).
ClosedCellStaysBlocked ==
  \A k \in Cases : case[k] # Absent /\ case[k].state = "closed" =>
    \A c \in Cells : \E b \in cells[c].blocks : b \notin case[k].blocks

\* What reports, policies and closures keep in any order (record_procedure,
\* close_without_restart): a case that is not closed contains its cells, a closed
\* one has nobody left at work and its cells stay blocked.
InterventionIsSound == CaseTypeOK /\ NobodyWorksUncontained /\ ClosedCellStaysBlocked
=============================================================================
