------------------------------ MODULE RunStart ------------------------------
(***************************************************************************)
(* Starting, pausing and abandoning runs: an operator's start request, one *)
(* Arm delivery per host, the acknowledgments and the mandate they create. *)
(*                                                                         *)
(* Source: crates/rx-application/src/engine/{workflow,operator_start,      *)
(* pause,delivery}.rs.  A mandate is identified by the attempt that        *)
(* created it.                                                             *)
(***************************************************************************)
EXTENDS CellState

CreateRun(r) ==
    /\ RequireServing
    /\ run[r].state = "None"
    /\ run' = [run EXCEPT ![r].state = "Prepared"]
    /\ UNCHANGED <<runtimeVars, cellVars, attempt, mandate, armRow, workVars,
                   fenceRow, ingested>>

\* A first start fixes purpose and budget; a later one must repeat them.
StartCandidate(r, purpose, limit) ==
    /\ run[r].state = "Prepared" /\ run[r].pending = Nil
    /\ \A other \in Runs \ {r} :
          run[other].state = "Executing" => run[other].purpose = purpose
    /\ run[r].limit # 0 => run[r].limit = limit /\ run[r].purpose = purpose
    /\ Ready
    /\ executor.live
    /\ \A h \in Hosts : PreparedHost(h)

StartRun(r, a, purpose, limit) ==
    /\ StartCandidate(r, purpose, limit)
    /\ attempt[a].status = "None"
    /\ attempt' = [attempt EXCEPT ![a] =
          [status |-> "Arming", run |-> r, epoch |-> cell.epoch,
           revision |-> cell.revision, session |-> executor.session, acks |-> {}]]
    /\ run' = [run EXCEPT ![r] =
          [@ EXCEPT !.limit = limit, !.purpose = purpose, !.pending = a]]
    /\ armRow' = [x \in Attempts \X Hosts |-> IF x[1] = a THEN "New" ELSE armRow[x]]
    /\ UNCHANGED <<runtimeVars, cellVars, mandate, workVars, fenceRow, ingested>>

\* plan_delivery of an Arm: validated on every emission, entered on the first.
PlanArm(a, h) ==
    /\ armRow[<<a, h>>] = "New"
    /\ host[h].registration = "Live"
    /\ Ready /\ attempt[a].status = "Arming"
    /\ armRow' = [armRow EXCEPT ![<<a, h>>] = "EmitEntered"]
    /\ UNCHANGED <<runtimeVars, cellVars, run, attempt, mandate, workVars,
                   fenceRow, ingested>>

FinishArmOutbox(a, h) ==
    /\ armRow[<<a, h>>] \in {"EmitEntered", "Delivered"}
    /\ armRow' = [armRow EXCEPT ![<<a, h>>] = "Delivered"]

\* A slip for the mutation runs: the cell revision is not compared.
AttemptStaleIgnoringCell(a) ==
    \/ run[attempt[a].run].state # "Prepared"
    \/ run[attempt[a].run].pending # a

\* The attempt no longer describes the cell and the run it was made for.
AttemptStale(a) ==
    \/ cell.revision # attempt[a].revision
    \/ run[attempt[a].run].state # "Prepared"
    \/ run[attempt[a].run].pending # a

\* A slip for the mutation runs: the run keeps waiting for the attempt.
RejectAttemptOnly(a) ==
    /\ attempt' = [attempt EXCEPT ![a].status = "Rejected"]
    /\ UNCHANGED <<cell, run, mandate>>

RejectAttempt(a) ==
    /\ attempt' = [attempt EXCEPT ![a].status = "Rejected"]
    /\ run' = IF run[attempt[a].run].pending = a
                THEN [run EXCEPT ![attempt[a].run].pending = Nil] ELSE run
    /\ UNCHANGED <<cell, mandate>>

\* The last acknowledgment creates the mandate and saves the cell.
CreateMandate(a, h) ==
    LET r == attempt[a].run
    IN  /\ cell.revision < MaxRevision
        /\ attempt' = [attempt EXCEPT ![a] =
              [@ EXCEPT !.acks = attempt[a].acks \cup {h}, !.status = "Started"]]
        /\ mandate' = [mandate EXCEPT ![a] =
              [state |-> "Active", epoch |-> cell.epoch, session |-> executor.session]]
        /\ cell' = [cell EXCEPT !.revision = @ + 1,
                                !.mode = IF run[r].purpose = "Production"
                                           THEN "Automatic" ELSE "Setup"]
        /\ run' = [run EXCEPT ![r] =
              [@ EXCEPT !.state = "Executing", !.pending = Nil,
                        !.session = executor.session, !.mandate = a]]

\* A slip for the mutation runs: one acknowledgment is enough.
AnyAcknowledged(a, h) == h \in Hosts

AllAcknowledged(a, h) == attempt[a].acks \cup {h} = Hosts

AcceptAcknowledgment(a, h) ==
    /\ Ready
    /\ executor.live /\ attempt[a].session = executor.session
    /\ \A g \in Hosts : PreparedHost(g)
    /\ IF AllAcknowledged(a, h)
         THEN CreateMandate(a, h)
         ELSE /\ attempt' = [attempt EXCEPT ![a].acks = @ \cup {h}]
              /\ UNCHANGED <<cell, run, mandate>>

\* acknowledge_arm_delivery.  The start timeout may have passed (expired).
AcknowledgeArm(a, h, expired) ==
    /\ host[h].registration = "Live"
    /\ \/ attempt[a].status = "Arming"
          /\ IF AttemptStale(a) \/ expired
               THEN RejectAttempt(a) ELSE AcceptAcknowledgment(a, h)
       \* The run has started: the late acknowledgment only closes its row.
       \/ attempt[a].status = "Started" /\ UNCHANGED <<cell, run, attempt, mandate>>
    /\ FinishArmOutbox(a, h)
    /\ UNCHANGED <<runtimeVars, host, workVars, fenceRow, ingested>>

\* Pausing a run that executes or is starting revokes the cell's authority;
\* a prepared run that never asked to start is only marked.
PauseRun(r) ==
    /\ executor.live
    /\ \/ /\ \/ run[r].state = "Executing" /\ run[r].session = executor.session
             \/ run[r].state = "Prepared" /\ run[r].pending # Nil
          /\ Invalidate(r)
          /\ UNCHANGED <<runtimeVars, host>>
       \/ /\ run[r].state = "Prepared" /\ run[r].pending = Nil
          /\ run' = [run EXCEPT ![r].state = "Paused"]
          /\ UNCHANGED <<runtimeVars, cellVars, attempt, mandate, armRow, workVars,
                         fenceRow, ingested>>

\* A slip for the mutation runs: open operations do not keep a run.
AbandonRunAtOnce(r) ==
    /\ RequireServing
    /\ run[r].state \in {"Paused", "RecoveryRequired"}
    /\ run' = [run EXCEPT ![r] = [@ EXCEPT !.state = "Abandoned", !.session = 0]]
    /\ UNCHANGED <<runtimeVars, cellVars, attempt, mandate, armRow, workVars,
                   fenceRow, ingested>>

AbandonRun(r) ==
    /\ RequireServing
    /\ \/ run[r].state = "Prepared" /\ run[r].pending = Nil
       \/ run[r].state \in {"Paused", "RecoveryRequired"}
    /\ \A a \in Attempts :
          attempt[a].run = r => mandate[a].state # "Active" /\ attempt[a].status # "Arming"
    /\ \A o \in Submitted :
          /\ permit[o].state = "Issued" =>
                permit[o].mandate = Nil \/ attempt[permit[o].mandate].run # r
          /\ RunOf[o] = r => work[o].outcome # "None"
    /\ run' = [run EXCEPT ![r] = [@ EXCEPT !.state = "Abandoned", !.session = 0]]
    /\ UNCHANGED <<runtimeVars, cellVars, attempt, mandate, armRow, workVars,
                   fenceRow, ingested>>
=============================================================================
