---------------------- MODULE QualificationActivation ----------------------
(***************************************************************************)
(* Putting an approved requalification into force: a batch is issued, a    *)
(* worker brings it to every host and looks for its receipt, and a second  *)
(* decision activates it, qualifies the cell and lifts the blocks.         *)
(* Whatever breaks the proof suspends the batch.                           *)
(*                                                                         *)
(* Source: crates/rx-application/src/engine/qualification_activation/*.rs, *)
(* engine/mod.rs (open), rx-host-client/src/qualification_worker.rs.       *)
(* `busy` stands for everything `quiet` looks at: live runs, operations    *)
(* without an outcome, held resources and open cases of the cell.          *)
(***************************************************************************)
EXTENDS Requalification

CONSTANTS
    MaxBatches      \* bound: batches

ASSUME QualificationConstants == MaxBatches \in Nat /\ Nil \notin People

Batches == 1..MaxBatches

VARIABLES
    batch,      \* [Batches -> record]
    task,       \* [Batches -> [Hosts -> record]]
    reads,      \* in memory: fresh observations, a set of <<batch, host>>
    network,    \* requests on their way: a set of <<batch, host>>
    receipt,    \* external: [Hosts -> [Batches -> "None" | "Accepted" | "Refused"]]
    busy        \* the cell has unfinished work

activationVars == <<batch, task, reads, network, receipt, busy>>
vars == <<restrictionVars, reviewVars, activationVars>>

NoBatch == [state |-> "None", job |-> 0, boot |-> 0, epoch |-> 0, revision |-> 0, clear |-> {}]
NoTask == [gen |-> 0, phase |-> "None", receipt |-> "None", matches |-> FALSE,
           disputed |-> FALSE, issue |-> "None"]

Init ==
    /\ RestrictionInit /\ ReviewInit
    /\ batch = [b \in Batches |-> NoBatch]
    /\ task = [b \in Batches |-> [h \in Hosts |-> NoTask]]
    /\ reads = {} /\ network = {}
    /\ receipt = [h \in Hosts |-> [b \in Batches |-> "None"]]
    /\ busy = FALSE

Generation(b, h) == link[h].gen = task[b][h].gen

\* quiet: no live run, open outcome, held resource or open case.
Quiet == ~busy

\* pending_current.
PendingCurrent(b) ==
    /\ batch[b].state = "Pending" /\ batch[b].boot = boot
    /\ batch[b].job = JobCount /\ JobCurrent /\ Approved(batch[b].job)
    /\ FencesConfirmed(job.epoch) /\ Quiet

\* owned_clear: blocks of the cell that the change owns; one with an origin
\* only if the request selected it.
OwnedClear(S) ==
    /\ S \subseteq cell.blocks
    /\ \A n \in S : block[n].owned /\ (HasOrigin(n) => n \in job.selected)

\* active_current, the part of check_ready for a certified cell.
ActiveCurrent(b) ==
    /\ batch[b].state = "Active" /\ batch[b].boot = boot /\ Approved(batch[b].job)
    /\ cell.epoch = batch[b].epoch /\ cell.batch = b
    /\ \A h \in Hosts : /\ ~task[b][h].disputed /\ task[b][h].issue = "None"
                        /\ Generation(b, h) /\ task[b][h].matches

\* check_ready, and no block left: the cell may run.
CellReady == serving /\ cell.batch # 0 /\ cell.blocks = {} /\ ActiveCurrent(cell.batch)

-----------------------------------------------------------------------------
(* suspend.  R is the state it works on: cell, block, batch and change.     *)
Suspended(R, b, reason) ==
    LET n == Len(R.block) + 1
        lost == R.cell.batch = b \/ ( /\ R.batch[b].state = "Pending"
                                      /\ R.batch[b].boot = boot
                                      /\ R.cell.epoch = R.batch[b].epoch )
    IN  [batch |-> [R.batch EXCEPT ![b].state = "Suspended", ![b].revision = @ + 1],
         cell |-> IF lost THEN [Invalidated(R.cell, n) EXCEPT !.batch = IF @ = b THEN 0 ELSE @]
                  ELSE R.cell,
         block |-> IF lost THEN Append(R.block, NewBlock(reason, TRUE, NoOrigin)) ELSE R.block,
         change |-> IF R.change.state = "QualifiedActive" /\ R.change.batch = b
                      THEN [R.change EXCEPT !.state = "AppliedUnqualified", !.revision = @ + 1]
                      ELSE R.change]

Present == [cell |-> cell, block |-> block, batch |-> batch, change |-> change]

\* Suspend the batches in S (at most one is Active), starting from R.
SuspendAll(R, S) ==
    LET f[k \in 0..MaxBatches] ==
            IF k = 0 THEN R
            ELSE IF k \in S THEN Suspended(f[k - 1], k, "revoked") ELSE f[k - 1]
    IN  f[MaxBatches]

Becomes(R) ==
    /\ cell' = R.cell /\ block' = R.block /\ batch' = R.batch /\ change' = R.change

ActiveBatches == {b \in Batches : batch[b].state = "Active"}
OpenBatches == {b \in Batches : batch[b].state \in {"Pending", "Active"}}

\* suspend_changed_roots after the policy became p under runtime boot t.
ChangedRoots(p, t) ==
    {b \in ActiveBatches :
        batch[b].boot # t \/ p.boot # t \/ batch[b].job # JobCount \/ job.policy # p.version}

\* configure_requalification: registered anew at every boot.
ConfigureRequalification(v) ==
    LET p == [boot |-> boot, version |-> v]
    IN  /\ p # policy
        /\ IF PolicyCurrent THEN Fault ELSE UNCHANGED faults
        /\ policy' = p
        /\ Becomes(SuspendAll(Present, ChangedRoots(p, boot)))
        /\ UNCHANGED <<boot, serving, host, producer, link, ack, job, ticket,
                       task, reads, network, receipt, busy>>

\* A slip for the mutation runs: the certificate survives the restart.
RestartCertified ==
    /\ serving => faults < MaxFaults
    /\ faults' = IF serving THEN faults + 1 ELSE faults
    /\ boot' = boot + 1 /\ serving' = TRUE
    /\ Invalidate(NewBlock("restart", FALSE, RestartOrigin))
    /\ ticket' = Nil /\ reads' = {}
    /\ network' = {}
    /\ UNCHANGED <<host, producer, link, ack, policy, change, job, batch, task, receipt, busy>>

\* Engine::open after a crash or a stop: the certificate is withdrawn, the
\* cell restricted, and whatever was active under the old boot suspended.
Restart ==
    LET n == Len(block) + 1
        c == [Invalidated(cell, n) EXCEPT !.batch = 0]
        R == [Present EXCEPT
                !.cell = c,
                !.block = Append(block, NewBlock("restart", cell.batch # 0, RestartOrigin))]
    IN  /\ serving => faults < MaxFaults
        /\ faults' = IF serving THEN faults + 1 ELSE faults
        /\ boot' = boot + 1 /\ serving' = TRUE
        /\ Becomes(SuspendAll(R, ChangedRoots(policy, boot + 1)))
        /\ ticket' = Nil /\ reads' = {}
        /\ network' = {}
        /\ UNCHANGED <<host, producer, link, ack, policy, job, task, receipt, busy>>

\* open_executor_peer: the cell is invalidated; an active batch makes the
\* new block its change's, and every open batch of the cell is suspended.
ReplaceExecutor ==
    LET n == Len(block) + 1
        owned == \E b \in ActiveBatches : batch[b].boot = boot /\ cell.batch = b
        R == [Present EXCEPT
                !.cell = Invalidated(cell, n),
                !.block = Append(block, NewBlock("revoked", owned, NoOrigin))]
    IN  /\ serving /\ Fault
        /\ Becomes(SuspendAll(R, OpenBatches))
        /\ UNCHANGED <<boot, serving, host, producer, link, ack, policy, job, ticket,
                       task, reads, network, receipt, busy>>

\* suspend_qualification by an operator.
SuspendQualification(b) ==
    /\ batch[b].state \in {"Pending", "Active"} /\ Fault
    /\ Becomes(SuspendAll(Present, {b}))
    /\ UNCHANGED <<boot, serving, host, producer, link, ack, policy, job, ticket,
                   task, reads, network, receipt, busy>>

-----------------------------------------------------------------------------

\* A task that was sent and never answered, or contradicts itself.
Unproven(b) ==
    \E h \in Hosts : /\ task[b][h].phase = "SendEntered"
                     /\ task[b][h].receipt = "None" \/ task[b][h].disputed

\* What prepare_qualification_issue and again its commit require.  A batch
\* of this report and decision exists once.
IssueAllowed(clear) ==
    /\ serving
    /\ JobCurrent /\ Approved(job.id) /\ Quiet /\ FencesConfirmed(job.epoch)
    /\ \A a \in Batches : batch[a].job # job.id
    /\ \A a \in Batches : ~Unproven(a)
    /\ OwnedClear(clear)

\* commit_qualification_issue: the batch and a task for every host.
CommitIssue(b, clear) ==
    /\ batch[b].state = "None" /\ \A a \in 1..(b - 1) : batch[a].state # "None"
    /\ IssueAllowed(clear)
    /\ batch' = [batch EXCEPT ![b] =
           [state |-> "Pending", job |-> job.id, boot |-> boot, epoch |-> job.epoch,
            revision |-> 1, clear |-> clear]]
    /\ task' = [task EXCEPT ![b] =
           [h \in Hosts |-> [NoTask EXCEPT !.gen = link[h].gen, !.phase = "AwaitingSnapshot"]]]
    /\ UNCHANGED <<restrictionVars, reviewVars, reads, network, receipt, busy>>

\* Another issue of the same batch: the sender is taken over.
TakeOverSender(b) ==
    /\ serving /\ PendingCurrent(b) /\ batch[b].revision < 2
    /\ batch' = [batch EXCEPT ![b].revision = @ + 1]
    /\ UNCHANGED <<restrictionVars, reviewVars, task, reads, network, receipt, busy>>

\* bind_qualification_request: the host shows the state the request is for.
BindRequest(b, h) ==
    /\ task[b][h].phase = "AwaitingSnapshot"
    /\ PendingCurrent(b) /\ Generation(b, h)
    /\ host[h].gen = task[b][h].gen /\ host[h].epoch = batch[b].epoch
    /\ task' = [task EXCEPT ![b][h].phase = "Prepared", ![b][h].issue = "None"]
    /\ UNCHANGED <<restrictionVars, reviewVars, batch, reads, network, receipt, busy>>

\* enter_qualification_send: once, and again only when a lookup found that
\* the host has no receipt.
EnterSend(b, h) ==
    /\ \/ task[b][h].phase = "Prepared"
       \/ task[b][h].phase = "SendEntered" /\ task[b][h].issue = "ReceiptMissing"
    /\ PendingCurrent(b) /\ Generation(b, h)
    /\ ~task[b][h].disputed /\ task[b][h].receipt = "None"
    /\ task' = [task EXCEPT ![b][h].phase = "SendEntered", ![b][h].issue = "None"]
    /\ network' = network \cup {<<b, h>>}
    /\ UNCHANGED <<restrictionVars, reviewVars, batch, reads, receipt, busy>>

\* qualification_issue: the worker could not reach the host or was refused.
RecordIssue(b, h) ==
    /\ task[b][h].phase # "None" /\ ~task[b][h].disputed
    /\ batch[b].state # "Suspended" /\ task[b][h].issue # "Other"
    /\ Fault
    /\ task' = [task EXCEPT ![b][h].issue = "Other"]
    /\ UNCHANGED <<boot, serving, cell, block, host, producer, link, ack, reviewVars,
                   batch, reads, network, receipt, busy>>

\* The host answers a request once and for ever, by its own state.
HostReceives(b, h) ==
    /\ <<b, h>> \in network /\ network' = network \ {<<b, h>>}
    /\ receipt' = [receipt EXCEPT ![h][b] =
           IF @ # "None" THEN @
           ELSE IF host[h].gen = task[b][h].gen /\ host[h].epoch = batch[b].epoch
                  THEN "Accepted" ELSE "Refused"]
    /\ UNCHANGED <<restrictionVars, reviewVars, batch, task, reads, busy>>

LoseRequest(b, h) ==
    /\ <<b, h>> \in network /\ network' = network \ {<<b, h>>}
    /\ UNCHANGED <<restrictionVars, reviewVars, batch, task, reads, receipt, busy>>

HostLosesJournal(h) ==
    /\ Fault
    /\ host' = [host EXCEPT ![h].gen = @ + 1]
    /\ receipt' = [receipt EXCEPT ![h] = [b \in Batches |-> "None"]]
    /\ UNCHANGED <<boot, serving, cell, block, producer, link, ack, reviewVars,
                   batch, task, reads, network, busy>>

\* receipt_matches_current_host, as the host reports it.
HostMatches(b, h) ==
    /\ receipt[h][b] = "Accepted"
    /\ host[h].gen = task[b][h].gen /\ host[h].epoch = batch[b].epoch

\* The task after a lookup (record_qualification_observation).
Seen(b, h) ==
    LET t == task[b][h]
        disputed == t.disputed \/ (t.receipt # "None" /\ receipt[h][b] # t.receipt)
        issue == CASE disputed -> "Mismatch"
                   [] ~disputed /\ host[h].gen # t.gen -> "GenerationChanged"
                   [] ~disputed /\ host[h].gen = t.gen /\ host[h].epoch # batch[b].epoch ->
                          "Mismatch"
                   [] ~disputed /\ host[h].gen = t.gen /\ host[h].epoch = batch[b].epoch ->
                          IF receipt[h][b] = "None" THEN "ReceiptMissing" ELSE "None"
    IN  [t EXCEPT !.disputed = disputed, !.issue = issue, !.matches = HostMatches(b, h),
                  !.receipt = IF @ = "None" THEN receipt[h][b] ELSE @]

Observe(b, h) ==
    /\ task[b][h].phase = "SendEntered" /\ ~task[b][h].disputed
    /\ batch[b].state # "Suspended" \/ task[b][h].receipt = "None"
    /\ task' = [task EXCEPT ![b][h] = Seen(b, h)]
    /\ reads' = reads \cup {<<b, h>>}
    /\ Becomes(SuspendAll(Present,
           IF task'[b][h].issue \in {"Mismatch", "GenerationChanged"}
             THEN {b} \cap ActiveBatches ELSE {}))
    /\ UNCHANGED <<boot, serving, host, producer, link, ack, faults, policy, job, ticket,
                   network, receipt, busy>>

ReadsExpire ==
    /\ reads # {} /\ reads' = {}
    /\ UNCHANGED <<restrictionVars, reviewVars, batch, task, network, receipt, busy>>

\* A slip for the mutation runs: one host's acceptance is enough.
FreshHostsSome(b) == \E h \in Hosts : task[b][h].receipt = "Accepted"

\* fresh_hosts: a recent observation of every host's acceptance.
FreshHosts(b) ==
    \A h \in Hosts :
        /\ ~task[b][h].disputed /\ task[b][h].issue = "None" /\ task[b][h].matches
        /\ task[b][h].receipt = "Accepted" /\ Generation(b, h) /\ <<b, h>> \in reads

\* prepare_qualification_activation: the ticket quotes batch and cell.
PrepareActivation(b) ==
    /\ serving /\ ticket = Nil /\ PendingCurrent(b) /\ FreshHosts(b)
    /\ ticket' = [kind |-> "activate", batch |-> b, revision |-> batch[b].revision,
                  cell |-> cell.revision]
    /\ UNCHANGED <<restrictionVars, policy, change, job, activationVars>>

ActivationCurrent(t) ==
    /\ batch[t.batch].revision = t.revision /\ cell.revision = t.cell
    /\ PendingCurrent(t.batch) /\ FreshHosts(t.batch) /\ OwnedClear(batch[t.batch].clear)

\* commit_qualification_activation.
CommitActivation ==
    LET b == ticket.batch
    IN  /\ serving /\ ticket # Nil /\ ticket.kind = "activate"
        /\ ActivationCurrent(ticket)
        /\ cell' = [cell EXCEPT !.batch = b, !.blocks = @ \ batch[b].clear, !.revision = @ + 1]
        /\ batch' = [batch EXCEPT ![b].state = "Active", ![b].revision = @ + 1]
        /\ change' = [state |-> "QualifiedActive", revision |-> change.revision + 1, batch |-> b]
        /\ ticket' = Nil
        /\ UNCHANGED <<boot, serving, block, host, producer, link, ack, faults, policy, job,
                       task, reads, network, receipt, busy>>

DropActivation ==
    /\ ticket # Nil /\ ticket.kind = "activate" /\ ticket' = Nil
    /\ UNCHANGED <<restrictionVars, policy, change, job, activationVars>>

\* Work of the cell starts while it is ready, and is settled some day.
StartWork ==
    /\ CellReady /\ ~busy /\ busy' = TRUE
    /\ UNCHANGED <<restrictionVars, reviewVars, batch, task, reads, network, receipt>>

SettleWork ==
    /\ busy /\ busy' = FALSE
    /\ UNCHANGED <<restrictionVars, reviewVars, batch, task, reads, network, receipt>>

-----------------------------------------------------------------------------
Disturbance ==
    /\ \/ Hold \/ RequestRuntimeStop
       \/ \E h \in Hosts : \/ HostRestart(h) \/ OpenEvidenceProducer(h)
                           \/ SourceGenerationChanged(h)
    /\ UNCHANGED <<reviewVars, activationVars>>

HostWork ==
    \E h \in Hosts : (LinkHost(h) \/ AcknowledgeFence(h)) /\ UNCHANGED <<reviewVars, activationVars>>

Review ==
    /\ \/ \E p \in People, S \in Choices(Selectable) : BeginRequalification(p, S)
       \/ \E p \in People, r \in ReportVerdicts : RecordReport(p, r)
       \/ \E p \in People : RejectReport(p) \/ PrepareApproval(p)
       \/ CommitApproval \/ DropApproval
    /\ UNCHANGED activationVars

Issue ==
    job # Nil /\ \E b \in Batches : \E S \in Choices(LAMBDA n : OwnedClear({n})) : CommitIssue(b, S)

Delivery ==
    \E b \in Batches, h \in Hosts :
        \/ BindRequest(b, h) \/ EnterSend(b, h) \/ RecordIssue(b, h)
        \/ HostReceives(b, h) \/ LoseRequest(b, h) \/ Observe(b, h)

Next ==
    \/ Disturbance \/ HostWork \/ Review \/ Issue \/ Delivery
    \/ Restart \/ ReplaceExecutor \/ ReadsExpire
    \/ \E v \in {1, 2} : ConfigureRequalification(v)
    \/ \E b \in Batches : SuspendQualification(b) \/ TakeOverSender(b) \/ PrepareActivation(b)
    \/ \E h \in Hosts : HostLosesJournal(h)
    \/ CommitActivation \/ DropActivation \/ StartWork \/ SettleWork

Spec == Init /\ [][Next]_vars

-----------------------------------------------------------------------------
\* A certified cell is backed by the one active batch, of this runtime and
\* policy, and the change says so: no suspension, restart or replacement
\* leaves a certificate behind, or an active batch nobody can suspend.
CertificateIsBacked ==
    /\ \A b \in ActiveBatches :
           /\ cell.batch = b /\ batch[b].boot = boot
           /\ change.state = "QualifiedActive" /\ change.batch = b
    /\ cell.batch # 0 => batch[cell.batch].state = "Active"
    /\ change.state = "QualifiedActive" => ActiveBatches = {change.batch}

\* A certificate stands on acceptance by every host and on an approval of
\* the newest report by someone who neither asked for it nor wrote it,
\* however reports, tickets and observations crossed on the way.
CertifiedIsAccepted ==
    cell.batch # 0 =>
        /\ \A h \in Hosts : task[cell.batch][h].receipt = "Accepted"
        /\ job.id = batch[cell.batch].job /\ job.ready /\ job.decided = job.report
        /\ job.decider \notin {job.by, job.recorder, Nil}

\* What may be lifted: only blocks the change owns; a device block only after
\* the host was linked again since, a stop only by a later runtime.
LiftsWhatIsOver ==
    \A n \in cell.blocks \ cell'.blocks :
        LET o == block[n].origin
        IN  /\ block[n].owned /\ block[n].reason # "hold"
            /\ o.kind \in {"producer", "source"} => link[o.host].epoch >= o.epoch
            /\ o.kind = "producer" => link[o.host].gen # o.gen
            /\ o.kind = "stop" => o.boot # boot

\* No step lifts a restriction before what it stands for is over
\* (commit_qualification_activation and the origins recorded by the device and
\* runtime invalidations).
LiftedBlocksAreOver == [][LiftsWhatIsOver]_vars
=============================================================================
