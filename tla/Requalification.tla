-------------------------- MODULE Requalification --------------------------
(***************************************************************************)
(* Reviewing an applied change before the cell may run again: a request    *)
(* fences the cell and names the blocks it means to lift, an engineer      *)
(* records a report, and a third person decides.  The decision is checked  *)
(* outside the engine between prepare and commit.                          *)
(*                                                                         *)
(* Source: crates/rx-application/src/engine/requalification.rs.  One       *)
(* change.  Only the newest request is kept: each one moves the cell's     *)
(* revision, which the older ones quote, so none of them is current again. *)
(***************************************************************************)
EXTENDS Naturals, FiniteSets, Sequences

(***************************************************************************)
(* The restrictions (blocks) of a cell, where each came from, and which of *)
(* them a requalification may lift.  Every invalidation adds one block and *)
(* moves the cell's epoch; some leave an origin that says what has to      *)
(* happen first: the runtime that stopped must be over, the host that was  *)
(* replaced must be linked again.                                          *)
(*                                                                         *)
(* Source: crates/rx-application/src/{device,runtime}_invalidation.rs and  *)
(* engine/{mod,lifecycle,producer,invalidation}.rs,                        *)
(* engine/requalification/{device,runtime}_restrictions.rs.  One cell: how *)
(* a revocation spreads over cells is module AffectedCells.  The two-step  *)
(* host link and its approval are module HostLink; here a link is a step.  *)
(***************************************************************************)
CONSTANTS
    Hosts,      \* hosts of the cell
    MaxFaults   \* bound: disturbances (stops, crashes, host restarts, holds, ...)

ASSUME RestrictionsAssumption == MaxFaults \in Nat

VARIABLES
    boot,       \* runtime boots so far; the present one
    serving,    \* the runtime accepts work (no stop was requested)
    cell,       \* [revision, epoch, blocks, batch]; batch: its certificate, 0 if none
    block,      \* sequence of all blocks ever added
    host,       \* external: [Hosts -> gen, epoch]: incarnation, last fence it took
    producer,   \* [Hosts -> Nat]: incarnation of the open producer session
    link,       \* [Hosts -> gen, epoch]: registration and epoch of its link plan
    ack,        \* [Hosts -> gen, epoch]: last fence acknowledgment
    faults      \* disturbances so far

restrictionVars == <<boot, serving, cell, block, host, producer, link, ack, faults>>

RestrictionInit ==
    /\ boot = 1 /\ serving = TRUE
    /\ cell = [revision |-> 1, epoch |-> 1, blocks |-> {}, batch |-> 0]
    /\ block = <<>>
    /\ host = [h \in Hosts |-> [gen |-> 1, epoch |-> 1]]
    /\ producer = [h \in Hosts |-> 1]
    /\ link = [h \in Hosts |-> [gen |-> 1, epoch |-> 1]]
    /\ ack = [h \in Hosts |-> [gen |-> 1, epoch |-> 1]]
    /\ faults = 0

\* A block: its reason, whether a change owns it, and its origin.
NewBlock(reason, owned, origin) == [reason |-> reason, owned |-> owned, origin |-> origin]

NoOrigin == [kind |-> "none"]
StopOrigin == [kind |-> "stop", boot |-> boot]
RestartOrigin == [kind |-> "restart", boot |-> boot]
DeviceOrigin(kind, h, e) == [kind |-> kind, host |-> h, gen |-> link[h].gen, epoch |-> e]

\* invalidate_cell on the cell record c: a new epoch, a new revision and one
\* more block, whose identity is the next free number n.
Invalidated(c, n) ==
    [c EXCEPT !.revision = @ + 1, !.epoch = @ + 1, !.blocks = @ \cup {n}]

Invalidate(b) ==
    /\ cell' = Invalidated(cell, Len(block) + 1)
    /\ block' = Append(block, b)

Fault == faults < MaxFaults /\ faults' = faults + 1

-----------------------------------------------------------------------------
\* An operator's hold, or any other revocation that no change owns.
Hold ==
    /\ Fault /\ Invalidate(NewBlock("hold", FALSE, NoOrigin))
    /\ UNCHANGED <<boot, serving, host, producer, link, ack>>

\* request_runtime_stop: a revocation that names the stopping runtime.
RequestRuntimeStop ==
    /\ serving /\ Fault
    /\ serving' = FALSE
    /\ Invalidate(NewBlock("revoked", FALSE, StopOrigin))
    /\ UNCHANGED <<boot, host, producer, link, ack>>

\* A device restarts; its journal survives.
HostRestart(h) ==
    /\ Fault
    /\ host' = [host EXCEPT ![h].gen = @ + 1]
    /\ UNCHANGED <<boot, serving, cell, block, producer, link, ack>>

\* open_evidence_producer by a new incarnation.
OpenEvidenceProducer(h) ==
    /\ serving /\ producer[h] # host[h].gen
    /\ producer' = [producer EXCEPT ![h] = host[h].gen]
    /\ Invalidate(NewBlock("device", FALSE, DeviceOrigin("producer", h, cell.epoch + 1)))
    /\ UNCHANGED <<boot, serving, host, link, ack, faults>>

\* A fact shows that one of the host's sources was replaced.
SourceGenerationChanged(h) ==
    /\ serving /\ Fault
    /\ Invalidate(NewBlock("device", FALSE, DeviceOrigin("source", h, cell.epoch + 1)))
    /\ UNCHANGED <<boot, serving, host, producer, link, ack>>

\* A committed host link: the present incarnation, at the present epoch.
\* (Bound: links that replace nothing and follow no device block are left
\* out; they would only repeat the registration.)
LinkHost(h) ==
    /\ serving /\ producer[h] = host[h].gen
    /\ \/ link[h].gen # producer[h]
       \/ \E n \in cell.blocks :
            /\ block[n].reason = "device" /\ block[n].origin.host = h
            /\ block[n].origin.epoch > link[h].epoch
    /\ link' = [link EXCEPT ![h] = [gen |-> producer[h], epoch |-> cell.epoch]]
    /\ UNCHANGED <<boot, serving, cell, block, host, producer, ack, faults>>

\* The newest fence reaches the host and its acknowledgment is recorded.
AcknowledgeFence(h) ==
    /\ serving /\ link[h].gen = host[h].gen
    /\ host[h].epoch < cell.epoch \/ ack[h] # [gen |-> link[h].gen, epoch |-> cell.epoch]
    /\ host' = [host EXCEPT ![h].epoch = cell.epoch]
    /\ ack' = [ack EXCEPT ![h] = [gen |-> host[h].gen, epoch |-> cell.epoch]]
    /\ UNCHANGED <<boot, serving, cell, block, producer, link, faults>>

-----------------------------------------------------------------------------
(* What has to be over before a block may be lifted.                        *)

\* A slip for the mutation runs: any link of the host will do.
RelinkedEver(o) == TRUE

\* relinked: a link at or after the epoch the invalidation left, and for a
\* replaced producer a registration of another incarnation.
Relinked(o) ==
    /\ link[o.host].epoch >= o.epoch
    /\ o.kind = "producer" => link[o.host].gen # o.gen

\* ended: the runtime that stopped is not the present one.
Ended(o) == o.kind = "stop" => o.boot # boot

HasOrigin(n) == block[n].origin.kind # "none"

Releasable(n) ==
    LET o == block[n].origin
    IN  CASE o.kind \in {"stop", "restart"} -> Ended(o)
          [] o.kind \in {"producer", "source"} -> Relinked(o)
          [] OTHER -> FALSE

\* fences_confirmed: every host acknowledged epoch e under its registration.
FencesConfirmed(e) == \A h \in Hosts : ack[h] = [gen |-> link[h].gen, epoch |-> e]

-----------------------------------------------------------------------------
CONSTANTS
    People,         \* actors with the roles involved
    MaxJobs,        \* bound: requests
    MaxReports,     \* bound: revisions of a report
    MaxDecisions,   \* bound: decisions on one request
    Nil

VARIABLES
    policy,     \* [boot, version]: who registered it, and which one it is
    change,     \* [state, revision, batch]
    job,        \* the newest request, or Nil
    ticket      \* an approval on its way through verification, or Nil

reviewVars == <<policy, change, job, ticket>>

ReviewInit ==
    /\ policy = [boot |-> 1, version |-> 1]
    /\ change = [state |-> "AppliedUnqualified", revision |-> 1, batch |-> 0]
    /\ job = Nil
    /\ ticket = Nil

PolicyCurrent == policy.boot = boot

JobCount == IF job = Nil THEN 0 ELSE job.id

\* current: nothing the request was made for has moved.
JobCurrent ==
    /\ job # Nil
    /\ job.boot = boot /\ PolicyCurrent /\ job.policy = policy.version
    /\ change.state = "AppliedUnqualified" /\ change.revision = job.changeRevision
    /\ \A n \in job.selected : Releasable(n)
    /\ cell.revision = job.revision /\ cell.epoch = job.epoch
    /\ cell.batch = 0 /\ job.targets \subseteq cell.blocks

\* What a requester asks for: everything, or what it may get.
Choices(good(_)) == {cell.blocks, {n \in cell.blocks : good(n)}}

Selectable(n) == HasOrigin(n) /\ Releasable(n)

\* bind_runtime_restrictions, bind_device_restrictions: the selected blocks
\* become the change's.
Bound(S) ==
    [b \in 1..Len(block) |-> IF b \in S THEN [block[b] EXCEPT !.owned = TRUE] ELSE block[b]]

\* begin_requalification: the cell is fenced once more, for this request.
BeginRequalification(p, S) ==
    LET n == Len(block) + 1
    IN  /\ serving /\ PolicyCurrent /\ JobCount < MaxJobs
        /\ change.state = "AppliedUnqualified" /\ cell.batch = 0
        /\ \A b \in S : Selectable(b)
        /\ cell' = Invalidated(cell, n)
        /\ block' = Append(Bound(S), NewBlock("change", TRUE, NoOrigin))
        /\ job' = [id |-> JobCount + 1, by |-> p, boot |-> boot, policy |-> policy.version,
                   changeRevision |-> change.revision, revision |-> cell.revision + 1,
                   epoch |-> cell.epoch + 1, selected |-> S, targets |-> S \cup {n},
                   report |-> 0, ready |-> FALSE, recorder |-> Nil,
                   decision |-> "None", decisions |-> 0, decided |-> 0, decider |-> Nil]
        /\ UNCHANGED <<boot, serving, host, producer, link, ack, faults, policy, change, ticket>>

\* What Verified::check makes of a signed report that belongs to the
\* request: every required check is there and passed, or not.
ReportVerdicts == {TRUE, FALSE}

\* prepare_requalification_report and its commit, which checks it all again.
RecordReport(p, ready) ==
    /\ serving /\ JobCurrent /\ job.report < MaxReports
    /\ job' = [job EXCEPT !.report = @ + 1, !.ready = ready, !.recorder = p]
    /\ UNCHANGED <<restrictionVars, policy, change, ticket>>

Independent(p) == p # job.by /\ p # job.recorder

Decided(choice, p) ==
    [job EXCEPT !.decision = choice, !.decisions = @ + 1, !.decided = job.report, !.decider = p]

\* prepare_requalification_decision: a rejection is recorded at once ...
RejectReport(p) ==
    /\ serving /\ JobCurrent /\ job.report > 0 /\ Independent(p)
    /\ job.decisions < MaxDecisions
    /\ job' = Decided("Reject", p)
    /\ UNCHANGED <<restrictionVars, policy, change, ticket>>

\* ... an approval leaves for verification.
PrepareApproval(p) ==
    /\ serving /\ ticket = Nil /\ JobCurrent /\ job.report > 0 /\ Independent(p)
    /\ job.ready /\ FencesConfirmed(job.epoch) /\ job.decisions < MaxDecisions
    /\ ticket' = [kind |-> "approve", job |-> job.id, report |-> job.report,
                  decisions |-> job.decisions, by |-> p]
    /\ UNCHANGED <<restrictionVars, policy, change, job>>

\* What commit_requalification_decision checks again.
ApprovalCurrent(t) ==
    /\ JobCurrent /\ job.id = t.job
    /\ job.report = t.report /\ job.ready /\ job.decisions = t.decisions
    /\ Independent(t.by) /\ FencesConfirmed(job.epoch)

CommitApproval ==
    /\ serving /\ ticket # Nil /\ ticket.kind = "approve"
    /\ ApprovalCurrent(ticket)
    /\ job' = Decided("Approve", ticket.by)
    /\ ticket' = Nil
    /\ UNCHANGED <<restrictionVars, policy, change>>

\* Verification fails, the ticket expires or its commit is refused.
DropApproval ==
    /\ ticket # Nil /\ ticket.kind = "approve" /\ ticket' = Nil
    /\ UNCHANGED <<restrictionVars, policy, change, job>>

\* approved: the newest report of request j was approved as it stands.
Approved(j) ==
    /\ job # Nil /\ job.id = j
    /\ PolicyCurrent /\ job.policy = policy.version
    /\ job.ready /\ job.decision = "Approve" /\ job.decided = job.report
=============================================================================
