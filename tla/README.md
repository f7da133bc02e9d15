# rx-platform: TLA+ models, checks and proofs

rx-platform decides when industrial equipment may act. A cell's operators start
runs, an executor submits operations, hosts command devices, and the platform
process in between (`crates/`) keeps one durable ledger of who may do what and of
what is known to have happened. Its hard promise is about authority and evidence:
nothing acts without a current mandate and permit, nothing acts twice, and the
ledger never claims more than the evidence shows, although processes crash,
answers are lost and operators change their minds at any moment.

This directory models that core in TLA+, checks it with TLC and proves most of
what is checked with TLAPS. `PROJECT.json` is the index: components, runs, mutants, the map from
definitions to source lines, findings, hazards and theorems.

## 1. The system

| Component (source under `crates/`) | State | Operations | What makes it correct |
| --- | --- | --- | --- |
| Operation (`rx-domain/operation.rs`) | phase, knowledge, outcome, integrity, disposition, evidence, revision | admitted, sent, lose_continuity, observed_running, conclude, dispute, quarantine, release | always readable; history kept; a revision names one decision |
| Cell and invalidation (`engine/invalidation.rs`, `admission.rs`) | epoch, revision, qualification, commissioning, blocks, mode | hold, invalidate_cell and its callers, the closure over connected cells | one transaction ends every authority of the epoch, in every connected cell, once |
| Runs (`engine/workflow.rs`, `operator_start.rs`, `pause.rs`) | runs, start attempts, mandates, Arm rows | create, start, acknowledge, pause, abandon, complete | a mandate needs every host, the present cell and executor |
| Dispatch (`engine/dispatch.rs`, `delivery.rs`, `rx-host-client/delivery.rs`) | activations, work, permits, resources, outbox | resolve, submit, plan, receipt, attention, fence | at most one command per operation; resources exclusive while acting |
| Evidence and handover (`engine/evidence.rs`, `producer.rs`, `handover.rs`) | journals, cursors, evidence ledger, conclusions, parts | open producer, negotiate, ingest, dispute, release, complete part | every record applied once, in order; conclusions are true of the device |
| Observations (`engine/observation.rs`, `rx-domain/condition.rs`) | facts, evidence identities, incidents | report, host read, watchdog, evaluate | no run outlives what its maintained condition rests on |
| Host link (`engine/host_link.rs`, `host_readmission.rs`) | plans, fences, grants, registrations, approvals | prepare, commit, renew, approve | a grant that counts is held by the host; a replaced peer keeps nothing |
| Lifecycle (`engine/lifecycle.rs`, `mod.rs`) | runtime phase | stop, commit stop, open | no live authority survives a boot |
| Qualification and requalification (`engine/qualification_activation`, `requalification`) | restrictions, jobs, reports, approvals, batches, host tasks | request, report, decide, issue, send, observe, activate, suspend | a certificate is backed by present proof; a lifted block is over |
| Intervention (`engine/intervention.rs`, `procedure.rs`, `closure.rs`) | cases, memberships, progress, clearances | open, report, admit, prepare and close | nobody works in a cell that is not contained |
| Settlement (`engine/reconciliation*.rs`, `settlement.rs`) | requests, approvals, queries, observations | request, approve, query, observe, release, settle | what is released was handed over, in the context it was approved in |
| Host recovery (`engine/host_recovery`) | bindings, stages, receipts | propose, approve, fence, commit, refresh, query | a recovered host is fenced at the epoch the ledger says |
| Change control (`engine/process_change.rs`, `configuration_dispatch.rs`) | changes, selections, configuration tasks | propose, approve, apply, send, observe, qualify | a run's hosts have the configuration the run was started on |
| Reviews (`engine/package_intake.rs`, `device_review.rs`, `process_review.rs`, bindings, drafts) | intakes, reviews, tickets, decisions, plans, drafts | request, work, decide, bind, save | an approval stands for the inputs it was given for |
| Process frontier (`rx-process-contract/frontier.rs`, `engine/process*.rs`) | activations, branches, waits, checkpoints | plan, resolve, choose, wait, prepare, commit | only free nodes act; decisions stand; a visit ends |
| Storage and writer (`rx-storage`, `rx-runtime/writer.rs`, `rx-platformd/maintenance.rs`) | entities, requests, journal, run index, lanes | transact, submit, take, reply, close, backup, restore | a request takes effect once and its answer is in the store |
| Software skills, package verification, API, daemon, protocol, clients | transport and files | encode, verify, route | not modelled (section 6) |

**How they interact.** One thread owns the engine. Each engine method is one
IMMEDIATE SQLite transaction; a rejected call leaves no trace. Requests to hosts
are outbox rows (New, EmitEntered, Delivered or Voided) written in the same
transaction as the decision they follow from. One dispatcher per host reads the
rows, asks the engine to validate and enter each one, performs the RPC outside any
transaction, and hands the answer back as another engine call. Hosts, executor and
operators are separate processes; all of them may be late, repeat themselves,
restart or vanish.

**What is hard.** Everything between two transactions: a revocation between the
planning of a request and its arrival; an acknowledgment for a start that has been
overtaken; a receipt of a fence that a later fence replaced; a crash after a row
was entered and before its RPC; evidence that contradicts a conclusion after its
resources were handed over; work done outside a transaction between a prepare
and a commit; a configuration, an approval or a reading that is stale when it is
used. `PROJECT.json` lists the 40 hazards that matter most, with their lines;
each names the properties that watch it.

## 2. Modules

    Operation            the record and its transitions (pure)
      OperationLifecycle   one operation, every call sequence
      CellState            durable state of one cell, shared checks, invalidate_cell
        RunStart           create, start, arm, pause, abandon
          HostPeer         hosts and network (external)
            OperationDispatch   parts, submission, outbox, receipts, fences,
                                evidence, disputes, handover, completion
              Platform          connections, qualification, stop, restart; Next
                PlatformProperties        properties, fairness
                  PlatformProofs          operation, closure, types, authority,
                                          starts, delivery
      ProcessFrontier      validation, order check and planner of a process (pure)
        ProcessExecution   activations, decisions, waits and checkpoints of a visit
    EvidenceLog            abstract: an append-only log for every stream
    EvidenceJournal        producers, journals, cursors, batches; implements EvidenceLog
      EvidenceProofs
    Observations           facts, conditions, dependents, the watchdog
      ObservationProofs
    AffectedCells          the closure over shared scopes and resources
    Requalification        blocks and their origins; jobs, reports, decisions
      QualificationActivation   batches, host tasks, activation, suspension
        QualificationProofs
    HostLink               plans, fences, grants, renewal, readmission
    HostRecovery           recovery of a host under the serial worker
      HostProofs           both
    RequestLedger          abstract: every request answered once, from the store
    StateStore             rows, saved requests, journal, run index, backup, restore
      StateWriter          lanes, burst, closing; implements RequestLedger
        WriterProofs
    Intervention           cases, procedures, clearance, closure
    Settlement             reconciliation of interrupted work
      InterventionProofs   both
    ProcessChange          changes, approvals, selection, qualification
      ConfigurationDispatch     the exchange with the hosts
    DeviceReview           package intake, device reviews and decisions
      DeviceBinding        host bindings and their use in drafts
        ProcessReview      process reviews and decisions
    ChangeProofs           changes with their exchange, and the reviews
    MC*                    instances for TLC

Each module extends the one it is indented under; a proof module marked "both", and
`ChangeProofs`, extend two modules that share no state. `PlatformProofs` also extends
`OperationLifecycle` and `AffectedCells`. Names follow the source:
`AcknowledgeArm` is `acknowledge_arm_delivery`, `RecordHostReceipt` is
`record_host_receipt`, and so on; the map in `PROJECT.json` gives the lines.
Definitions introduced by "A slip for the mutation runs" are plausible wrong
versions of the definition that follows them. No specification uses them: they
only show that a property would notice.

**State and data.**

- One action per engine method, guards in the order of the code's rejections.
  `InvalidateCell` is the whole transaction of `invalidate_cell_for_pause`, and
  takes the work, permits and authorize rows its caller has already changed.
- Scope epochs are folded into the cell epoch, with which they always move.
- A mandate is identified by the attempt that created it, an operation by its
  activation slot (run, step, visit): each exists at most once in the code.
- Conditions, role and terminal checks, grants and expiry times can reject a call
  at any moment and change nothing else: they only restrict when an action is
  taken, so the model, which may always take it, covers them. Where expiry does
  change state (the start timeout) it is a parameter of the action.
- `cell.blocked` stands for a non-empty list of latched blocks.
  `ActivateQualification` may clear all or only some.
- Recording a receipt again has no further effect in the code; the ledger of receipt
  sequences is left out, and a conflict in it is `DisputeOperation`.
- A canceled native result takes the path of a failed one; "unclear" is a status the
  completion rule does not name.
- `LinkHost` is the prepare/commit pair as one step: the commit compares the cell
  revision of its plan. Two deliberate over-approximations: a receipt may be
  recorded for a host whose registration is retired, and a late acknowledgment of a
  started attempt may close its row after the host was linked again.
- `sends` counts native commands up to two, and the host is not assumed to recognise a
  repeated Authorize, so that at-most-once is a promise of the platform alone.
- The host refuses requests of another epoch than its own and a fence voids what it had
  prepared; both are the host's side of the contract
  (`spec/contracts/v1.0`). Its epoch is a durable maximum, so a fence that a later one
  overtook is refused as stale (`02_authorization_invalidation.md:78`) and gets no receipt:
  its row stays EmitEntered, and `FenceIsConfirmed` promises the confirmation of a
  revocation by the receipt of its fence or of a later one. A host keeps the receipts of
  the fences it installed (`fenced`). HostRecovery and ConfigurationDispatch
  have the same host.
- Not called outside tests, so not modelled: `acknowledge_arm`,
  `begin_delivery`, `delivery_succeeded`, `register_host`.

**The other modules**, each with the state it owns; what another module models is
one action or one Boolean here.

- *EvidenceJournal.* A host is faithful or may contradict itself. A batch repeats,
  overlaps or skips; the cursor, the identities and the disputes decide. A host that
  started again opens the journal it had, an unfaithful one perhaps another, and gets a
  new session either way. The
  refinement forgets sessions and keeps the applied sequence.
- *Observations.* One host serves all sources; conditions have the shape All of Any.
  The clock is named by the kernel's boot id: a process restart reads on in it and keeps
  the readings' age, a machine reboot begins another clock.
  Readings may be repeated, delayed and reordered. The store is one record, so that
  a cut can be applied to it as a function. `Readmit` stands for HostLink and
  QualificationActivation. A reading of a foreign generation takes the place of the
  stored one, and with it the memory of how new that was: a late reading of the
  right generation may then be stored although a newer one had been seen. Its age
  still counts from its own acquisition, so the properties hold; the network reader
  reads one cut after the other and cannot produce that order. A second limit is
  `Shadowed`: when a reading from before a reboot and of the registered generation was
  kept, the loss it recorded stands for a new dispute of the source as well.
- *QualificationActivation.* `quiet` is one Boolean (Settlement and Intervention are
  about it). A request that is lost after it was entered leaves its host task
  unproven for good: the batch is replaced, never retried.
- *HostLink.* Lifetimes are countdowns. External: a host takes over for a higher fence of the same owner
  (`spec/contracts/v1.0/02_identity_durability_recovery.md:71`, `:79`).
  `LinksAreSound` excepts a registration that was `Overtaken`: `commit_host_renewal`
  (`host_link.rs:634`) looks at the grant and fence of its own plan, neither at the
  stored fence of the resource nor at whether the registration lapsed meanwhile. The
  host refuses the lower fence, so the exception is about what the platform believes.
- *StateStore, StateWriter.* Tickets tell unfinished sends apart. A restore that dies
  between its two writes and takes back what a client was already told is the one
  behaviour `MidwayUntold` sets aside (finding below); every other interrupted restore
  is followed. An operator starts no
  runtime while a restore is running. The start transaction revokes the runs that the stored
  index names and rebuilds the index afterwards, in the order of `Engine::open`; `OldRuns`
  are those of a store written by a revision without index (third finding).
- *Intervention.* Only the last clearance is kept. `configuration_changed` is never
  reset and diagnostic cases never close, as `NON_OPERATING_CLOSURE.md` says. Reports
  a case still needs are not counted against `MaxReports`.
- *Settlement.* Abandoning a run that needs recovery leaves its quarantined resources
  to nobody ("Abandoning releases nothing"); ordinary release is impossible once the
  epoch has moved.
- *ProcessChange, ConfigurationDispatch.* Connected cells are one group; roles and
  request keys belong to RequestLedger. Live runs stand for everything the barrier
  waits for. A stale change in preparation blocks those it overlaps, and a lost
  configuration request followed by a restart leaves its task unproven: both are
  documented limits. A host's cells (definition, envelope, environment, blocks) are as the
  task names them or not. Only the apply check looks at them: the page may show a host
  as acknowledged, and name no blocker, while apply refuses because of its cells.
  `BlockersAreComplete` excepts exactly that.
- *HostRecovery.* The epoch stands for revision, scopes and blocks; a session is the
  pair of boots. A host's first contact invalidates the cells, unless the runtime alone
  was restarted and its restart block covers them. Live authority and ambiguous fence candidates are unreachable there
  and left out. A lookup of evidence stores nothing.
- *Reviews.* Trust is the store owner and the policy rules, the site is the cell's own
  and its connected configuration, a release is the checker's and builder's digest.
  Reports and documents are opaque. Tickets live in memory, so a restart
  drops them. The worker's verification is part of the commit, because the ticket
  pins everything it reads. The first word of a boot about its configuration is
  not a change.
- *ProcessFrontier, ProcessExecution.* One visit. A run that loses its authority never
  executes again and is saved in the same transaction: revision and state stand for
  session, boot, epoch and mandate. Calls with an old revision are rejected and
  leave no trace. `process_change.rs:295` clears the predecessors of installed steps,
  so the reviewed order rests on `check_predecessors`. Intervention nodes block for
  ever, and the review refuses them.

## 3. Runs

| Run | Instance | Properties | States |
| --- | --- | --- | --- |
| start | 2 runs, 2 attempts, 2 hosts, 2 epochs, no operations | AuthorityIsCurrent, EveryHostIsArmed, StartIsPending, OnePurposeExecutes | 1,262,511 |
| dispatch | 1 run, 2 operations on one resource, one with postconditions, 3 epochs, 2 sessions | ConclusionIsTrue, ActingHoldsResources, CompletedRunIsFinished, AbandonedRunIsInert, SentAtMostOnce, FencedHostIsFenced, NoSendBehindFence, NothingIsRevived | 1,021,001 |
| observations | 2 cells, 2 sources, 3 readings, a conflict, restarts of the process and a reboot | FactsAreAlive, IncidentsEndRuns, LapseIsNoticed | 194,791 |
| qualification | 2 hosts, 3 people, 2 requests, 2 batches, a fault | CertificateIsBacked, CertifiedIsAccepted, LiftedBlocksAreOver | 1,112,397 |
| hosts | recovery: a command left open, 2 bindings, 3 boots of the runtime; linking: 2 cells on one resource, restarts with or without storage | RecoveryIsSound, PromotedHostIsFenced, LinksAreSound | 1,634,736 |
| writer | store: 2 clients, 2 keys, 2 runs, lanes of one, a backup and a restore, with or without a run of an older revision; ledger: one operation, 3 evidence records, revisions to 7; delivery: one operation under fairness, 3 epochs; closure: 3 cells with 2 shared names | StoreIsSound, ImplementsLedger, AcceptedIsTaken, StoredOperationDecodes, HistoryIsKept, RevisionNamesDecision, FenceIsConfirmed, SentCommandIsNoticed, RevocationIsWhole | @WRITER@ |
| intervention | 2 cases, 2 cells, every quality of report; settlement of 2 operations with 2 upsets | InterventionIsSound, ReleaseIsSafe | 716,444 |
| change | a revalidation and a replacement at 2 hosts, at most one of which fails; reviews of a device and a process package by 2 people | ChangeIsSound, ReviewsAreSound | 502,794 |
| process | accepted processes of up to 3 operations, with checkpoints; the journals of a faithful and an unfaithful host | ExecutionIsSound, StepsAreSound, EvidenceIsSound, ImplementsLog, EveryRecordIsApplied | 232,377 |
| pause_in_flight | violation: 1 run, 2 attempts, 2 hosts | IdleRunHasNoArmInFlight | |
| dispute_after_release | violation: one operation | DisputeQuarantinesResources | |
| old_store | violation: the store of `writer` | IndexIsCorrectedBeforeUse | |

Each property is stated in words above its formula. Those named "...Sound" or "...Safe"
are conjunctions of named parts, each with its own comment.

**Parts.** `writer`, `hosts`, `intervention`, `change` and `process` each hold parts
that share no state. The initial state chooses one part and only that part moves, so
the state space is the sum of the parts and not their product, and a property of one
part is trivially kept while another moves.

**Refinements.** `ImplementsLog`: the evidence handler, with its sessions, replays and
conflicts, is an append-only log in which every number takes effect once.
`ImplementsLedger`: the writer and the store, with lost replies, repeats, crashes and
restores, answer every request once and from what is stored. Both are also proved.
`AffectedCells` and `ProcessFrontier` are compared with reference definitions (connected
through shared names; the path definition of a free node).

**Bounds.** `MaxEpoch` counts revocations: two epochs are enough for every race
between a decision and one revocation, three for a fence that a later one
overtakes. `MaxSession` counts sessions, `MaxRevision` saves of the cell,
`MaxBudget` parts or setup operations of a run, `MaxResults` native reports of one
operation: two contradict each other, a third adds nothing new. The start run drops
operations and the dispatch run uses one run and one host, because the only things
the two share are the mandate and the epoch, which both keep. The same rule gives
the other bounds: of everything that may overtake (boots, tickets, batches, plans,
approvals, attempts, versions) an instance has one more than is current. Where two such
dimensions together would be too many, the MC module names regions of the state space
(`Competing` and `Alone`, `OneAttempt`, `TwoAttempts`, `CellsMove` and `TwoChanges`, `Conflicts`,
`Readings` and `Lapses`, ...) with one dimension each, and a step must end in one of them
(`Small`): a guard on the next state, so that no state outside is reached or checked.
The theorems of section 4 are about the specifications without these guards. `MaxTime` in
ProcessExecution bounds idle time only: an open window always runs out. `MaxFailures`
in HostRecovery and Settlement says that finitely many calls fail in a row. The
counters are u64 in the code and fail at their maximum; the model stops there too.
Symmetry is used in safety runs only, over cells, people, clients, operations or hosts that
the specification never tells apart.

**Deadlock** is not checked: once epochs, revisions or attempts are used up a bounded
instance stops, and a stopped platform may stay stopped.

**Fairness.** `Dispatcher::run` makes a pass every 100 ms as long as the process lives
and its session is valid, and retries whatever failed. That justifies weak fairness
of planning a fence, of recording its answer, of asking for the receipt of an
authorized operation (`reconciliation_work`), and of a host answering a fence of its own
epoch or a later one (`PlatformProperties`); it need not answer a stale one. Nothing is assumed of operators, executor, crashes, restarts,
devices or any other request. Both properties are conditional on the connection:
`~Connected(h)` is an admissible end, since the platform cannot do more. Elsewhere:

- EvidenceJournal: a faithful producer keeps negotiating and publishing.
- Observations: the watchdog ticks every 25 ms, and its call gets through again.
- StateWriter: the loop of the writer thread waits for nothing but its queue.

**Findings.** Three sentences of the repository do not hold of the code, each shown by a
violation run. No run finds a command sent without authority.

1. pause_in_flight. `engine/pause.rs:62` says that no Arm is in flight for a prepared
   run without a pending attempt. With two hosts the acknowledgment of one can reject
   the attempt (it is stale or expired) while the other's Arm is still on its way.
2. dispute_after_release. The contract (`01_responsibility_and_semantics.md:95`) asks
   that late incompatible evidence quarantine the affected resources. `invalidate_cell`
   quarantines those the operation still holds; after handover there are none. The
   same transaction blocks the cell, and a cell with disputed work cannot be
   requalified (`quiet`), so no use of the resource follows on the modelled paths.
3. old_store. `run_index.rs:126-127` says that a runtime start corrects the index of live
   runs "before use". `Engine::open` uses it first: `invalidate_cell` (`mod.rs:145`) takes
   the runs from the stored index (`invalidation.rs:62`), `run_index::rebuild` comes after
   the loop (`mod.rs:164`). In a store without index the first start leaves an executing
   run executing, in a session that is gone. It has no authority (mandates and permits are
   found by a scan), but it cannot be abandoned until its cell is revoked again. From the
   second start on there is none (`RunsAreRecovered`, part of `StoreIsSound`).

Noticed while modelling, and reflected in the models, but not the subject of a run:

- `commit_host_renewal` looks at the plan of its own cell, not at the stored fence of
  the resource, so two cells of one host can count on it at once
  (`HOST_CONNECTION.md:23` says they must not).
- `already_disputed` (`observation.rs:322`) compares generations and not clocks, so a
  dispute after a restart may find the earlier one and record none, where
  `OBSERVATION_INGESTION.md:43` says that a new anomaly is recorded.
- When one of two cells was linked and the host restarts again, the approved link of
  the other cell can no longer be made (`HOST_READMISSION.md:14` says it may).
- `restore` exchanges the database and rotates the store generation in two writes. Death
  in between leaves the older cut under the generation the peers know.
- A physical report on an open diagnostic case turns it into a recovery case and leaves
  the cell's mode as it was (`CELL_CONTEXT_AND_OPERATOR_PEER.md:28`).
- A process review requested under a policy that was withdrawn is current again when the
  policy returns, and a device review requested before a restart is current again after
  it (`HOST_BINDING_INTENTS.md:41`).
- A released predecessor that is disputed later makes the planner report an integrity
  error where `rx-process-contract/README.md:5` promises a state that asks for
  reconciliation.

## 4. Proofs

Proved with TLAPS for every value of the constants. The assumptions are named where the
constants are declared (`OperationLifecycle`, `CellState`, `HostPeer`, `StateStore`,
`StateWriter`, `QualificationActivation`, `Settlement`, `Intervention`, `EvidenceJournal`,
`Observations`, `HostLink`, `HostRecovery`, `ProcessChange`, `ConfigurationDispatch`,
`DeviceReview`, `DeviceBinding`, `ProcessReview`): identities and records are distinct from
the value that stands for "none" (`Nil`, `None`, `Absent`, `Unset`), slots map to existing
runs, hosts and resources, conditions name sources of their cell, bounds are numbers.
TLC evaluates them on every instance. Every inductive invariant below was checked with TLC
on the run's instance.

**One operation** (`PlatformProofs`).
`OperationAlwaysDecodes`, `OperationHistoryIsKept`: `Decodes` is inductive with the type,
each method keeps the four stored constraints. `RevisionAlwaysNamesDecision` adds
`DisputedIsReconciling`: a disputed operation is already reconciling, so the one call
that keeps the counter, a second dispute, changes nothing a reader decides on. The
lemmas on the transitions are stated for any evidence set and reused for the cell.

**The closure** (`PlatformProofs`). `RevocationIsAlwaysWhole`: the callers' loops revoke
exactly the cells connected with one they were asked about, each once, and between two
closures no cell is revoked without those it shares a scope or resource with.
`ClosureInv`: what is `visited` is a union of whole groups, the closure under construction
is apart from it and grows from one origin, and it is whole when applied.
"Connected" is membership in every whole set that holds the origin, which needs no
paths.

**The platform core** (`PlatformProofs`), for any number of runs, attempts, hosts, operations, resources and epochs.

- `StoredWorkAlwaysDecodes`: the type and every stored operation, one lemma for
  `InvalidateCell` and one per group of actions.
- `AuthorityIsAlwaysCurrent`. Not inductive: `complete_part` closes a run without looking
  at permits, so it has to be shown that none is left. `AuthorityInv` adds
  `LiveExecutorHasSession`, `AttemptHasRun`, `MandateWasStarted`, `RunOwnsMandate` (which
  attempt a mandate belongs to and which run names it), `PermitHasPart`,
  `SuccessSpendsPermit` and `DoneIsConfirmed`. The last three give the step of
  `CompletePart`: when all parts are done every slot of the run has succeeded, so no
  permit of it is issued.
- `StartIsAlwaysPending`, `OnePurposeAlwaysExecutes`, `EveryHostIsAlwaysArmed`. `StartInv`
  adds what an attempt in arming knows of the cell: it is of the live session
  (`ArmingIsLive`), its revision and epoch are past or present (`AttemptIsPast`), while
  they are present it has seen every purpose that executes (`ArmingSeesPurposes`), and an
  acknowledged host is armed (`AcksAreArmed`).
- `CommandIsSentOnce`, `ConclusionIsAlwaysTrue`, `FencedHostIsAlwaysFenced`,
  `NoSendIsBehindFence`. `DeliveryInv` follows one slot through rows, wire and device: what
  was not submitted or not prepared has left no trace (`UnsubmittedIsBlank`,
  `UnpreparedIsAbsent`, `UnauthorizedIsUnsent`), a row is entered once (`PreparedOnce`,
  `AuthorizedOnce`, `SendsAreCounted`), results are final, and an outcome in the ledger is
  proven at the device (`OutcomeIsProven`).
- `ActingAlwaysHolds` adds `HoldsUntilConcluded`: an operation without outcome holds
  its resources. `NothingIsEverRevived` is an action property from the same invariant.
- `CompletedRunIsAlwaysFinished`, `AbandonedRunIsAlwaysInert` add `ClosingInv`
  (`SubmittedHasPart`, `StartedHasLimit`, `CompletedIsExhausted`, `AbandonedIsConcluded`).

The step lemmas `EvidenceRevises`, `OtherStepsRevoke`, `CellStepsRevoke`, `StepOutcomes`,
`StepRevives` and `StepProgress` say once what groups of actions may do to the ledger, and
the theorems above share them.

**Store and writer** (`WriterProofs`). `StoreIsAlwaysSound` and `WriterImplementsLedger`,
the refinement of `RequestLedger` step by step. `WriterInv`: the file and the backup are
sound (`FileSound`: rows are the replay of the journal, saved answers name what was
done), the live index is exact, after the first start no run executes for a runtime that
is gone (an exact index is what lets the next start find them all), what a client was told in this generation is in the
store, and the lanes hold what they may. The theorems assume `[][MidwayUntold]_vars`: without
it they are false of the code, since an interrupted restore can leave an older cut under
the generation that clients know. Proving them found two overlapping arms in
`StateStore.Verdict`, which TLC had resolved by their order; they are disjoint now.

**Intervention** (`InterventionProofs`). `InterventionIsAlwaysSound`. Nearly inductive:
`CaseInv` adds that no case refers to a block of a later epoch than its cell's
(`BlocksArePast`), so a block that a hold adds between the preparation of a clearance
and its use is a new one, and the clearance is refused.

**Settlement** (`InterventionProofs`). `SettlementIsAlwaysSafe`, an action property. What is
hard is that a reading is taken outside any transaction and used later. `SettlementInv`:
quarantine follows the epoch, an overtaken approval is visible in its context
(`OvertakenIsVisible`), a good reading still holds when it is used (`GoodReadingHolds`), a
query belongs to a plan, a completed run is empty.

**Qualification** (`QualificationProofs`). `CertificateIsAlwaysBacked`,
`CertifiedIsAlwaysAccepted`, `LiftedBlocksAreAlwaysOver`. `QualificationInv` is the two
invariants with their types and `DecidedIndependently`. Restarts and holds suspend batches
in a loop (`SuspendAll`, a recursive function). What the loop does is proved in
`SuspendAllDoes` without an induction schema: among the passes after which a claim would
fail there is a first one (`LeastNumber`), and the pass before it keeps the claim.

**Evidence** (`EvidenceProofs`). `EvidenceIsAlwaysSound` and `JournalImplementsLog`, the
refinement of `EvidenceLog`, for batches of any length. `EvidenceInv` adds that a faithful
host keeps its own journal (`EmittedIsOwn`, `EmittedOnce`) and that what is stored under one
of its identities came from such a journal (`WellStored`): otherwise a late window could
meet another content and be disputed. A batch is a loop of repeated, disputed, applied or
refused records; `Good` is its loop invariant, `OneRecord` its step, and `BatchLoop` the same
argument by the first failing record. That the committed suffix is no longer than the batch
and lies directly behind the cursor is what makes every batch one step of the log.

**Observations** (`ObservationProofs`). `FactsAreAlwaysAlive`, `IncidentsAlwaysEndRuns`, for
any sources, conditions and cells. `ObservationInv` adds that no reading, on its way or
stored, comes from the future (`Past`). Two arguments carry it. A condition that passes
at one time passes up to `valid_until` and fails from there on (`UntilIsExact`, from the
minimum over All and the maximum over Any). A cut of readings, and one cell after the
other of those it affects, is a fold over a finite set: what it keeps is proved by the
first pass that would break it.

**Hosts** (`HostProofs`).

- `RecoveryIsAlwaysSound`, `PromotedHostIsAlwaysFenced`. `RecoveryInv`: a binding's fences are
  those of its cut (`BindingsHold`), no fence is ahead of its cell and the host is where its
  answers say (`HostFollows`), what a call read, sent or fetched outside a transaction
  is not ahead of the host (`CallHolds`), a message on its way finds the journal as it was
  or voided (`JournalHolds`). `RowTellsTheTruth` and `ReceiptsAreTrue` are what is promised.
- `LinksAreAlwaysSound`. `LinkInv`: boots and sessions only grow (`GenerationsGrow`), so a plan
  of the present generation was prepared when nothing sent to the replaced one was open
  (`ReplacedIsIdle`); no fence is above the stored one (`FencesAreStored`), which tells the
  grants of two plans apart; between the host's answer and its commit the host's time
  is never shorter than the platform's (`AnswersOutlast`); and while nobody took a later
  fence, a grant counted on is held (`CurrentGrantIsHeld`).

**Changes** (`ChangeProofs`). `ChangeIsAlwaysSound`, for any number of hosts, changes and
attempts. `ChangeInv`: an open request belongs to the one change being prepared, while
nothing runs; what a task records of an answer is the host's answer; what the host accepted for
the present attempt is what it has (`TasksFit`). No later attempt has tasks while an
earlier send is open (`OneOpenSend`). An answer about to be recorded is no older than the recorded
one (`WorkersFit`). Every prepared change that is not qualified has its block (`StagesFit`).
Runs without a binding are older than every selection (`RunsFit`).

**Reviews** (`ChangeProofs`). `ReviewsAreAlwaysSound`, which includes action properties.
`ReviewInv`: a registration gets a number that no job or ticket has pinned yet
(`ServiceFits`, `TicketsFit`), so what is pinned cannot come back as something else; an
approval was given in the context its job pinned, by somebody else than the requester
(`DeviceRows`, `ProcessRows`); a plan was reviewed by another than its author (`PlansFit`); a
draft is compiled as it was bound (`DraftsFit`).

**Only model-checked.**

- The liveness properties (`FenceIsConfirmed`, `SentCommandIsNoticed`, `LapseIsNoticed`,
  `AcceptedIsTaken`, `EveryRecordIsApplied`): fairness and ENABLED are beyond the prover.
- `ProcessExecution` and `ProcessFrontier` (`ExecutionIsSound`, `StepsAreSound`): the planner
  is recursive over the tree of a process, and its reference definition too.

## 5. Plan

Every safety property of a passing run is proved, except those of the process planner.
Models next: the replacement of a host binding (`engine/host_binding_transition.rs`),
software skills, the capability negotiation of executor sessions, and the service
health relay. Proofs next: the parts of `ProcessExecution` that do not depend on what the
planner computes (decisions stand, a visit ends).

## 6. Not modelled

- Package and signature verification, transport, encoding, the daemon's wiring and the
  client libraries: conversions and I/O without shared state of their own.
- Software skills (`engine/software_skill.rs`): an engine of its own for local
  simulation, with its own processes; it shares no authority with the modelled core.
- Replacement of a host binding: its states are those of a process change with another
  document; planned.
- The outbox table of the storage layer: its rows are modelled where they are used
  (`OperationDispatch`, `RunStart`).
- Schemas, units, roles, terminals and request fingerprints: they reject a call and
  change nothing.

`PROJECT.json` gives the status and the reason for each component.
