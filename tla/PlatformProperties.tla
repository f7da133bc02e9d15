------------------------- MODULE PlatformProperties -------------------------
(***************************************************************************)
(* What the platform promises about one cell, whatever the order in which  *)
(* operators, executor, hosts, network, crashes and late answers act.      *)
(***************************************************************************)
EXTENDS Platform

(* Every operation in the store can be read back: no interleaving of        *)
(* receipts, evidence, revocation, dispute and release writes a record that *)
(* TryFrom<OperationSnapshot> refuses, which would stop every later handler *)
(* and every boot that scans the work of the cell.                          *)
StoredWorkDecodes == \A o \in Ops : Decodes(work[o])

(* Live authority is always current.  An active mandate belongs to the one  *)
(* executing run that names it, to the present epoch and executor session,  *)
(* in a serving, commissioned and unblocked cell; an issued permit belongs  *)
(* to an active mandate and the present epoch.  (invalidate_cell, open,     *)
(* open_executor_peer, complete_part: nothing that ends a context may leave *)
(* authority behind.)                                                       *)
MandateIsCurrent ==
    \A a \in Attempts : mandate[a].state = "Active" =>
        /\ Ready /\ executor.live
        /\ mandate[a].epoch = cell.epoch /\ mandate[a].session = executor.session
        /\ run[attempt[a].run].state = "Executing"
        /\ run[attempt[a].run].mandate = a
        /\ run[attempt[a].run].session = executor.session

PermitIsCurrent ==
    \A o \in Ops : permit[o].state = "Issued" =>
        /\ permit[o].epoch = cell.epoch
        /\ permit[o].mandate = run[RunOf[o]].mandate
        /\ mandate[permit[o].mandate].state = "Active"

AuthorityIsCurrent == MandateIsCurrent /\ PermitIsCurrent

(* A start attempt is arming exactly while its own run is prepared and       *)
(* waits for it, in the epoch and the executor session it was made for: no   *)
(* late, repeated or expired acknowledgment, pause or revocation separates   *)
(* the two records (start_run, acknowledge_arm_delivery, pause_executor_run).*)
StartIsPending ==
    /\ \A a \in Attempts : attempt[a].status = "Arming" =>
          /\ run[attempt[a].run].pending = a
          /\ attempt[a].epoch = cell.epoch /\ attempt[a].session = executor.session
    /\ \A r \in Runs : run[r].pending # Nil =>
          /\ run[r].state = "Prepared"
          /\ attempt[run[r].pending].status = "Arming" /\ attempt[run[r].pending].run = r

(* A mandate needs every host: while it is active, each host has accepted    *)
(* the Arm of that very attempt and has not been fenced since; partial,      *)
(* repeated or late acknowledgments never add up to one                      *)
(* (acknowledge_arm_delivery).                                               *)
EveryHostIsArmed ==
    \A a \in Attempts, h \in Hosts : mandate[a].state = "Active" =>
        <<a, h>> \in armed /\ hostEpoch[h] = mandate[a].epoch

(* The cell's one operating mode describes every executing run: two starts   *)
(* of different purposes that overlap while arming never both take effect    *)
(* (the cell revision an attempt was made for, compared by the last          *)
(* acknowledgment, after validate_candidate saw no executing run).           *)
OnePurposeExecutes ==
    \A r \in Runs : run[r].state = "Executing" =>
        cell.mode = IF run[r].purpose = "Production" THEN "Automatic" ELSE "Setup"

(* A native command is issued at most once per operation, although the       *)
(* platform crashes, times out and retries, and the host does not            *)
(* deduplicate (plan_delivery enters a row once; enqueue revives none).      *)
SentAtMostOnce == \A o \in Ops : sends[o] <= 1

(* Native evidence never precedes the receipt that names its invocation,     *)
(* because Authorize is enqueued only by a recorded Prepared receipt; the    *)
(* correlation-awaiting branch of apply_native is only a safeguard.          *)
EvidenceIsCorrelated == \A o \in Ops : results[o] # {} => o \in invocation

(* An undisputed conclusion is the truth about the device: what is recorded  *)
(* as not executed was never commanded and never will be, what is recorded   *)
(* as succeeded or failed was commanded and has ended (the outbox race of    *)
(* invalidate_cell, VoidedBeforeSend receipts, apply_native).  It rests on   *)
(* evidence whose invocation is known.                                       *)
ConclusionIsTrue ==
    /\ EvidenceIsCorrelated
    /\ \A o \in Submitted : work[o].integrity = "Valid" =>
          /\ work[o].outcome = "NotExecuted" => native[o] \notin {"Sent", "Ended"}
          /\ work[o].outcome \in {"Succeeded", "Failed"} => native[o] = "Ended"

(* While a device may be acting on an operation, the operation still holds   *)
(* every resource of its intent, so no other operation can use them          *)
(* (submit_transition, release_confirmed; revocation quarantines and never   *)
(* frees).                                                                   *)
ActingHoldsResources ==
    \A o \in Ops : native[o] = "Sent" =>
        \A r \in ResourceSet[o] : resource[r].holder = o

(* A completed run is finished: its mandate is used up, none of its permits  *)
(* is still issued, none of its requests can start anything and every step   *)
(* it took succeeded (complete_part_transition completes on parts alone).    *)
CompletedRunIsFinished ==
    \A r \in Runs : run[r].state = "Completed" =>
        /\ mandate[run[r].mandate].state = "Exhausted"
        /\ \A o \in Submitted : RunOf[o] = r =>
              /\ permit[o].state # "Issued"
              /\ native[o] = "Ended" /\ work[o].outcome = "Succeeded"

(* After a run is abandoned none of its operations acts or can begin to act  *)
(* (abandon_run: "Nothing of it may still be in flight, authorized or        *)
(* starting").                                                               *)
AbandonedRunIsInert ==
    \A o \in Ops : run[RunOf[o]].state = "Abandoned" =>
        /\ native[o] # "Sent" /\ permit[o].state # "Issued"
        /\ ~(o \in authorizeWire /\ native[o] = "Prepared"
               /\ permit[o].epoch = hostEpoch[HostOf[o]])

(* The registration never runs ahead of the host: a host the platform takes  *)
(* as fenced to the cell's epoch is at that epoch, and has nothing prepared  *)
(* for an earlier one (finish_fence_delivery compares the epoch of a late    *)
(* receipt with the cell's).                                                 *)
FencedHostIsFenced ==
    \A h \in Hosts : host[h].registration # "None" =>
        /\ host[h].epoch <= hostEpoch[h]
        /\ \A o \in Ops : HostOf[o] = h /\ native[o] = "Prepared" =>
              permit[o].epoch >= host[h].epoch

(* No native command is issued behind a confirmed fence: once the platform   *)
(* holds a host's receipt for an epoch, a delayed Authorize of an earlier    *)
(* one starts nothing.                                                       *)
SendsInTheEpoch ==
    \A o \in Ops : sends'[o] > sends[o] => permit[o].epoch >= host[HostOf[o]].epoch

NoSendBehindFence == [][SendsInTheEpoch]_vars

(* What was revoked, refused, used up or voided stays so: no handler, retry  *)
(* or restart revives a mandate, permit, start attempt, outbox row or closed *)
(* run.                                                                      *)
RevivesNothing ==
    /\ \A a \in Attempts :
          /\ mandate[a].state \in {"Revoked", "Exhausted"} => mandate'[a] = mandate[a]
          /\ attempt[a].status = "Rejected" => attempt'[a] = attempt[a]
    /\ \A o \in Ops :
          /\ permit[o].state \in {"Consumed", "Voided"} => permit'[o] = permit[o]
          /\ prepareRow[o] = "Voided" => prepareRow'[o] = "Voided"
          /\ authorizeRow[o] = "Voided" => authorizeRow'[o] = "Voided"
    /\ \A r \in Runs : run[r].state \in {"Completed", "Abandoned"} =>
          run'[r].state = run[r].state

NothingIsRevived == [][RevivesNothing]_vars

-----------------------------------------------------------------------------
(* Two sentences of the repository that the code does not keep.             *)

(* pause_executor_run pauses a prepared run without revoking anything,      *)
(* because "No mandate, permit or in-flight Arm exists for this prepared    *)
(* run": no request of one of its start attempts is still on its way.       *)
IdleRunHasNoArmInFlight ==
    \A r \in Runs : run[r].state = "Prepared" /\ run[r].pending = Nil =>
        \A a \in Attempts, h \in Hosts :
            attempt[a].run = r => armRow[<<a, h>>] # "EmitEntered"

(* The contract on late incompatible evidence: "set integrity=DISPUTED,     *)
(* quarantine affected resources/runs".                                     *)
DisputeQuarantinesResources ==
    \A o \in Submitted : work[o].integrity = "Disputed" =>
        \A r \in ResourceSet[o] : resource[r].quarantined

-----------------------------------------------------------------------------
(* What must eventually happen, and the scheduling it rests on.  While a    *)
(* host's session is live its dispatcher makes a pass every 100 ms          *)
(* (Dispatcher::run in crates/rx-host-client/src/delivery.rs): it plans     *)
(* every pending row, repeats a fence until it is answered, and asks again  *)
(* for the receipt of every authorized operation without an outcome.        *)
(* Nothing is assumed of operators, of the executor, of crashes, or of a    *)
(* host beyond that it answers a fence of its own epoch or a later one: it  *)
(* rejects a smaller one as stale, and need not answer that.                *)

Connected(h) == Running /\ host[h].registration = "Live"

Fairness ==
    /\ \A h \in Hosts, e \in Epoch :
          /\ WF_vars(Running /\ PlanFence(h, e))
          /\ WF_vars(Running /\ hostEpoch[h] = e /\ FinishFence(h, e))
          /\ WF_vars(HostFences(h, e) /\ UNCHANGED platformVars)
    /\ \A o \in Ops :
          WF_vars(Connected(HostOf[o]) /\ RecordHostReceipt(o, "authorize", "SendEntered"))

(* A revocation is confirmed by every connected host in the end: its fence, *)
(* or that of a later revocation, whichever of them the host took, has its  *)
(* receipt.  No fence waits for the host to be current, none is held back   *)
(* by one that was overtaken (invalidate_cell, plan_delivery,               *)
(* finish_fence_delivery).                                                  *)
FenceIsConfirmed ==
    \A h \in Hosts, e \in Epoch \ {1} :
        fenceRow[<<h, e>>] = "New" /\ Connected(h)
            ~> \/ \E f \in Epoch : f >= e /\ fenceRow[<<h, f>>] = "Delivered"
               \/ ~Connected(h)

(* A command that reached the device is noticed: even when its answer was   *)
(* lost the operation does not stay as if it had never been sent            *)
(* (reconciliation_work, record_host_receipt).                              *)
SentCommandIsNoticed ==
    \A o \in Ops :
        native[o] = "Sent"
            ~> work[o].phase # "Admitted" \/ ~Connected(HostOf[o])
=============================================================================
