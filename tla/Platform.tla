------------------------------ MODULE Platform ------------------------------
(***************************************************************************)
(* The platform process, its operators, its executor and its hosts around  *)
(* one cell: the commissioning and connection handlers, everything that    *)
(* revokes authority, stop and restart, and the whole next-state relation. *)
(*                                                                         *)
(* Source: crates/rx-application/src/engine/{configuration,executor_peer,  *)
(* producer,host_link,host_readmission,invalidation,observation,lifecycle, *)
(* mod}.rs and engine/qualification_activation/activation.rs.              *)
(***************************************************************************)
EXTENDS OperationDispatch

vars == <<platformVars, hostVars>>

-----------------------------------------------------------------------------
(* Commissioning and connections.                                           *)

SaveCell(c) == cell.revision < MaxRevision /\ cell' = [c EXCEPT !.revision = @ + 1]

Qualify ==
    /\ RequireServing /\ ~cell.qualified
    /\ SaveCell([cell EXCEPT !.qualified = TRUE, !.commissioned = TRUE])
    /\ UNCHANGED <<runtimeVars, host, startVars, workVars, fenceRow, ingested, hostVars>>

\* Nothing of the cell's past is open: runs closed, work concluded and
\* undisputed, resources free.
Quiet ==
    /\ \A r \in Runs : run[r].state \in {"None", "Completed", "Abandoned"}
    /\ \A o \in Submitted : /\ work[o].outcome \notin {"None", "Unresolved"}
                            /\ work[o].integrity = "Valid"
    /\ \A r \in Resources : resource[r].holder = Nil /\ ~resource[r].quarantined

\* commit_qualification_activation: the only way out of a block outside a
\* closed case.  It clears the blocks its review owns, all of them or not.
ActivateQualification(cleared) ==
    /\ RequireServing /\ cell.blocked /\ Quiet
    /\ \A h \in Hosts : PreparedHost(h)
    /\ SaveCell([cell EXCEPT !.qualified = TRUE, !.commissioned = TRUE,
                             !.mode = "Setup", !.blocked = ~cleared])
    /\ UNCHANGED <<runtimeVars, host, startVars, workVars, fenceRow, ingested, hostVars>>

\* A slip for the mutation runs: a new executor inherits running authority.
OpenExecutorQuietly(runtimeOnly) ==
    /\ executor.session < MaxSession
    /\ executor' = [session |-> executor.session + 1, live |-> TRUE]
    /\ UNCHANGED <<lifecycle, cellVars, startVars, workVars, fenceRow, ingested, hostVars>>

\* A new executor session revokes what the old one could do, unless there was
\* none or only the platform restarted (runtimeOnly) and did that already.
OpenExecutor(runtimeOnly) ==
    /\ executor.session < MaxSession
    /\ runtimeOnly => executor.session > 0 /\ ~executor.live
    /\ executor' = [session |-> executor.session + 1, live |-> TRUE]
    /\ IF executor.session = 0 \/ runtimeOnly
         THEN UNCHANGED <<cell, startVars, workVars, fenceRow, ingested>>
         ELSE Invalidate(Nil)
    /\ UNCHANGED <<lifecycle, host, hostVars>>

GenerationIdle ==
    /\ \A r \in Runs : run[r].state # "Executing"
    /\ \A o \in Submitted : /\ work[o].outcome \notin {"None", "Unresolved"}
                            /\ work[o].integrity = "Valid"

\* commit_host_link.  The plan's cell revision makes prepare and commit one
\* step.  A registration of another session or boot is replaced only under an
\* approved readmission, which waits for its work to be resolved.
LinkHost(h) ==
    /\ RequireServing
    /\ \A r \in Runs : run[r].state # "Executing"
    /\ host[h].registration = "Retired" => GenerationIdle
    /\ \A o \in Ops : HostOf[o] = h => native[o] \notin {"Prepared", "Sent"}
    /\ hostEpoch[h] = cell.epoch
    /\ host' = [host EXCEPT ![h] = [registration |-> "Live", epoch |-> cell.epoch]]
    /\ UNCHANGED <<runtimeVars, cell, startVars, workVars, fenceRow, ingested, hostVars>>

\* open_evidence_producer for a new host process, of this runtime or seen for
\* the first time after a restart.  (Only a reconnection of the same process
\* after a restart revokes nothing, and changes nothing here.)
ReplaceHost(h) ==
    /\ host[h].registration # "None"
    /\ Invalidate(Nil)
    /\ host' = [host EXCEPT ![h].registration = "Retired"]
    /\ UNCHANGED <<runtimeVars, hostVars>>

-----------------------------------------------------------------------------
(* Revocation, stop and restart.                                            *)

Hold == Invalidate(Nil) /\ UNCHANGED <<runtimeVars, host, hostVars>>

\* The watchdog sees a maintained condition fail while a run needs it.
MaintainedConditionLost ==
    /\ \E r \in Runs : run[r].state = "Executing" \/ run[r].pending # Nil
    /\ Invalidate(Nil)
    /\ UNCHANGED <<runtimeVars, host, hostVars>>

RequestRuntimeStop ==
    /\ lifecycle = "Serving"
    /\ lifecycle' = "StopRequested"
    /\ Invalidate(Nil)
    /\ UNCHANGED <<executor, host, hostVars>>

CommitRuntimeStop ==
    /\ lifecycle = "StopRequested"
    /\ lifecycle' = "StopCommitted"
    /\ UNCHANGED <<executor, cellVars, startVars, workVars, fenceRow, ingested, hostVars>>

\* A crash or a stop, then Engine::open: sessions of the earlier runtime are
\* void and no live authority is restored.
Restart(verified) ==
    /\ lifecycle' = "Serving"
    /\ executor' = [executor EXCEPT !.live = FALSE]
    /\ host' = [h \in Hosts |-> [host[h] EXCEPT !.registration =
                                    IF @ = "Live" THEN "Retired" ELSE @]]
    /\ InvalidateCell(Nil, cell.qualified /\ verified, work, permit, authorizeRow)
    /\ UNCHANGED <<activation, invocation, ingested, armRow, hostVars>>

-----------------------------------------------------------------------------
\* What a run that is starting, pausing or closing does.
StartStep ==
    \/ \E r \in Runs : CreateRun(r) \/ PauseRun(r) \/ AbandonRun(r)
    \/ \E r \in Runs, a \in Attempts, purpose \in {"Production", "Setup"},
          limit \in 1 .. MaxBudget : StartRun(r, a, purpose, limit)
    \/ \E a \in Attempts, h \in Hosts : PlanArm(a, h)
    \/ \E a \in Attempts, h \in Hosts, expired \in BOOLEAN :
          <<a, h>> \in armed /\ AcknowledgeArm(a, h, expired)

DispatchStep ==
    \/ \E r \in Runs : BeginPart(r)
    \/ \E r \in Runs, part \in 1 .. MaxBudget : CompletePart(r, part)
    \/ \E o \in Ops : \/ ResolveActivation(o) \/ Submit(o)
                      \/ PlanPrepare(o) \/ PlanAuthorize(o)
                      \/ NoteDeliveryAttention(o)
                      \/ DisputeOperation(o) \/ ReleaseResources(o)
    \/ \E o \in Ops, m \in {"prepare", "authorize"},
          state \in {"Prepared", "VoidedBeforeSend", "SendEntered"} :
          RecordHostReceipt(o, m, state)
    \/ \E o \in Ops, s \in Status : IngestEvidence(o, s)

FenceStep == \E h \in Hosts, e \in Epoch : PlanFence(h, e) \/ FinishFence(h, e)

CellStep ==
    \/ Qualify
    \/ \E cleared \in BOOLEAN : ActivateQualification(cleared)
    \/ \E runtimeOnly \in BOOLEAN : OpenExecutor(runtimeOnly)
    \/ \E h \in Hosts : LinkHost(h) \/ ReplaceHost(h)
    \/ Hold \/ MaintainedConditionLost
    \/ RequestRuntimeStop \/ CommitRuntimeStop

HostStep ==
    \/ \E a \in Attempts, h \in Hosts : HostArms(a, h)
    \/ \E o \in Ops : HostPrepares(o) \/ HostAuthorizes(o)
    \/ \E h \in Hosts, e \in Epoch : HostFences(h, e)
    \/ \E o \in Ops, s \in Status : NativeEnds(o, s) \/ NativeContradicts(o, s)

\* After its process stop is committed the platform only comes back by a boot.
Running == lifecycle # "StopCommitted"

Init == PlatformInit /\ HostInit

Next ==
    \/ Running /\ StartStep /\ UNCHANGED hostVars
    \/ Running /\ DispatchStep
    \/ Running /\ FenceStep
    \/ Running /\ CellStep
    \/ \E verified \in BOOLEAN : Restart(verified)
    \/ HostStep /\ UNCHANGED platformVars

Spec == Init /\ [][Next]_vars

TypeOK == PlatformTypeOK /\ HostTypeOK
=============================================================================
