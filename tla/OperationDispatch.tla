------------------------- MODULE OperationDispatch -------------------------
(***************************************************************************)
(* One operation from its part and activation to the release of its        *)
(* resources: submission, the two-step delivery Prepare / Authorize, host  *)
(* receipts, native evidence, handover, and the fences that revoke.        *)
(*                                                                         *)
(* Source: crates/rx-application/src/engine/{workflow,dispatch,delivery,   *)
(* evidence,handover}.rs and crates/rx-host-client/src/delivery.rs, whose  *)
(* dispatcher issues a Prepare or Authorize request only on the first      *)
(* emission of its row and afterwards only asks for the receipt.           *)
(***************************************************************************)
EXTENDS HostPeer

BeginPart(r) ==
    /\ ActiveRun(r)
    /\ run[r].purpose = "Production" /\ run[r].used < run[r].limit
    /\ run' = [run EXCEPT ![r].used = @ + 1]
    /\ UNCHANGED <<runtimeVars, cellVars, attempt, mandate, armRow, workVars,
                   fenceRow, ingested, hostVars>>

ResolveActivation(o) ==
    /\ activation[o] = "None"
    /\ ActiveRun(RunOf[o]) /\ ValidatePart(o) /\ PredecessorsDone(o)
    /\ activation' = [activation EXCEPT ![o] = "Resolved"]
    /\ UNCHANGED <<runtimeVars, cellVars, startVars, work, invocation, permit,
                   resource, prepareRow, authorizeRow, fenceRow, ingested, hostVars>>

\* A slip for the mutation runs: quarantine does not keep a resource busy, nor
\* does a holder.
FreeAlways(o) == TRUE

Free(o) == \A r \in ResourceSet[o] :
              resource[r].holder = Nil /\ ~resource[r].quarantined

Submit(o) ==
    LET r == RunOf[o]
    IN  /\ activation[o] = "Resolved"
        /\ ActiveRun(r) /\ ValidatePart(o) /\ PredecessorsDone(o)
        /\ PreparedHost(HostOf[o])
        /\ Free(o)
        /\ run[r].purpose = "Setup" => run[r].used < run[r].limit
        /\ run' = [run EXCEPT ![r].used =
                      IF run[r].purpose = "Setup" THEN @ + 1 ELSE @]
        /\ resource' = [x \in Resources |->
                           IF x \in ResourceSet[o] THEN [resource[x] EXCEPT !.holder = o]
                           ELSE resource[x]]
        /\ permit' = [permit EXCEPT ![o] =
              [state |-> "Issued", epoch |-> cell.epoch, mandate |-> run[r].mandate]]
        /\ work' = [work EXCEPT ![o] = Admitted]
        /\ activation' = [activation EXCEPT ![o] = "Submitted"]
        /\ prepareRow' = [prepareRow EXCEPT ![o] = "New"]
        /\ UNCHANGED <<runtimeVars, cellVars, attempt, mandate, armRow, invocation,
                       authorizeRow, fenceRow, ingested, hostVars>>

-----------------------------------------------------------------------------
(* Delivery.                                                                *)

\* validate_emission for an operation: the authority is checked again at the
\* last moment before the request may leave.
EmissionAllowed(o) ==
    /\ host[HostOf[o]].registration = "Live"
    /\ ActiveRun(RunOf[o])
    /\ work[o].outcome = "None" /\ work[o].integrity = "Valid"
    /\ permit[o].state = "Issued"

PlanPrepare(o) ==
    /\ prepareRow[o] = "New"
    /\ EmissionAllowed(o)
    /\ prepareRow' = [prepareRow EXCEPT ![o] = "EmitEntered"]
    /\ prepareWire' = prepareWire \cup {o}
    /\ UNCHANGED <<runtimeVars, cellVars, startVars, activation, work, invocation,
                   permit, resource, authorizeRow, fenceRow, ingested, authorizeWire, armed, hostEpoch,
                   fenced, native, sends, results>>

\* A slip for the mutation runs: an entered authorization is issued again.
PlanAuthorizeAgain(o) ==
    /\ authorizeRow[o] \in {"New", "EmitEntered"}
    /\ o \in invocation
    /\ authorizeRow[o] = "New" => EmissionAllowed(o)
    /\ authorizeRow' = [authorizeRow EXCEPT ![o] = "EmitEntered"]
    /\ authorizeWire' = authorizeWire \cup {o}
    /\ UNCHANGED <<runtimeVars, cellVars, startVars, activation, work, invocation,
                   permit, resource, prepareRow, fenceRow, ingested, prepareWire, armed, hostEpoch,
                   fenced, native, sends, results>>

PlanAuthorize(o) ==
    /\ authorizeRow[o] = "New"
    /\ o \in invocation
    /\ EmissionAllowed(o)
    /\ authorizeRow' = [authorizeRow EXCEPT ![o] = "EmitEntered"]
    /\ authorizeWire' = authorizeWire \cup {o}
    /\ UNCHANGED <<runtimeVars, cellVars, startVars, activation, work, invocation,
                   permit, resource, prepareRow, fenceRow, ingested, prepareWire, armed, hostEpoch,
                   fenced, native, sends, results>>

\* A timeout or an unknown remote operation proves nothing about the device.
NoteDeliveryAttention(o) ==
    /\ "EmitEntered" \in {prepareRow[o], authorizeRow[o]}
    /\ work[o].outcome = "None"
    /\ work' = [work EXCEPT ![o] = LoseContinuity(@)]
    /\ UNCHANGED <<runtimeVars, cellVars, startVars, activation, invocation, permit,
                   resource, prepareRow, authorizeRow, fenceRow, ingested, hostVars>>

\* A slip for the mutation runs: a fence waits, like any other delivery, until
\* its host is at the cell's epoch.
PlanFenceOfCurrentHost(h, e) ==
    /\ fenceRow[<<h, e>>] = "New" /\ PreparedHost(h)
    /\ fenceRow' = [fenceRow EXCEPT ![<<h, e>>] = "EmitEntered"]
    /\ UNCHANGED <<runtimeVars, cellVars, startVars, workVars, ingested, hostVars>>

PlanFence(h, e) ==
    /\ fenceRow[<<h, e>>] = "New" /\ host[h].registration = "Live"
    /\ fenceRow' = [fenceRow EXCEPT ![<<h, e>>] = "EmitEntered"]
    /\ UNCHANGED <<runtimeVars, cellVars, startVars, workVars, ingested, hostVars>>

\* A slip for the mutation runs: any fence receipt makes the host current.
RegisteredEpochUnchecked(h, e) == cell.epoch

\* The epoch of h's registration once its receipt for fence e is recorded.
RegisteredEpoch(h, e) == IF cell.epoch = e THEN e ELSE host[h].epoch

FinishFence(h, e) ==
    /\ fenceRow[<<h, e>>] = "EmitEntered" /\ host[h].registration = "Live"
    /\ <<h, e>> \in fenced
    /\ fenceRow' = [fenceRow EXCEPT ![<<h, e>>] = "Delivered"]
    /\ host' = [host EXCEPT ![h].epoch = RegisteredEpoch(h, e)]
    /\ UNCHANGED <<runtimeVars, cell, startVars, workVars, ingested, hostVars>>

-----------------------------------------------------------------------------
(* record_host_receipt.  Recording a receipt again has the effect of        *)
(* recording it once, so the ledger of receipt sequences is left out.  The  *)
(* handler also re-applies evidence that came before the first correlated   *)
(* receipt: there never is any (EvidenceIsCorrelated), so that call has no  *)
(* effect here.                                                             *)

MessageRow(m, o) == IF m = "prepare" THEN prepareRow[o] ELSE authorizeRow[o]

\* A Prepared receipt authorizes the operation while its permit stands; the
\* outbox keeps a row it already has.
EnqueueAuthorize(o) ==
    IF authorizeRow[o] = "None" /\ work[o].outcome = "None" /\ permit[o].state = "Issued"
      THEN "New" ELSE authorizeRow[o]

\* A slip for the mutation runs: a SendEntered receipt leaves the operation as
\* it was admitted.
ReceiptWorkUnsent(o, state) ==
    IF state = "VoidedBeforeSend" /\ work[o].outcome = "None"
      THEN Conclude(work[o], "NotExecuted", {"void"}) ELSE work[o]

ReceiptWork(o, state) ==
    CASE state = "VoidedBeforeSend" /\ work[o].outcome = "None" ->
             Conclude(work[o], "NotExecuted", {"void"})
      [] state = "SendEntered" /\ work[o].phase = "Admitted" -> Sent(work[o])
      [] OTHER -> work[o]

ReceiptAuthorizeRow(o, m, state) ==
    CASE m = "prepare" /\ state = "Prepared" -> EnqueueAuthorize(o)
      [] m = "authorize" /\ state # "Prepared" -> "Delivered"
      [] OTHER -> authorizeRow[o]

RecordHostReceipt(o, m, state) ==
    /\ state \in ReceiptsOf(o)
    /\ MessageRow(m, o) \in {"EmitEntered", "Delivered"}
    /\ invocation' = IF native[o] = "Refused" THEN invocation ELSE invocation \cup {o}
    /\ work' = [work EXCEPT ![o] = ReceiptWork(o, state)]
    /\ permit' = IF state = "SendEntered" /\ permit[o].state = "Issued"
                   THEN [permit EXCEPT ![o].state = "Consumed"] ELSE permit
    /\ prepareRow' = IF m = "prepare" THEN [prepareRow EXCEPT ![o] = "Delivered"]
                     ELSE prepareRow
    /\ authorizeRow' = [authorizeRow EXCEPT ![o] = ReceiptAuthorizeRow(o, m, state)]
    /\ UNCHANGED <<runtimeVars, cellVars, startVars, activation, resource, fenceRow,
                   ingested, hostVars>>
-----------------------------------------------------------------------------
(* What the platform concludes from native evidence, and what it does with  *)
(* the conclusion: disputes, resource handover, finished parts (evidence.rs *)
(* and handover.rs).  A canceled native result is handled as a failed one,  *)
(* so "fail" stands for both; "unclear" is a status the completion rule     *)
(* does not name.                                                           *)

\* The execution context of the permit is still the cell's.
Continuity(o) == cell.epoch = permit[o].epoch /\ ~cell.blocked

\* What the completion rule may make of a status ("None": no conclusion).
\* Postconditions count only while the execution context has not changed.
NativeOutcomes(o, s) ==
    CASE s = "fail" -> {"Failed"}
      [] s = "ok" /\ o \notin Postconditions -> {"Succeeded"}
      [] s = "ok" /\ o \in Postconditions ->
             IF Continuity(o) THEN {"Succeeded", "None"} ELSE {"None"}
      [] OTHER -> {"None"}

\* The operation after apply_native reached `outcome`.
WorkAfterEvidence(o, outcome) ==
    IF outcome # "None" THEN Conclude(work[o], outcome, {"native"})
    ELSE LoseContinuity(work[o])

\* A correlated result proves native entry: the permit is used up and an
\* authorization still waiting is withdrawn.
PermitAfterEvidence(o) ==
    [permit EXCEPT ![o].state = IF @ = "Issued" THEN "Consumed" ELSE @]

AuthorizeRowAfterEvidence(o) ==
    [authorizeRow EXCEPT ![o] = IF @ = "New" THEN "Voided" ELSE @]

ApplyCorrelated(o, outcome) ==
    LET w == [work EXCEPT ![o] = WorkAfterEvidence(o, outcome)]
        p == PermitAfterEvidence(o)
        au == AuthorizeRowAfterEvidence(o)
    IN  IF w[o].integrity = "Disputed"
          THEN InvalidateCell(Nil, cell.qualified, w, p, au)
          ELSE /\ work' = w /\ permit' = p /\ authorizeRow' = au
               /\ UNCHANGED <<cell, run, attempt, mandate, resource, prepareRow, fenceRow>>

\* Evidence that arrives before any receipt named its invocation.
ApplyUncorrelated(o) ==
    /\ work' = [work EXCEPT ![o] = LoseContinuity(@)]
    /\ UNCHANGED <<cell, run, attempt, mandate, permit, resource, prepareRow,
                   authorizeRow, fenceRow>>

IngestEvidence(o, s) ==
    /\ s \in results[o] \ ingested[o]
    /\ ingested' = [ingested EXCEPT ![o] = @ \cup {s}]
    /\ IF o \in invocation
         THEN \E outcome \in NativeOutcomes(o, s) : ApplyCorrelated(o, outcome)
         ELSE ApplyUncorrelated(o)
    /\ UNCHANGED <<runtimeVars, host, armRow, activation, invocation, hostVars>>

\* A journal sequence that was committed with other content: the receipt
\* branch of record_host_receipt and dispute_affected.
DisputeOperation(o) ==
    /\ activation[o] = "Submitted"
    /\ InvalidateCell(Nil, cell.qualified, [work EXCEPT ![o] = Dispute(@)],
                      permit, authorizeRow)
    /\ UNCHANGED <<runtimeVars, host, armRow, activation, invocation, ingested, hostVars>>

\* Handover under the permit's own epoch: the three observations are fresh,
\* so the device has ended and control and support are confirmed.
ReleaseResources(o) ==
    /\ activation[o] = "Submitted"
    /\ work[o].disposition # "Released"
    /\ Ready
    /\ host[HostOf[o]].registration = "Live" /\ cell.epoch = permit[o].epoch
    /\ CanRelease(work[o], {"handover"})
    /\ o \in invocation /\ "native" \in work[o].evidence
    /\ \A r \in ResourceSet[o] : resource[r].holder = o
    /\ resource' = [r \in Resources |->
                       IF r \in ResourceSet[o]
                         THEN [resource[r] EXCEPT !.holder = Nil, !.quarantined = FALSE]
                         ELSE resource[r]]
    /\ work' = [work EXCEPT ![o] = Release(@, {"handover"})]
    /\ UNCHANGED <<runtimeVars, cellVars, startVars, activation, invocation, permit,
                   prepareRow, authorizeRow, fenceRow, ingested, hostVars>>

StepsOf(r, part) == {o \in Ops : RunOf[o] = r /\ VisitOf[o] = part}

\* A slip for the mutation runs: a part counts as done before its steps ended.
StepsConfirmedEarly(r, part) ==
    \A o \in StepsOf(r, part) : activation[o] = "Submitted"

StepsConfirmed(r, part) ==
    \A o \in StepsOf(r, part) :
        /\ activation[o] = "Submitted"
        /\ work[o].outcome = "Succeeded" /\ work[o].integrity = "Valid"
        /\ work[o].disposition = "Released"

\* The last part of an exhausted budget completes the run and its mandate.
CompletePart(r, part) ==
    /\ ActiveRun(r)
    /\ run[r].purpose = "Production"
    /\ part \in (1 .. run[r].used) \ run[r].done
    /\ StepsOf(r, part) # {} /\ StepsConfirmed(r, part)
    /\ LET done == run[r].done \cup {part}
           finished == done = 1 .. run[r].used /\ run[r].used = run[r].limit
       IN  /\ run' = [run EXCEPT ![r] =
                 [@ EXCEPT !.done = done,
                           !.state = IF finished THEN "Completed" ELSE run[r].state]]
           /\ mandate' = IF finished
                THEN [mandate EXCEPT ![run[r].mandate].state = "Exhausted"] ELSE mandate
    /\ UNCHANGED <<runtimeVars, cellVars, attempt, armRow, workVars, fenceRow,
                   ingested, hostVars>>
=============================================================================
