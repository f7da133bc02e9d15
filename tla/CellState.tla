----------------------------- MODULE CellState -----------------------------
(***************************************************************************)
(* The durable state of one cell, the checks every handler shares, and the *)
(* invalidation that revokes all execution authority in one transaction.   *)
(*                                                                         *)
(* Source: crates/rx-application/src/engine/{admission,invalidation}.rs    *)
(* and the records of crates/rx-application/src.  Every engine method is   *)
(* one IMMEDIATE transaction of a single writer, so every handler is one   *)
(* action; a rejected call changes nothing and is not a step.              *)
(*                                                                         *)
(* Abstractions.  Scope epochs move with the cell epoch in the code and    *)
(* are left to it.  Conditions, grants and expiry times may make a handler *)
(* reject at any moment, so they only restrict when an action is taken;    *)
(* where an expired time changes state, an action of its own models it.    *)
(* An operation is identified by its activation slot (run, step, visit).   *)
(***************************************************************************)
EXTENDS Operation

CONSTANTS
    Runs, Attempts, Hosts, Resources,
    Ops,             \* activation slots: one (run, step, visit) each
    RunOf, VisitOf, HostOf, ResourceSet, Predecessors,
    Postconditions,  \* the slots whose success needs postconditions to pass
    Nil,             \* no run, attempt or operation
    MaxEpoch, MaxRevision, MaxSession, MaxBudget

ASSUME NilAssumption == Nil \notin Runs \cup Attempts \cup Ops
ASSUME SlotAssumption ==
    /\ RunOf \in [Ops -> Runs]
    /\ VisitOf \in [Ops -> 1 .. MaxBudget]
    /\ HostOf \in [Ops -> Hosts]
    /\ ResourceSet \in [Ops -> SUBSET Resources]
    /\ Predecessors \in [Ops -> SUBSET Ops]
    /\ Postconditions \subseteq Ops
ASSUME BoundAssumption ==
    /\ MaxEpoch \in Nat \ {0} /\ MaxRevision \in Nat \ {0}
    /\ MaxSession \in Nat \ {0} /\ MaxBudget \in Nat \ {0}
ASSUME HostsAssumption == Hosts # {}

VARIABLES
    lifecycle,      \* runtime/lifecycle: the phase of this platform process
    executor,       \* the executor's session and whether it is still valid
    cell,           \* the cell record
    host,           \* host registrations: session state and fenced epoch
    run, attempt, mandate,
    armRow,         \* outbox rows Delivery::Arm, by attempt and host
    activation,     \* how far each slot has come
    work,           \* the operation of each submitted slot
    invocation,     \* slots whose work record names a host invocation
    permit, resource,
    prepareRow, authorizeRow,   \* outbox rows Delivery::Prepare, ::Authorize
    fenceRow,       \* outbox rows Delivery::Fence, by host and epoch
    ingested        \* native evidence committed to the evidence ledger

runtimeVars  == <<lifecycle, executor>>
cellVars     == <<cell, host>>
startVars    == <<run, attempt, mandate, armRow>>
workVars     == <<activation, work, invocation, permit, resource,
                  prepareRow, authorizeRow>>
platformVars == <<runtimeVars, cellVars, startVars, workVars, fenceRow, ingested>>

EvidenceKind == {"void", "native", "handover"}
Status       == {"ok", "fail", "unclear"}
OutboxState  == {"None", "New", "EmitEntered", "Delivered", "Voided"}
Epoch        == 1 .. MaxEpoch
Session      == 0 .. MaxSession

CellRecord == [epoch : Epoch, revision : 1 .. MaxRevision, qualified : BOOLEAN,
               commissioned : BOOLEAN, blocked : BOOLEAN,
               mode : {"None", "Automatic", "Setup"}]
RunRecord ==
    [state : {"None", "Prepared", "Executing", "Paused", "RecoveryRequired",
              "Completed", "Abandoned"},
     purpose : {"None", "Production", "Setup"},
     limit : 0 .. MaxBudget, used : 0 .. MaxBudget, session : Session,
     mandate : Attempts \cup {Nil}, pending : Attempts \cup {Nil},
     done : SUBSET (1 .. MaxBudget)]
AttemptRecord ==
    [status : {"None", "Arming", "Started", "Rejected"}, run : Runs \cup {Nil},
     epoch : Epoch, revision : 1 .. MaxRevision, session : Session,
     acks : SUBSET Hosts]
MandateRecord == [state : {"None", "Active", "Revoked", "Exhausted"},
                  epoch : Epoch, session : Session]
PermitRecord  == [state : {"None", "Issued", "Consumed", "Voided"},
                  epoch : Epoch, mandate : Attempts \cup {Nil}]
ResourceRecord == [holder : Ops \cup {Nil}, quarantined : BOOLEAN]

PlatformTypeOK ==
    /\ lifecycle \in {"Serving", "StopRequested", "StopCommitted"}
    /\ executor \in [session : Session, live : BOOLEAN]
    /\ cell \in CellRecord
    /\ host \in [Hosts -> [registration : {"None", "Live", "Retired"}, epoch : Epoch]]
    /\ run \in [Runs -> RunRecord]
    /\ attempt \in [Attempts -> AttemptRecord]
    /\ mandate \in [Attempts -> MandateRecord]
    /\ armRow \in [Attempts \X Hosts -> OutboxState]
    /\ activation \in [Ops -> {"None", "Resolved", "Submitted"}]
    /\ work \in [Ops -> OperationRecord(EvidenceKind)]
    /\ invocation \subseteq Ops
    /\ permit \in [Ops -> PermitRecord]
    /\ resource \in [Resources -> ResourceRecord]
    /\ prepareRow \in [Ops -> OutboxState]
    /\ authorizeRow \in [Ops -> OutboxState]
    /\ fenceRow \in [Hosts \X Epoch -> OutboxState]
    /\ ingested \in [Ops -> SUBSET Status]

\* An installed cell on a first boot: nothing qualified, nobody connected.
PlatformInit ==
    /\ lifecycle = "Serving"
    /\ executor = [session |-> 0, live |-> FALSE]
    /\ cell = [epoch |-> 1, revision |-> 1, qualified |-> FALSE,
               commissioned |-> FALSE, blocked |-> FALSE, mode |-> "None"]
    /\ host = [h \in Hosts |-> [registration |-> "None", epoch |-> 1]]
    /\ run = [r \in Runs |->
                 [state |-> "None", purpose |-> "None", limit |-> 0, used |-> 0,
                  session |-> 0, mandate |-> Nil, pending |-> Nil, done |-> {}]]
    /\ attempt = [a \in Attempts |->
                     [status |-> "None", run |-> Nil, epoch |-> 1,
                      revision |-> 1, session |-> 0, acks |-> {}]]
    /\ mandate = [a \in Attempts |-> [state |-> "None", epoch |-> 1, session |-> 0]]
    /\ armRow = [x \in Attempts \X Hosts |-> "None"]
    /\ activation = [o \in Ops |-> "None"]
    /\ work = [o \in Ops |-> Admitted]
    /\ invocation = {}
    /\ permit = [o \in Ops |-> [state |-> "None", epoch |-> 1, mandate |-> Nil]]
    /\ resource = [r \in Resources |-> [holder |-> Nil, quarantined |-> FALSE]]
    /\ prepareRow = [o \in Ops |-> "None"]
    /\ authorizeRow = [o \in Ops |-> "None"]
    /\ fenceRow = [x \in Hosts \X Epoch |-> "None"]
    /\ ingested = [o \in Ops |-> {}]

-----------------------------------------------------------------------------
(* The checks of admission.rs.                                              *)

RequireServing == lifecycle = "Serving"

Ready ==
    /\ RequireServing
    /\ cell.qualified /\ cell.commissioned
    /\ ~cell.blocked

PreparedHost(h) == host[h].registration = "Live" /\ host[h].epoch = cell.epoch

\* The executor of the current session may act for run r.
ActiveRun(r) ==
    /\ Ready
    /\ run[r].state = "Executing"
    /\ executor.live /\ run[r].session = executor.session
    /\ run[r].mandate # Nil
    /\ mandate[run[r].mandate].state = "Active"
    /\ mandate[run[r].mandate].epoch = cell.epoch
    /\ mandate[run[r].mandate].session = executor.session

\* A production slot needs its part; a setup run visits each step once.
ValidatePart(o) ==
    \/ run[RunOf[o]].purpose = "Production" /\ VisitOf[o] \in 1 .. run[RunOf[o]].used
    \/ run[RunOf[o]].purpose = "Setup" /\ VisitOf[o] = 1

PredecessorsDone(o) ==
    \A p \in Predecessors[o] :
        /\ activation[p] = "Submitted"
        /\ work[p].outcome = "Succeeded" /\ work[p].integrity = "Valid"

\* Submitted work of the cell.
Submitted == {o \in Ops : activation[o] = "Submitted"}

-----------------------------------------------------------------------------
(* invalidate_cell.  Handlers call it as their last step, some after they   *)
(* changed work, permits or the authorize row in the same transaction: w, p *)
(* and au are the values it starts from.  paused is the run that an         *)
(* executor pause stops, or Nil.                                            *)

Holds(o) == \E r \in ResourceSet[o] : resource[r].holder = o

\* A slip for the mutation runs: a request that has left the outbox counts as
\* withdrawn.
InvalidatedInFlight(o, w, au) ==
    IF w[o].outcome = "None" /\ w[o].knowledge = "NotSent"
      THEN Conclude(w[o], "NotExecuted", {"void"}) ELSE w[o]

\* Work that never left the outbox is proven unexecuted; anything else may
\* have acted and waits for reconciliation.
Invalidated(o, w, au) ==
    LET voided == prepareRow[o] = "New" \/ au[o] = "New"
        closed == IF w[o].outcome # "None" THEN w[o]
                  ELSE IF voided /\ w[o].knowledge = "NotSent"
                    THEN Conclude(w[o], "NotExecuted", {"void"})
                    ELSE LoseContinuity(w[o])
    IN  IF Holds(o) THEN Quarantine(closed) ELSE closed

VoidNew(row, w) ==
    [o \in Ops |-> IF o \in Submitted /\ w[o].outcome = "None" /\ row[o] = "New"
                     THEN "Voided" ELSE row[o]]

\* A slip for the mutation runs: closed runs are revoked too.
InvalidateAnyRun(r, paused) ==
    [run[r] EXCEPT !.state = IF r = paused THEN "Paused" ELSE "RecoveryRequired",
                   !.session = 0, !.pending = Nil]

InvalidateRun(r, paused) ==
    IF run[r].state \in {"Executing", "Prepared", "Paused"}
      THEN [run[r] EXCEPT !.state = IF r = paused THEN "Paused" ELSE "RecoveryRequired",
                          !.session = 0, !.pending = Nil]
      ELSE run[r]

RevokedCell(qualified) ==
    [cell EXCEPT !.epoch = @ + 1, !.revision = @ + 1, !.qualified = qualified,
                 !.commissioned = FALSE, !.blocked = TRUE]

RejectIfArming(x)   == IF x.status = "Arming" THEN [x EXCEPT !.status = "Rejected"] ELSE x
RevokeIfActive(m)   == IF m.state = "Active" THEN [m EXCEPT !.state = "Revoked"] ELSE m
VoidIfIssued(p)     == IF p.state = "Issued" THEN [p EXCEPT !.state = "Voided"] ELSE p
QuarantineIfHeld(x) == IF x.holder # Nil THEN [x EXCEPT !.quarantined = TRUE] ELSE x

\* Leaves activation, invocation, ingested, armRow, lifecycle, executor and
\* host to the caller, and cell.qualified (a restart may drop it).
InvalidateCell(paused, qualified, w, p, au) ==
    /\ cell.epoch < MaxEpoch /\ cell.revision < MaxRevision
    /\ cell' = RevokedCell(qualified)
    /\ run' = [r \in Runs |-> InvalidateRun(r, paused)]
    /\ attempt' = [a \in Attempts |-> RejectIfArming(attempt[a])]
    /\ mandate' = [a \in Attempts |-> RevokeIfActive(mandate[a])]
    /\ permit' = [o \in Ops |-> VoidIfIssued(p[o])]
    /\ work' = [o \in Ops |-> IF o \in Submitted THEN Invalidated(o, w, au) ELSE w[o]]
    /\ prepareRow' = VoidNew(prepareRow, w)
    /\ authorizeRow' = VoidNew(au, w)
    /\ resource' = [r \in Resources |-> QuarantineIfHeld(resource[r])]
    /\ fenceRow' = [x \in Hosts \X Epoch |->
                       IF x[2] = cell.epoch + 1 THEN "New" ELSE fenceRow[x]]

\* An invalidation that nothing else preceded in its transaction.
Invalidate(paused) ==
    /\ InvalidateCell(paused, cell.qualified, work, permit, authorizeRow)
    /\ UNCHANGED <<activation, invocation, ingested, armRow>>
=============================================================================
