------------------------------ MODULE Settlement ------------------------------
(* Freeing what an operation holds: the durable reconciliation plans, the     *)
(* dispatcher that works on them with reads of the host, the ordinary release *)
(* and, after an invalidation quarantined the resources, the settlement that  *)
(* a release manager approved.                                               *)
EXTENDS Naturals, FiniteSets

CONSTANTS
  Ops,          \* the operations of one run, each the one step of its part
  None,
  Upsets,       \* which kinds of upset happen
  MaxUpsets,    \* upsets (invalidations, restarts, relinks, disputes, expiries)
  MaxPlans,     \* plans of one operation, beyond the approved ones
  MaxFailures   \* reads of the host that fail

Plan == [id : Nat, state : {"pending", "complete", "attention"}]

ASSUME SettlementConstants ==
  /\ None \notin Nat /\ None \notin Plan
  /\ Upsets \subseteq {"revoked", "conflict", "runtime", "host", "relink", "dispute", "expiry"}
  /\ MaxUpsets \in Nat /\ MaxPlans \in Nat /\ MaxFailures \in Nat

VARIABLES
  cell,      \* its epoch, the epoch its host acknowledged, any foreign block
  link,      \* boots of the runtime and of the host, and the host's session
  run,       \* "executing", "recovery" or "completed"
  op,        \* op[o]: outcome, integrity and disposition of the operation
  device,    \* device[o]: what the equipment does with it
  auth,      \* auth[o]: the current settlement authorization, or None
  plan,      \* plan[o]: the reconciliation request, or None
  query,     \* the query the dispatcher is at, or None
  overtaken, \* history: operations whose context changed since their approval
  upsets, failures

vars == <<cell, link, run, op, device, auth, plan, query, overtaken, upsets, failures>>
store == <<cell, link, run, op, auth, plan>>

Init ==
  /\ cell = [epoch |-> 0, fenced |-> 0, foreign |-> FALSE]
  /\ link = [runtime |-> 0, host |-> 0, session |-> 0]
  /\ run = "executing"
  /\ op = [o \in Ops |-> [outcome |-> "none", valid |-> TRUE, disposition |-> "held"]]
  /\ device = [o \in Ops |-> "moving"]
  /\ auth = [o \in Ops |-> None]
  /\ plan = [o \in Ops |-> None]
  /\ query = None
  /\ overtaken = {}
  /\ upsets = 0 /\ failures = 0

----------------------------------------------------------------------------
(* What overtakes a settlement.                                              *)

Quarantined ==
  [o \in Ops |-> [op[o] EXCEPT !.disposition = IF @ = "held" THEN "quarantined" ELSE @]]

\* Every connected cell is invalidated: held resources are quarantined and the
\* run waits for recovery.
Invalidates(foreign) ==
  /\ cell' = [cell EXCEPT !.epoch = @ + 1, !.foreign = @ \/ foreign]
  /\ run' = IF run = "executing" THEN "recovery" ELSE run

Upset(kind) ==
  /\ kind \in Upsets
  /\ upsets < MaxUpsets
  /\ upsets' = upsets + 1
  /\ UNCHANGED <<device, plan, failures>>

Invalidate(kind) ==
  /\ Upset(kind)
  /\ Invalidates(kind = "conflict")
  /\ op' = Quarantined
  /\ overtaken' = Ops
  /\ UNCHANGED <<link, auth, query>>

\* The runtime starts again: a new boot, the recovery block, a new link.
RestartRuntime ==
  /\ Upset("runtime")
  /\ Invalidates(FALSE)
  /\ op' = Quarantined
  /\ link' = [link EXCEPT !.runtime = @ + 1, !.session = @ + 1]
  /\ query' = None
  /\ overtaken' = Ops
  /\ UNCHANGED auth

\* The host is linked again, after a restart of it or not, and served by another
\* dispatcher.  Boot 0 is the one that carried the operations out.
Relink(kind) ==
  /\ Upset(kind)
  /\ link' = [link EXCEPT !.session = @ + 1, !.host = IF kind = "host" THEN @ + 1 ELSE @]
  /\ query' = None
  /\ overtaken' = Ops
  /\ UNCHANGED <<cell, run, op, auth>>

\* Evidence that contradicts a recorded result.
Dispute(o) ==
  /\ op[o].outcome # "none" /\ op[o].valid
  /\ Upset("dispute")
  /\ op' = [Quarantined EXCEPT ![o].valid = FALSE]
  /\ Invalidates(TRUE)
  /\ overtaken' = Ops
  /\ UNCHANGED <<link, auth, query>>

Expire(o) ==
  /\ auth[o] # None
  /\ ~auth[o].expired
  /\ Upset("expiry")
  /\ auth' = [auth EXCEPT ![o].expired = TRUE]
  /\ overtaken' = overtaken \cup {o}
  /\ UNCHANGED <<cell, link, run, op, query>>

AckFence ==
  /\ cell.fenced # cell.epoch
  /\ cell' = [cell EXCEPT !.fenced = cell.epoch]
  /\ UNCHANGED <<link, run, op, device, auth, plan, query, overtaken, upsets, failures>>

\* The equipment ends the motion with a result or without one, and later hands
\* control and support over.
DeviceStep(o) ==
  /\ device[o] \in {"moving", "done"}
  /\ \/ device[o] = "moving" /\ device' = [device EXCEPT ![o] = "done"]
     \/ device[o] = "moving" /\ device' = [device EXCEPT ![o] = "lost"]
     \/ device[o] = "done" /\ device' = [device EXCEPT ![o] = "clear"]
  /\ UNCHANGED <<cell, link, run, op, auth, plan, query, overtaken, upsets, failures>>

----------------------------------------------------------------------------
(* Plans and approvals.                                                      *)

NewPlan(o) == [id |-> IF plan[o] = None THEN 1 ELSE plan[o].id + 1, state |-> "pending"]

\* request_reconciliation: coalesces with a plan that is pending.
RequestReconciliation(o) ==
  /\ op[o].disposition # "released"
  /\ plan[o] # None => plan[o].state # "pending" /\ plan[o].id < MaxPlans
  /\ plan' = [plan EXCEPT ![o] = NewPlan(o)]
  /\ UNCHANGED <<cell, link, run, op, device, auth, query, overtaken, upsets, failures>>

\* settlement.rs context, with known and fenced: a succeeded and valid operation
\* of a run in recovery, which this boot of the host carried out, on a cell
\* that is blocked by nothing but invalidations and fenced under them.
Context(o) ==
  /\ op[o].outcome = "succeeded" /\ op[o].valid
  /\ op[o].disposition = "quarantined"
  /\ cell.epoch > 0 /\ ~cell.foreign
  /\ run = "recovery"
  /\ link.host = 0
  /\ cell.fenced = cell.epoch

ApproveSettlement(o) ==
  /\ Context(o)
  /\ auth[o] # None => (o \in overtaken \/ auth[o].id < MaxPlans)
  /\ auth' = [auth EXCEPT ![o] =
       [id |-> NewPlan(o).id, link |-> link, epoch |-> cell.epoch,
        expired |-> FALSE, applied |-> FALSE]]
  /\ plan' = [plan EXCEPT ![o] = NewPlan(o)]
  /\ overtaken' = overtaken \ {o}
  /\ UNCHANGED <<cell, link, run, op, device, query, upsets, failures>>

PendingAuthorization(o) ==
  IF auth[o] = None THEN None ELSE IF auth[o].applied THEN None ELSE auth[o].id

----------------------------------------------------------------------------
(* One query of the dispatcher.                                              *)

Keep == UNCHANGED <<cell, link, run, device, auth, overtaken, upsets>>

\* plan_reconciliation: what the query goes on with.
QueryPlan(o) ==
  /\ query # None => query.op = o /\ query.at = "fetched"
  /\ plan[o] # None
  /\ plan[o].state = "pending"
  /\ query' =
       [op |-> o, request |-> plan[o].id, settlement |-> PendingAuthorization(o),
        epoch |-> cell.epoch, work |-> op[o], good |-> FALSE,
        at |-> CASE op[o].disposition = "released" -> "complete"
                 [] op[o].disposition # "released" /\ op[o].outcome = "none" -> "fetch"
                 [] op[o].disposition # "released" /\ op[o].outcome # "none" ->
                      IF op[o].valid /\ op[o].outcome # "unresolved" THEN "read" ELSE "attention"]
  /\ UNCHANGED <<op, plan, failures>> /\ Keep

\* The receipt and the evidence of the host are ingested, and the plan read again.
Fetch ==
  /\ query # None
  /\ query.at = "fetch"
  /\ LET o == query.op IN
       IF device[o] = "moving"
       THEN query' = None /\ UNCHANGED op
       ELSE /\ query' = [query EXCEPT !.at = "fetched"]
            /\ op' = IF op[o].outcome # "none" THEN op
                     ELSE [op EXCEPT ![o].outcome =
                             IF device[o] = "lost" THEN "unresolved" ELSE "succeeded"]
  /\ UNCHANGED <<plan, failures>> /\ Keep

\* The three handover observations of the host.
ReadHandover ==
  /\ query # None
  /\ query.at = "read"
  /\ query' = [query EXCEPT !.at = "record", !.good = device[query.op] = "clear"]
  /\ UNCHANGED <<op, plan, failures>> /\ Keep

\* record_reconciliation_observations: refused when the plan was replaced.
RecordObservations ==
  /\ query # None
  /\ query.at = "record"
  /\ query' = IF plan[query.op].id = query.request /\ plan[query.op].state = "pending"
              THEN [query EXCEPT !.at = "release"] ELSE None
  /\ UNCHANGED <<op, plan, failures>> /\ Keep

\* A slip for the mutation runs: the observations are recorded, not examined.
ReleaseConfirmedAny(o) == TRUE

\* release_confirmed: every observation says that the handover took place.
ReleaseConfirmed(o) == query.good

\* settle_resources: the authorization is the pending one and everything it is
\* bound to is as it was.
Authorized(o) ==
  /\ PendingAuthorization(o) = query.settlement
  /\ ~auth[o].expired
  /\ auth[o].link = link
  /\ auth[o].epoch = cell.epoch
  /\ Context(o)

\* release_resources: the cell is ready and in the epoch of the permit.
Undisturbed(o) ==
  /\ cell.epoch = 0 /\ link.host = 0
  /\ op[o].outcome # "none" /\ op[o].valid

\* complete_part_transition: every other part was completed before.
PartsDone(o) == \A p \in Ops \ {o} : op[p].disposition = "released"

Released(o) ==
  /\ op' = [op EXCEPT ![o].disposition = "released"]
  /\ run' = IF query.settlement # None /\ PartsDone(o) THEN "completed" ELSE run
  /\ auth' = IF query.settlement # None THEN [auth EXCEPT ![o].applied = TRUE] ELSE auth
  /\ query' = [query EXCEPT !.at = "complete"]

\* What the commit answers: revisions first, then the context, then the proof.
Release ==
  /\ query # None
  /\ query.at = "release"
  /\ LET o == query.op
         allowed == IF query.settlement # None THEN Authorized(o) ELSE Undisturbed(o)
         applied == IF query.settlement # None THEN auth[o].id = query.settlement /\ auth[o].applied
                                               ELSE op[o].disposition = "released"
     IN \/ /\ applied
           /\ query' = [query EXCEPT !.at = "complete"]
           /\ UNCHANGED <<op, run, auth>>
        \/ /\ ~applied
           /\ query.epoch # cell.epoch \/ query.work # op[o]
           /\ query' = None
           /\ UNCHANGED <<op, run, auth>>
        \/ /\ ~applied /\ query.epoch = cell.epoch /\ query.work = op[o]
           /\ ~allowed
           /\ query' = [query EXCEPT !.at = "attention"]
           /\ UNCHANGED <<op, run, auth>>
        \/ /\ ~applied /\ query.epoch = cell.epoch /\ query.work = op[o]
           /\ allowed
           /\ IF ReleaseConfirmed(o) THEN Released(o)
              ELSE query' = None /\ UNCHANGED <<op, run, auth>>
  /\ UNCHANGED <<cell, link, device, plan, overtaken, upsets, failures>>

\* update_reconciliation: only the plan the query was made for.
OwnPlan(o) == plan[o].id = query.request /\ plan[o].state = "pending"

UpdateReconciliation ==
  /\ query # None
  /\ query.at \in {"complete", "attention"}
  /\ plan' = IF /\ OwnPlan(query.op)
                /\ query.at = "complete" => op[query.op].disposition = "released"
             THEN [plan EXCEPT ![query.op].state = query.at] ELSE plan
  /\ query' = None
  /\ UNCHANGED <<op, failures>> /\ Keep

\* A read fails: for now, and the query is tried again, or for good.
ReadFails(permanent) ==
  /\ query # None
  /\ query.at \in {"fetch", "read"}
  /\ failures < MaxFailures
  /\ failures' = failures + 1
  /\ query' = IF permanent THEN [query EXCEPT !.at = "attention"] ELSE None
  /\ UNCHANGED <<op, plan>> /\ Keep

----------------------------------------------------------------------------
QueryStep == Fetch \/ ReadHandover \/ RecordObservations \/ Release \/ UpdateReconciliation

Next ==
  \/ \E kind \in {"revoked", "conflict"} : Invalidate(kind)
  \/ RestartRuntime
  \/ \E kind \in {"host", "relink"} : Relink(kind)
  \/ AckFence
  \/ \E o \in Ops : \/ Dispute(o) \/ Expire(o) \/ DeviceStep(o)
                    \/ RequestReconciliation(o) \/ ApproveSettlement(o) \/ QueryPlan(o)
  \/ QueryStep
  \/ \E permanent \in BOOLEAN : ReadFails(permanent)

Spec == Init /\ [][Next]_vars

----------------------------------------------------------------------------
Link == [runtime : Nat, host : Nat, session : Nat]
Outcomes == {"none", "succeeded", "unresolved"}
Operation == [outcome : Outcomes, valid : BOOLEAN,
              disposition : {"held", "quarantined", "released"}]
Authorization == [id : Nat, link : Link, epoch : Nat, expired : BOOLEAN, applied : BOOLEAN]
Query == [op : Ops, request : Nat, settlement : Nat \cup {None}, epoch : Nat,
          work : Operation, good : BOOLEAN,
          at : {"fetch", "fetched", "read", "record", "release", "complete", "attention"}]

TypeOK ==
  /\ cell \in [epoch : Nat, fenced : Nat, foreign : BOOLEAN]
  /\ link \in Link
  /\ run \in {"executing", "recovery", "completed"}
  /\ op \in [Ops -> Operation]
  /\ device \in [Ops -> {"moving", "done", "lost", "clear"}]
  /\ auth \in [Ops -> Authorization \cup {None}]
  /\ plan \in [Ops -> Plan \cup {None}]
  /\ query \in Query \cup {None}
  /\ overtaken \subseteq Ops
  /\ upsets \in Nat /\ failures \in Nat

\* What an invalidation quarantined is released on an approval in whose context
\* nothing changed since: no invalidation, restart, new link, dispute or expiry
\* between the approval and the commit (settlement.rs settle_resources).
ReleasesInItsContext ==
  \A o \in Ops :
    op[o].disposition = "quarantined" /\ op'[o].disposition = "released" =>
      auth[o] # None /\ o \notin overtaken

\* Resources are freed only while the equipment is done with the operation and
\* handed over, and never for a result that is missing or disputed
\* (handover.rs release_confirmed).
ReleasesHandedOver ==
  \A o \in Ops :
    op[o].disposition # "released" /\ op'[o].disposition = "released" =>
      device[o] = "clear" /\ op[o].valid

\* A run the settlement completed holds nothing (handover.rs
\* complete_part_transition, called by settle_resources).
CompletesEmpty ==
  run' = "completed" => \A o \in Ops : op'[o].disposition = "released"

\* No step frees what it should not, or completes a run that holds something.
ReleaseIsSafe == [][ReleasesInItsContext /\ ReleasesHandedOver /\ CompletesEmpty]_vars
=============================================================================
