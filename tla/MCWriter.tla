------------------------------ MODULE MCWriter ------------------------------
(***************************************************************************)
(* What the platform writes down and what follows from it, in four parts   *)
(* that share no state; the initial state chooses one, and only that one   *)
(* moves.                                                                  *)
(*                                                                         *)
(* Store: two clients of a store that an older revision began.             *)
(* Ledger: an operation's entry under any sequence of calls, with three    *)
(* evidence identities, so that a conclusion, a contradicting one and a    *)
(* release each bring their own.                                           *)
(* Delivery: one operation and one host under the dispatcher's fairness.   *)
(* Closure: the cells a revocation reaches, with three cells and two       *)
(* names, so that a chain may connect two cells that share nothing.        *)
(***************************************************************************)
EXTENDS StateWriter, OperationLifecycle, AffectedCells, TLC

CONSTANTS c1, c2, k1, k2, r1, r2, a1, h1, o1, x1

VARIABLES
    lifecycle, executor, cell, host, run, attempt, mandate, armRow, activation,
    work, invocation, permit, resource, prepareRow, authorizeRow, fenceRow, ingested,
    prepareWire, authorizeWire, armed, hostEpoch, fenced, native, sends, results,
    part                \* "store", "ledger", "delivery" or "closure"

deliveryVars ==
    <<lifecycle, executor, cell, host, run, attempt, mandate, armRow, activation,
      work, invocation, permit, resource, prepareRow, authorizeRow, fenceRow, ingested,
      prepareWire, authorizeWire, armed, hostEpoch, fenced, native, sends, results>>

InRun   == o1 :> r1
AtVisit == o1 :> 1
OnHost  == o1 :> h1
Needing == o1 :> {x1}
After   == o1 :> {}

Delivery == INSTANCE PlatformProperties WITH
    Nil <- None,
    Runs <- {r1}, Attempts <- {a1}, Hosts <- {h1}, Resources <- {x1}, Ops <- {o1},
    RunOf <- InRun, VisitOf <- AtVisit, HostOf <- OnHost, ResourceSet <- Needing,
    Predecessors <- After, Postconditions <- {o1},
    MaxEpoch <- 3, MaxRevision <- 5, MaxSession <- 1, MaxBudget <- 1, MaxResults <- 1

-----------------------------------------------------------------------------
(* Bounds of the store: the clients compete under one key, or one client    *)
(* uses two keys for one run or one key for two runs.  Once there is a      *)
(* backup that client has one request at a time in the writer: the lanes    *)
(* are empty whenever a file is copied or replaced.  A restore dies between *)
(* its two writes only as MidwayUntold says.                                *)

Tasks == Range(control) \cup Range(normal) \cup ({executing} \ {None})

Alone == waiting[c2] = 0 /\ \A t \in Tasks : t.client = c1

OneKey == disk.saved[k2] = None /\ \A t \in Tasks : t.key = k1

OneRun == disk.runs[r2] = Absent /\ \A t \in Tasks : t.body.run = r1

SmallStore ==
    \/ OneKey /\ OneRun /\ backup = None
    \/ Alone /\ (OneKey \/ OneRun) /\ (backup = None \/ Total <= 1)

(* Bound of the delivery: what crosses two revocations is followed before   *)
(* the operation begins; the operation meets one.                           *)
SmallDelivery == cell.epoch > 2 => activation[o1] = "None"

-----------------------------------------------------------------------------
allVars == <<vars, ledgerVars, deliveryVars, closureVars, part>>

ClosureIdle == ClosureInit /\ uses = [c \in Cells |-> {}] /\ origins = {}

StoreIdle == Init /\ disk.runs = [r \in Runs |->
                        IF r \in OldRuns THEN [Absent EXCEPT !.state = "ended", !.rev = 1]
                        ELSE Absent]

PartsInit ==
    /\ LedgerInit /\ Delivery!Init
    /\ \/ part = "store" /\ Init /\ ClosureIdle
       \/ part \in {"ledger", "delivery"} /\ StoreIdle /\ ClosureIdle
       \/ part = "closure" /\ StoreIdle /\ ClosureInit

InStore    == part = "store"    /\ UNCHANGED <<ledgerVars, deliveryVars, closureVars, part>>
InLedger   == part = "ledger"   /\ UNCHANGED <<vars, deliveryVars, closureVars, part>>
InDelivery == part = "delivery" /\ UNCHANGED <<vars, ledgerVars, closureVars, part>>
InClosure  == part = "closure"  /\ UNCHANGED <<vars, ledgerVars, deliveryVars, part>>

PartsNext ==
    \/ InStore /\ Next /\ SmallStore' /\ MidwayUntold
    \/ InLedger /\ LedgerNext
    \/ InDelivery /\ Delivery!Next /\ SmallDelivery'
    \/ InClosure /\ ClosureNext

\* The fairness of the writer and of the dispatcher, no step of which is
\* enabled in the initial state of its part.
PartsSpec ==
    /\ PartsInit /\ [][PartsNext]_allVars
    /\ WriterRuns /\ Delivery!Fairness

\* The store alone, for the sentence it does not keep.
StoreSpec == part = "store" /\ PartsInit /\ [][PartsNext]_allVars

-----------------------------------------------------------------------------
(* Every revocation is confirmed in the end by a connected host, by the     *)
(* receipt of its fence or of a later one (invalidate_cell, plan_delivery,  *)
(* finish_fence_delivery).                                                  *)
FenceIsConfirmed == Delivery!FenceIsConfirmed

(* A command that reached the device is noticed, also when its answer was   *)
(* lost (reconciliation_work, record_host_receipt).                         *)
SentCommandIsNoticed == Delivery!SentCommandIsNoticed
=============================================================================
