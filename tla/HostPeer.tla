------------------------------ MODULE HostPeer ------------------------------
(***************************************************************************)
(* The equipment hosts and the network, which are not part of the          *)
(* repository: modelled from how the platform uses them                    *)
(* (crates/rx-host-client/src/delivery.rs, spec/contracts/v1.0).           *)
(*                                                                         *)
(* A request stays on its way until the host takes it, at any later time   *)
(* or never; receipts are read from the host's journal as often as the     *)
(* platform likes.  A host refuses what belongs to another epoch than its  *)
(* own, and a fence voids whatever it had prepared for an earlier one.     *)
(* A host is NOT assumed to recognise a repeated Authorize: that it starts *)
(* an operation once is the platform's promise here.                       *)
(***************************************************************************)
EXTENDS RunStart, FiniteSets

CONSTANT MaxResults      \* native evidence records of one operation
ASSUME ResultsAssumption == MaxResults \in Nat

VARIABLES
    prepareWire, authorizeWire,   \* requests on their way
    armed,       \* Arm requests the host has accepted and acknowledged
    hostEpoch,   \* the epoch the host has been fenced to
    fenced,      \* Fence deliveries the host has installed and keeps the receipt of
    native,      \* the host's delivery journal, by operation
    sends,       \* how often the native command was issued
    results      \* the host's evidence journal

hostVars == <<prepareWire, authorizeWire, armed, hostEpoch, fenced, native, sends, results>>

HostTypeOK ==
    /\ prepareWire \subseteq Ops /\ authorizeWire \subseteq Ops
    /\ armed \subseteq Attempts \X Hosts
    /\ hostEpoch \in [Hosts -> Epoch] /\ fenced \subseteq Hosts \X Epoch
    /\ native \in [Ops -> {"Absent", "Prepared", "Voided", "Refused", "Sent", "Ended"}]
    /\ sends \in [Ops -> 0 .. 2]
    /\ results \in [Ops -> SUBSET Status]

HostInit ==
    /\ prepareWire = {} /\ authorizeWire = {} /\ armed = {}
    /\ hostEpoch = [h \in Hosts |-> 1] /\ fenced = {}
    /\ native = [o \in Ops |-> "Absent"]
    /\ sends = [o \in Ops |-> 0]
    /\ results = [o \in Ops |-> {}]

HostArms(a, h) ==
    /\ armRow[<<a, h>>] \in {"EmitEntered", "Delivered"}
    /\ attempt[a].epoch = hostEpoch[h]
    /\ armed' = armed \cup {<<a, h>>}
    /\ UNCHANGED <<prepareWire, authorizeWire, hostEpoch, fenced, native, sends, results>>

\* A Prepare of another epoch leaves a tombstone that blocks it for good.
HostPrepares(o) ==
    /\ o \in prepareWire
    /\ prepareWire' = prepareWire \ {o}
    /\ native' = [native EXCEPT ![o] =
                     IF permit[o].epoch = hostEpoch[HostOf[o]] THEN "Prepared" ELSE "Refused"]
    /\ UNCHANGED <<authorizeWire, armed, hostEpoch, fenced, sends, results>>

HostAuthorizes(o) ==
    /\ o \in authorizeWire
    /\ authorizeWire' = authorizeWire \ {o}
    /\ IF native[o] \in {"Prepared", "Sent", "Ended"}
             /\ permit[o].epoch = hostEpoch[HostOf[o]] /\ sends[o] < 2
         THEN native' = [native EXCEPT ![o] = "Sent"] /\ sends' = [sends EXCEPT ![o] = @ + 1]
         ELSE UNCHANGED <<native, sends>>
    /\ UNCHANGED <<prepareWire, armed, hostEpoch, fenced, results>>

\* The epoch is a durable maximum: a Fence delivery of a smaller epoch is
\* refused as stale and never gets a receipt, one of the host's own epoch is
\* installed.
InstallsDelivery(h, e) ==
    /\ fenceRow[<<h, e>>] = "EmitEntered" /\ <<h, e>> \notin fenced
    /\ hostEpoch[h] <= e
    /\ fenced' = fenced \cup {<<h, e>>}

\* The fence of a host link, sent at the cell's epoch, answers no delivery.
InstallsLinkFence(h, e) ==
    /\ RequireServing /\ e = cell.epoch
    /\ hostEpoch[h] < e
    /\ UNCHANGED fenced

HostFences(h, e) ==
    /\ InstallsDelivery(h, e) \/ InstallsLinkFence(h, e)
    /\ hostEpoch' = [hostEpoch EXCEPT ![h] = e]
    /\ native' = [o \in Ops |-> IF HostOf[o] = h /\ native[o] = "Prepared" /\ hostEpoch[h] < e
                                  THEN "Voided" ELSE native[o]]
    /\ UNCHANGED <<prepareWire, authorizeWire, armed, sends, results>>

NativeEnds(o, s) ==
    /\ native[o] = "Sent"
    /\ native' = [native EXCEPT ![o] = "Ended"]
    /\ results' = [results EXCEPT ![o] = @ \cup {s}]
    /\ UNCHANGED <<prepareWire, authorizeWire, armed, hostEpoch, fenced, sends>>

\* The device reports a second, different status for the same invocation.
NativeContradicts(o, s) ==
    /\ native[o] = "Ended" /\ s \notin results[o]
    /\ Cardinality(results[o]) < MaxResults
    /\ results' = [results EXCEPT ![o] = @ \cup {s}]
    /\ UNCHANGED <<prepareWire, authorizeWire, armed, hostEpoch, fenced, native, sends>>

\* The delivery-journal states that have been recorded for an operation.
ReceiptsOf(o) ==
    CASE native[o] = "Absent"   -> {}
      [] native[o] = "Prepared" -> {"Prepared"}
      [] native[o] = "Voided"   -> {"Prepared", "VoidedBeforeSend"}
      [] native[o] = "Refused"  -> {"VoidedBeforeSend"}
      [] OTHER                  -> {"Prepared", "SendEntered"}
=============================================================================
