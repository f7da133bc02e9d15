----------------------------- MODULE HostProofs -----------------------------
(******************************************************************************)
(* Proofs about the two protocols with an equipment host: recovering it for   *)
(* reading only, for any number of cells, commands and bindings, and linking  *)
(* it, for any cells and resources; both for any bounds on what restarts,     *)
(* fails and is replaced.                                                     *)
(******************************************************************************)
EXTENDS HostRecovery, HostLink, WellFoundedInduction, NaturalsInduction, TLAPS

(* The cut of a binding is of the past, and between the boot it reaches back  *)
(* to and its own every boot completed a recovery.                            *)
CutHolds(k) ==
    /\ k.runtime <= runtime
    /\ \A c \in Cells : k.epoch[c] <= epoch[c]
    /\ \A i \in 1..MaxRuntime : k.reg.runtime < i /\ i < k.runtime => i \in recovered

(* Each fence of a binding is for its own cell at the epoch of the cut.       *)
FencesOfCut(x) ==
    \A c \in Cells : x.fences[c].request[2] = c /\ x.fences[c].request[3] = x.cut.epoch[c]

BindingsHold ==
    \A b \in Bindings : binding[b] # None =>
        /\ CutHolds(binding[b].cut)
        /\ FencesOfCut(binding[b])
        /\ binding[b].phase = "RecoveryOnly" => binding[b].cut.runtime \in recovered

(* No fence is ahead of its cell, and the host is where its answers say.      *)
HostFollows ==
    /\ \A c \in Cells : host.epoch[c] <= epoch[c]
    /\ \A q \in wire \cup host.answered : q[3] <= epoch[q[2]]
    /\ \A q \in host.answered : q[3] <= host.epoch[q[2]]

(* What a call holds: the binding it drives, the fence it sent, the command   *)
(* it asks about.                                                             *)
CallNames(w) ==
    /\ w.job # "propose" => w.b \in Bindings /\ binding[w.b] # None
    /\ w.step = "sent" => w.job = "progress" /\ w.at \in Cells
    /\ w.job = "query" => w.op \in Ops
    /\ w.step \in {"query", "receipt"} \/ w.receipt # None => w.job = "query"

(* The snapshots of a read are not ahead of the host.                         *)
CallReads(w) ==
    \A c \in Cells : w.read.snapshot[c] <= host.epoch[c]

(* A receipt fetched from the journal still says what the journal says.       *)
CallReceipt(w) ==
    /\ w.receipt = "VoidedBeforeSend" => native[w.op] = "VoidedBeforeSend"
    /\ w.receipt \in {"SendEntered", "NativeAccepted"} =>
         native[w.op] \in {"SendEntered", "NativeAccepted"}

CallHolds == worker # None => CallNames(worker) /\ CallReads(worker) /\ CallReceipt(worker)

(* A message on its way finds the journal as it was when it was sent, or      *)
(* voided; what was voided is behind a fence.                                 *)
JournalHolds ==
    \A o \in Ops :
        /\ command[o] = "Prepare" => native[o] = "Absent"
        /\ command[o] = "Authorize" => native[o] \in {"Prepared", "VoidedBeforeSend"}
        /\ native[o] = "VoidedBeforeSend" => host.epoch[CellOf[o]] > 1

RecoveryInv ==
    /\ TypeOK /\ OneRecovery /\ BindingsHold /\ HostFollows /\ CallHolds
    /\ JournalHolds /\ RowTellsTheTruth /\ ReceiptsAreTrue

-----------------------------------------------------------------------------
(* Types.                                                                     *)

(* The cut of the platform is typed, and so is the state of a fresh call.     *)
LEMMA CutTyped == ASSUME TypeOK PROVE Context \in Cut
<1>1. PreviousBoot \in Nat
  <2>1. reg.runtime \in Nat
    BY DEF TypeOK, Link
  <2>2. ASSUME Anchor # None PROVE binding[Anchor].cut.runtime \in Nat
    <3>1. Anchor = last /\ last # None /\ last \in Bindings
      BY <2>2 DEF Anchor, TypeOK
    <3>2. binding[last] \in Stored
      BY <3>1 DEF TypeOK
    <3> QED
      BY <3>1, <3>2 DEF Stored, Cut
  <2> QED
    BY <2>1, <2>2 DEF PreviousBoot
<1>2. [o \in Ops |-> Entered(o)] \in [Ops -> SUBSET {"prepare", "authorize"}]
  BY DEF Entered
<1>3. runtime \in Nat /\ epoch \in [Cells -> Nat] /\ reg \in Link /\ producer \in Link
  BY DEF TypeOK
<1> QED
  BY <1>1, <1>2, <1>3 DEF Context, Cut

(* What a call holds when it has connected to the host.                       *)
LEMMA ConnectedTyped ==
    ASSUME TypeOK, NEW job \in {"propose", "progress", "query"},
           NEW b \in Bindings \cup {None}, NEW k \in Cut
    PROVE  /\ Connected(job, b, k) \in Call
           /\ Connected(job, b, k).read \in Read
<1>1. host.boot \in Nat /\ host.epoch \in [Cells -> Nat] /\ runtime \in Nat
  BY DEF TypeOK
<1>2. [c \in Cells |-> 0] \in [Cells -> Nat]
  OBVIOUS
<1> DEFINE r == [session |-> Session, boot |-> host.boot, fresh |-> TRUE,
                 configuration |-> host.epoch, snapshot |-> [c \in Cells |-> 0]]
<1>3. r \in Read
  BY <1>1, <1>2 DEF Read, Session
<1> QED
  BY <1>3 DEF Connected, Call

(* A binding that needs attention is stored as any other.                     *)
LEMMA AttentionTyped == ASSUME NEW x \in Stored PROVE Attention(x) \in Stored
BY DEF Attention, Stored

(* The parts of TypeOK that actions change one at a time.                     *)
BindingsTyped ==
    /\ binding \in [Bindings -> Stored \cup {None}]
    /\ \A b \in Bindings : binding[b] # None /\ binding[b].phase = "RecoveryOnly" =>
         binding[b].read # None /\ Unacknowledged(b) = {}
    /\ {owner, last} \subseteq Bindings \cup {None}
    /\ \A b \in {owner, last} \ {None} : binding[b] # None /\ binding[b].approved

(* An update of one stored binding keeps the bindings typed.                  *)
LEMMA BindingUpdated ==
    ASSUME BindingsTyped, NEW b \in Bindings, NEW x \in Stored,
           binding' = [binding EXCEPT ![b] = x],
           x.phase = "RecoveryOnly" =>
               x.read # None /\ \A c \in Cells : x.fences[c].phase = "Acknowledged",
           owner' \in {owner, b}, last' \in {last, b},
           b \in {owner', last'} => x.approved
    PROVE  BindingsTyped'
<1>1. binding' \in [Bindings -> Stored \cup {None}]
  BY DEF BindingsTyped
<1>2. None \notin Stored
  BY RecoveryAssumption
<1>3. ASSUME NEW d \in Bindings, binding'[d] # None, binding'[d].phase = "RecoveryOnly"
      PROVE  binding'[d].read # None /\ Unacknowledged(d)' = {}
  <2>1. CASE d = b
    BY <1>3, <2>1 DEF BindingsTyped, Unacknowledged
  <2>2. CASE d # b
    <3>1. binding'[d] = binding[d]
      BY <2>2 DEF BindingsTyped
    <3> QED
      BY <1>3, <3>1 DEF BindingsTyped, Unacknowledged
  <2> QED
    BY <2>1, <2>2
<1>4. {owner', last'} \subseteq Bindings \cup {None}
  BY DEF BindingsTyped
<1>5. ASSUME NEW d \in {owner', last'} \ {None} PROVE binding'[d] # None /\ binding'[d].approved
  <2>1. d \in Bindings
    BY <1>4, <1>5
  <2>2. CASE d = b
    BY <1>2, <1>5, <2>2 DEF BindingsTyped
  <2>3. CASE d # b
    <3>1. binding'[d] = binding[d] /\ d \in {owner, last} \ {None}
      BY <1>5, <2>1, <2>3 DEF BindingsTyped
    <3> QED
      BY <3>1 DEF BindingsTyped
  <2> QED
    BY <2>2, <2>3
<1> QED
  BY <1>1, <1>3, <1>4, <1>5 DEF BindingsTyped

(* Steps that store no binding and complete none keep the bindings typed.     *)
LEMMA BindingsKept ==
    ASSUME BindingsTyped, UNCHANGED <<binding, owner, last>>
    PROVE  BindingsTyped'
BY DEF BindingsTyped, Unacknowledged

PlatformTyped ==
    /\ runtime \in 1..MaxRuntime /\ epoch \in [Cells -> 1..MaxEpoch]
    /\ row \in [Cells \X (1..MaxEpoch) -> Marks]
    /\ producer \in Link /\ reg \in Link
    /\ recovered \subseteq 1..runtime
    /\ work \in [Ops -> [sent : BOOLEAN, outcome : {"NotExecuted", None},
                         prepare : Marks, authorize : Marks]]
    /\ failures \in 0..MaxFailures

PeerTyped ==
    /\ wire \subseteq Request
    /\ command \in [Ops -> {"Prepare", "Authorize", None}]
    /\ host \in [boot : 1..MaxHostBoot, epoch : [Cells -> 1..MaxEpoch],
                 answered : SUBSET Request]
    /\ native \in [Ops -> Journal]

CallTyped == worker \in Call \cup {None}

(* TypeOK is the conjunction of its parts.                                    *)
LEMMA TypeParts == TypeOK <=> BindingsTyped /\ PlatformTyped /\ PeerTyped /\ CallTyped
BY DEF TypeOK, BindingsTyped, PlatformTyped, PeerTyped, CallTyped

(* The stored binding a call drives, and the fence request of a cell in it.   *)
LEMMA DrivenTyped ==
    ASSUME TypeOK, CallHolds, worker # None, worker.job # "propose"
    PROVE  /\ worker \in Call /\ worker.b \in Bindings /\ binding[worker.b] \in Stored
           /\ binding[worker.b].cut \in Cut
           /\ \A c \in Cells : binding[worker.b].fences[c].request \in Request
<1>1. worker \in Call /\ worker.b \in Bindings /\ binding[worker.b] \in Stored
  BY DEF TypeOK, CallHolds, CallNames
<1> QED
  BY <1>1 DEF Stored

(* Platform: every step keeps its tables typed.                               *)
LEMMA PlatformStep ==
    ASSUME TypeOK, CallHolds, Next
    PROVE  PlatformTyped'
<1> USE RecoveryAssumption DEF platform, peer
<1>0. PlatformTyped /\ PeerTyped
  BY TypeParts
<1>1. ASSUME NEW cs \in SUBSET Cells, Invalidated(cs)
      PROVE  epoch' \in [Cells -> 1..MaxEpoch] /\ row' \in [Cells \X (1..MaxEpoch) -> Marks]
  BY <1>0, <1>1 DEF Invalidated, PlatformTyped, Marks
<1>2. ASSUME UNCHANGED <<platform, failures>> PROVE PlatformTyped'
  BY <1>0, <1>2 DEF PlatformTyped
<1>3. CASE RestartRuntime
  BY <1>0, <1>1, <1>3 DEF RestartRuntime, PlatformTyped
<1>4. ASSUME NEW c \in Cells, Invalidate(c) PROVE PlatformTyped'
  BY <1>0, <1>1, <1>4 DEF Invalidate, PlatformTyped
<1>5. CASE OpenProducer
  <2>1. epoch' \in [Cells -> 1..MaxEpoch] /\ row' \in [Cells \X (1..MaxEpoch) -> Marks]
    BY <1>0, <1>1, <1>5 DEF OpenProducer, PlatformTyped
  <2> QED
    BY <1>0, <1>5, <2>1 DEF OpenProducer, PlatformTyped, PeerTyped, Link
<1>6. CASE Relink
  BY <1>0, <1>6 DEF Relink, PlatformTyped
<1>7. CASE HostRestarts \/ StartPropose \/ SessionLost
  BY <1>2, <1>7 DEF HostRestarts, StartPropose, SessionLost
<1>8. ASSUME NEW b \in Bindings, NEW o \in Ops, StartQuery(b, o) PROVE PlatformTyped'
  BY <1>2, <1>8 DEF StartQuery
<1>9. ASSUME NEW c \in Cells, ReadSnapshot(c) PROVE PlatformTyped'
  BY <1>2, <1>9 DEF ReadSnapshot
<1>10. CASE ReadAges \/ GiveUp
  BY <1>0, <1>10 DEF ReadAges, GiveUp, PlatformTyped
<1>11. ASSUME NEW b \in Bindings, ApproveHostRecovery(b) PROVE PlatformTyped'
  BY <1>0, <1>11 DEF ApproveHostRecovery, PlatformTyped
<1>12. CASE ProposalRefused \/ RefreshHostRecovery \/ PlanQuery \/ FetchReceipt
  BY <1>2, <1>12 DEF ProposalRefused, RefreshHostRecovery, PlanQuery, FetchReceipt
<1>13. ASSUME NEW q \in Request
       PROVE  /\ Enter(q) \in [Cells \X (1..MaxEpoch) -> Marks]
              /\ Complete(q) \in [Cells \X (1..MaxEpoch) -> Marks]
  BY <1>0 DEF Enter, Complete, PlatformTyped, Request, Row, Marks
<1>14. ASSUME NEW c \in Cells, PlanFence(c) PROVE PlatformTyped'
  <2>1. binding[worker.b].fences[c].request \in Request
    BY <1>14, DrivenTyped DEF PlanFence, ReadDone
  <2>2. row' \in {row, Enter(binding[worker.b].fences[c].request)}
    BY <1>14 DEF PlanFence
  <2> QED
    BY <1>0, <1>13, <1>14, <2>1, <2>2 DEF PlanFence, PlatformTyped
<1>15. CASE RecordFence
  <2>1. worker.at \in Cells
    BY <1>15 DEF RecordFence, CallHolds, CallNames
  <2>2. binding[worker.b].fences[worker.at].request \in Request
    BY <1>15, <2>1, DrivenTyped DEF RecordFence
  <2>3. row' \in {row, Complete(binding[worker.b].fences[worker.at].request)}
    BY <1>15 DEF RecordFence
  <2> QED
    BY <1>0, <1>13, <1>15, <2>2, <2>3 DEF RecordFence, PlatformTyped
<1>16. CASE CommitHostRecovery
  BY <1>0, <1>16 DEF CommitHostRecovery, PlatformTyped
<1>17. CASE RecordReceipt
  <2>1. worker.op \in Ops
    BY <1>17 DEF RecordReceipt, CallHolds, CallNames
  <2>2. OutcomeOf(worker.op, worker.receipt) \in {"NotExecuted", None}
    BY <1>0, <2>1 DEF OutcomeOf, PlatformTyped
  <2>3. work' \in [Ops -> [sent : BOOLEAN, outcome : {"NotExecuted", None},
                           prepare : Marks, authorize : Marks]]
    BY <1>0, <1>17, <2>1, <2>2 DEF RecordReceipt, PlatformTyped, Marks
  <2> QED
    BY <1>0, <1>17, <2>3 DEF RecordReceipt, PlatformTyped
<1>18. ASSUME NEW q \in wire, HostFences(q) PROVE PlatformTyped'
  BY <1>2, <1>18 DEF HostFences
<1>19. ASSUME NEW o \in Ops, HostReceives(o) \/ HostAccepts(o) PROVE PlatformTyped'
  BY <1>2, <1>19 DEF HostReceives, HostAccepts
<1>20. ASSUME NEW b \in Bindings, StartProgress(b) \/ ProposeHostRecovery(b)
       PROVE  PlatformTyped'
  BY <1>2, <1>20 DEF StartProgress, ProposeHostRecovery
<1> QED
  BY <1>3, <1>4, <1>5, <1>6, <1>7, <1>8, <1>9, <1>10, <1>11, <1>12, <1>14, <1>15, <1>16,
     <1>17, <1>18, <1>19, <1>20 DEF Next, Writes

(* Host and network: every step keeps them typed.                             *)
LEMMA PeerStep ==
    ASSUME TypeOK, CallHolds, Next
    PROVE  PeerTyped'
<1> USE RecoveryAssumption DEF platform, peer
<1>0. PlatformTyped /\ PeerTyped
  BY TypeParts
<1>1. ASSUME UNCHANGED <<wire, peer>> PROVE PeerTyped'
  BY <1>0, <1>1 DEF PeerTyped
<1>2. CASE RestartRuntime \/ OpenProducer \/ Relink \/ StartPropose \/ ReadAges \/ GiveUp \/ SessionLost
  BY <1>1, <1>2 DEF RestartRuntime, OpenProducer, Relink, StartPropose, ReadAges, GiveUp, SessionLost
<1>3. ASSUME NEW c \in Cells, Invalidate(c) \/ ReadSnapshot(c) PROVE PeerTyped'
  BY <1>1, <1>3 DEF Invalidate, ReadSnapshot
<1>4. CASE HostRestarts
  BY <1>0, <1>4 DEF HostRestarts, PeerTyped
<1>5. ASSUME NEW b \in Bindings,
             StartProgress(b) \/ ApproveHostRecovery(b) \/ ProposeHostRecovery(b)
      PROVE  PeerTyped'
  BY <1>1, <1>5 DEF StartProgress, ApproveHostRecovery, ProposeHostRecovery
<1>6. ASSUME NEW b \in Bindings, NEW o \in Ops, StartQuery(b, o) PROVE PeerTyped'
  BY <1>1, <1>6 DEF StartQuery
<1>7. CASE ProposalRefused \/ RecordFence \/ CommitHostRecovery \/ RefreshHostRecovery
  BY <1>1, <1>7 DEF ProposalRefused, RecordFence, CommitHostRecovery, RefreshHostRecovery
<1>8. CASE PlanQuery \/ FetchReceipt \/ RecordReceipt
  BY <1>1, <1>8 DEF PlanQuery, FetchReceipt, RecordReceipt
<1>9. ASSUME NEW c \in Cells, PlanFence(c) PROVE PeerTyped'
  <2>1. binding[worker.b].fences[c].request \in Request
    BY <1>9, DrivenTyped DEF PlanFence, ReadDone
  <2>2. wire' \in {wire, wire \cup {binding[worker.b].fences[c].request}} /\ UNCHANGED peer
    BY <1>9 DEF PlanFence
  <2> QED
    BY <1>0, <2>1, <2>2 DEF PeerTyped
<1>10. ASSUME NEW q \in wire, HostFences(q) PROVE PeerTyped'
  <2>1. q \in Request /\ q[2] \in Cells /\ q[3] \in 1..MaxEpoch
    BY <1>0 DEF PeerTyped, Request
  <2>2. wire' \subseteq Request /\ UNCHANGED command
    BY <1>0, <1>10 DEF HostFences, PeerTyped
  <2>3. host' \in [boot : 1..MaxHostBoot, epoch : [Cells -> 1..MaxEpoch],
                   answered : SUBSET Request]
    BY <1>0, <1>10, <2>1 DEF HostFences, PeerTyped
  <2>4. native' \in [Ops -> Journal]
    BY <1>0, <1>10 DEF HostFences, PeerTyped, Journal
  <2> QED
    BY <1>0, <2>2, <2>3, <2>4 DEF PeerTyped
<1>11. ASSUME NEW o \in Ops, HostReceives(o) \/ HostAccepts(o) PROVE PeerTyped'
  BY <1>0, <1>11 DEF HostReceives, HostAccepts, PeerTyped, Journal
<1> QED
  BY <1>2, <1>3, <1>4, <1>5, <1>6, <1>7, <1>8, <1>9, <1>10, <1>11 DEF Next, Writes

(* The call that holds the host's lock stays typed.                           *)
LEMMA CallStep ==
    ASSUME TypeOK, CallHolds, Next
    PROVE  CallTyped'
<1> USE RecoveryAssumption DEF platform, peer
<1>0. PlatformTyped /\ PeerTyped /\ CallTyped /\ BindingsTyped
  BY TypeParts
<1>1. ASSUME worker' \in {worker, None} PROVE CallTyped'
  BY <1>0, <1>1 DEF CallTyped
<1>2. CASE RestartRuntime \/ OpenProducer \/ Relink \/ HostRestarts \/ GiveUp \/ SessionLost
  BY <1>1, <1>2 DEF RestartRuntime, OpenProducer, Relink, HostRestarts, GiveUp, SessionLost
<1>3. ASSUME NEW c \in Cells, Invalidate(c) PROVE CallTyped'
  BY <1>1, <1>3 DEF Invalidate
<1>4. CASE StartPropose
  BY <1>4, CutTyped, ConnectedTyped DEF StartPropose, CallTyped
<1>5. ASSUME NEW b \in Bindings, binding[b] # None PROVE binding[b].cut \in Cut
  BY <1>0, <1>5 DEF BindingsTyped, Stored
<1>6. ASSUME NEW b \in Bindings, StartProgress(b) PROVE CallTyped'
  BY <1>5, <1>6, ConnectedTyped DEF StartProgress, CallTyped
<1>7. ASSUME NEW b \in Bindings, NEW o \in Ops, StartQuery(b, o) PROVE CallTyped'
  <2>1. Connected("query", b, binding[b].cut) \in Call
    BY <1>5, <1>7, ConnectedTyped DEF StartQuery
  <2>2. worker' = [Connected("query", b, binding[b].cut) EXCEPT !.op = o]
    BY <1>7 DEF StartQuery
  <2> QED
    BY <2>1, <2>2 DEF Call, CallTyped
<1>8. ASSUME NEW b \in Bindings, ApproveHostRecovery(b) \/ ProposeHostRecovery(b)
      PROVE  CallTyped'
  BY <1>1, <1>8 DEF ApproveHostRecovery, ProposeHostRecovery
<1>9. ASSUME NEW c \in Cells, ReadSnapshot(c) PROVE CallTyped'
  <2>1. worker \in Call /\ host.epoch[c] \in Nat
    BY <1>0, <1>9 DEF ReadSnapshot, CallTyped, PeerTyped
  <2>2. worker' = [worker EXCEPT !.read.snapshot[c] = host.epoch[c]]
    BY <1>9 DEF ReadSnapshot
  <2> QED
    BY <2>1, <2>2 DEF Call, Read, CallTyped
<1>10. CASE ReadAges
  <2>1. worker \in Call
    BY <1>0, <1>10 DEF ReadAges, ReadDone, CallTyped
  <2> QED
    BY <1>10, <2>1 DEF ReadAges, Call, Read, CallTyped
<1>11. CASE ProposalRefused \/ CommitHostRecovery
  BY <1>1, <1>11 DEF ProposalRefused, CommitHostRecovery
<1>12. ASSUME NEW c \in Cells, PlanFence(c) PROVE CallTyped'
  <2>1. worker \in Call
    BY <1>0, <1>12 DEF PlanFence, ReadDone, CallTyped
  <2>2. worker' \in {None, [worker EXCEPT !.step = "sent", !.at = c]}
    BY <1>12 DEF PlanFence
  <2> QED
    BY <2>1, <2>2 DEF Call, CallTyped
<1>13. ASSUME NEW w \in Call PROVE Reading(w) \in Call
  <2>1. Connected(w.job, w.b, w.cut).read \in Read
    <3>1. w.job \in {"propose", "progress", "query"} /\ w.b \in Bindings \cup {None} /\ w.cut \in Cut
      BY <1>13 DEF Call
    <3> QED
      BY <3>1, ConnectedTyped
  <2> QED
    BY <1>13, <2>1 DEF Reading, Call
<1>14. CASE RecordFence
  <2>1. worker \in Call /\ worker' \in {None, Reading(worker)}
    BY <1>0, <1>14 DEF RecordFence, CallTyped
  <2> QED
    BY <1>13, <2>1 DEF CallTyped
<1>15. CASE RefreshHostRecovery \/ PlanQuery
  <2>1. worker \in Call
    BY <1>0, <1>15 DEF RefreshHostRecovery, PlanQuery, ReadDone, CallTyped
  <2>2. worker' \in {None, [worker EXCEPT !.step = "query"], [worker EXCEPT !.step = "receipt"]}
    BY <1>15 DEF RefreshHostRecovery, PlanQuery
  <2> QED
    BY <2>1, <2>2 DEF Call, CallTyped
<1>16. CASE FetchReceipt
  <2> DEFINE w == [worker EXCEPT !.receipt = native[worker.op]]
  <2>1. worker \in Call /\ worker.op \in Ops
    BY <1>0, <1>16 DEF FetchReceipt, CallTyped, CallHolds, CallNames
  <2>2. w \in Call
    BY <1>0, <2>1 DEF Call, PeerTyped
  <2>3. worker' \in {w, Reading(w)}
    BY <1>16 DEF FetchReceipt
  <2> QED
    BY <1>13, <2>2, <2>3 DEF CallTyped
<1>17. CASE RecordReceipt
  <2>1. worker \in Call /\ worker' \in {None, Reading(worker)}
    BY <1>0, <1>17 DEF RecordReceipt, CallTyped
  <2> QED
    BY <1>13, <2>1 DEF CallTyped
<1>18. ASSUME NEW q \in wire, HostFences(q) PROVE CallTyped'
  BY <1>1, <1>18 DEF HostFences
<1>19. ASSUME NEW o \in Ops, HostReceives(o) \/ HostAccepts(o) PROVE CallTyped'
  BY <1>1, <1>19 DEF HostReceives, HostAccepts
<1> QED
  BY <1>2, <1>3, <1>4, <1>6, <1>7, <1>8, <1>9, <1>10, <1>11, <1>12, <1>14, <1>15, <1>16,
     <1>17, <1>18, <1>19 DEF Next, Writes

(* Writing to the store: what becomes of the one binding a step stores.       *)
Stores(b, x) ==
    /\ b \in Bindings /\ x \in Stored
    /\ binding' = [binding EXCEPT ![b] = x]

(* The step stores a binding that was there, with its cut and its requests.   *)
Restores(b, x) ==
    /\ Stores(b, x) /\ binding[b] # None
    /\ x.cut = binding[b].cut
    /\ x.approved = binding[b].approved \/ x.approved
    /\ \A c \in Cells : x.fences[c].request = binding[b].fences[c].request

(* Every step of a call that drives a binding stores nothing, or restores     *)
(* that binding: Fencing or RecoveryOnly only while it is the owner's and the *)
(* cut stands, RecoveryOnly newly only when the boot is recorded.             *)
Drives ==
    \/ UNCHANGED <<binding, owner, last>>
    \/ \E b \in Bindings, x \in Stored :
         /\ Restores(b, x) /\ owner' = owner
         /\ \/ x.phase = binding[b].phase /\ x.phase # "RecoveryOnly" /\ last' = last
            \/ x.phase = "Attention" /\ last' = last
            \/ /\ x.phase = "RecoveryOnly" /\ x.read # None
               /\ \A c \in Cells : x.fences[c].phase = "Acknowledged"
               /\ \/ binding[b].phase = "RecoveryOnly" /\ last' = last
                  \/ /\ binding[b].phase = "Fencing" /\ last' = b /\ owner = b
                     /\ x.approved /\ x.cut.runtime = runtime
                     /\ recovered' = recovered \cup {runtime}

(* Moving one fence of a stored binding to another stage changes nothing else. *)
LEMMA FenceMoved ==
    ASSUME NEW x \in Stored, NEW c \in Cells, NEW p \in Stages
    PROVE  LET y == [x EXCEPT !.fences[c].phase = p] IN
           /\ y \in Stored /\ y.cut = x.cut /\ y.approved = x.approved
           /\ y.phase = x.phase /\ y.read = x.read
           /\ \A d \in Cells : /\ y.fences[d].request = x.fences[d].request
                                /\ y.fences[d].phase = IF d = c THEN p ELSE x.fences[d].phase
<1> DEFINE F == [phase : Stages, request : Request]
           f == [x.fences EXCEPT ![c].phase = p]
           y == [x EXCEPT !.fences = f]
<1>1. x.fences \in [Cells -> F]
  BY DEF Stored
<1>2. [x.fences[c] EXCEPT !.phase = p] \in F
  BY <1>1
<1>3. f \in [Cells -> F]
  BY <1>1, <1>2
<1>4. y \in Stored /\ y.fences = f
  BY <1>3 DEF Stored
<1>5. [x EXCEPT !.fences[c].phase = p] = y
  BY DEF Stored
<1>6. \A d \in Cells : /\ f[d].request = x.fences[d].request
                       /\ f[d].phase = IF d = c THEN p ELSE x.fences[d].phase
  BY <1>1
<1>7. y.cut = x.cut /\ y.approved = x.approved /\ y.phase = x.phase /\ y.read = x.read
  BY DEF Stored
<1> QED
  BY <1>4, <1>5, <1>6, <1>7

(* The writer's handlers of a driving or querying call only drive.            *)
LEMMA WritesDrive ==
    ASSUME TypeOK, CallHolds,
           \/ \E c \in Cells : PlanFence(c)
           \/ RecordFence \/ CommitHostRecovery \/ RefreshHostRecovery \/ RecordReceipt
    PROVE  Drives
<1> USE RecoveryAssumption
<1> DEFINE b == worker.b
           old == binding[b]
<1>0. /\ worker # None /\ worker \in Call /\ b \in Bindings /\ old \in Stored /\ old # None
      /\ binding \in [Bindings -> Stored \cup {None}] /\ worker.read \in Read
  <2>1. worker # None /\ worker.job # "propose"
    BY DEF PlanFence, RecordFence, CommitHostRecovery, RefreshHostRecovery, RecordReceipt,
           ReadDone, CallHolds, CallNames
  <2> QED
    BY <2>1, DrivenTyped DEF TypeOK, Call
<1>1. ASSUME NEW x \in Stored, binding' = [binding EXCEPT ![b] = x], owner' = owner, last' = last,
             x.cut = old.cut, x.approved = old.approved,
             \A c \in Cells : x.fences[c].request = old.fences[c].request,
             \/ x.phase = old.phase /\ x.phase # "RecoveryOnly"
             \/ x.phase = "Attention"
             \/ /\ x.phase = "RecoveryOnly" /\ old.phase = "RecoveryOnly" /\ x.read # None
                /\ \A c \in Cells : x.fences[c].phase = "Acknowledged"
      PROVE  Drives
  BY <1>0, <1>1 DEF Drives, Restores, Stores
<1>2. ASSUME NEW c \in Cells, PlanFence(c) PROVE Drives
  <2>1. CASE binding' = [binding EXCEPT ![b].fences[c].phase = "SendEntered"]
    <3> DEFINE x == [old EXCEPT !.fences[c].phase = "SendEntered"]
    <3>1. x \in Stored /\ x.cut = old.cut /\ x.approved = old.approved /\ x.phase = old.phase
      BY <1>0, FenceMoved DEF Stages
    <3>2. \A d \in Cells : x.fences[d].request = old.fences[d].request
      BY <1>0, FenceMoved DEF Stages
    <3>3. binding' = [binding EXCEPT ![b] = x] /\ old.phase = "Fencing"
      BY <1>0, <1>2, <2>1 DEF PlanFence
    <3>4. owner' = owner /\ last' = last
      BY <1>2 DEF PlanFence
    <3> QED
      BY <1>1, <3>1, <3>2, <3>3, <3>4
  <2>2. CASE binding' = [binding EXCEPT ![b] = Attention(@)]
    <3>1. binding' = [binding EXCEPT ![b] = Attention(old)] /\ owner' = owner /\ last' = last
      BY <1>0, <1>2, <2>2 DEF PlanFence
    <3>2. /\ Attention(old) \in Stored /\ Attention(old).cut = old.cut
          /\ Attention(old).approved = old.approved /\ Attention(old).phase = "Attention"
          /\ Attention(old).fences = old.fences
      BY <1>0 DEF Attention, Stored
    <3> QED
      BY <1>1, <3>1, <3>2
  <2> QED
    BY <1>2, <2>1, <2>2 DEF PlanFence
<1>3. CASE RecordFence
  <2> DEFINE c == worker.at
             noted == [old EXCEPT !.fences[c].phase = "Acknowledged"]
  <2>1. c \in Cells
    BY <1>0, <1>3 DEF RecordFence, CallHolds, CallNames
  <2>2. /\ noted \in Stored /\ noted.cut = old.cut /\ noted.approved = old.approved
        /\ noted.phase = old.phase
    BY <1>0, <2>1, FenceMoved DEF Stages
  <2>3. \A d \in Cells : noted.fences[d].request = old.fences[d].request
    BY <1>0, <2>1, FenceMoved DEF Stages
  <2>4. /\ Attention(noted) \in Stored /\ Attention(noted).cut = old.cut
        /\ Attention(noted).approved = old.approved /\ Attention(noted).phase = "Attention"
        /\ Attention(noted).fences = noted.fences
    BY <2>2 DEF Attention, Stored
  <2>5. owner' = owner /\ last' = last
    BY <1>3 DEF RecordFence
  <2>6. CASE binding' = [binding EXCEPT ![b] = noted]
    <3>1. old.phase = "RecoveryOnly" => noted.read # None /\ \A d \in Cells : noted.fences[d].phase = "Acknowledged"
      BY <1>0, <2>1 DEF TypeOK, Stored, Unacknowledged
    <3> QED
      BY <1>1, <2>2, <2>3, <2>5, <2>6, <3>1
  <2>7. CASE binding' = [binding EXCEPT ![b] = Attention(noted)]
    BY <1>1, <2>3, <2>4, <2>5, <2>7
  <2> QED
    BY <1>3, <2>5, <2>6, <2>7 DEF RecordFence, Drives
<1>4. CASE CommitHostRecovery
  <2>1. CASE Confirmed(b, worker.read)
    <3> DEFINE x == [old EXCEPT !.phase = "RecoveryOnly", !.read = worker.read]
    <3>1. binding' = [binding EXCEPT ![b] = x]
      BY <1>0, <1>4, <2>1 DEF CommitHostRecovery
    <3>2. x \in Stored /\ x.cut = old.cut /\ x.approved = old.approved /\ x.phase = "RecoveryOnly"
          /\ x.read = worker.read /\ x.fences = old.fences
      BY <1>0 DEF Stored
    <3>3. worker.read # None
      BY <1>0
    <3>4. \A c \in Cells : x.fences[c].phase = "Acknowledged"
      BY <1>4, <3>2 DEF CommitHostRecovery, AllFenced, Unacknowledged
    <3>5. old.phase = "Fencing" /\ last' = b /\ owner' = owner /\ recovered' = recovered \cup {runtime}
      BY <1>4, <2>1 DEF CommitHostRecovery
    <3>6. owner = b /\ old.approved /\ old.cut.runtime = runtime
      BY <2>1 DEF Confirmed, ApprovedCurrent, Current
    <3> QED
      BY <1>0, <3>1, <3>2, <3>3, <3>4, <3>5, <3>6 DEF Drives, Restores, Stores
  <2>2. CASE ~Confirmed(b, worker.read)
    <3> DEFINE x == [Attention(old) EXCEPT !.read = worker.read]
    <3>1. binding' = [binding EXCEPT ![b] = x] /\ owner' = owner /\ last' = last
      BY <1>0, <1>4, <2>2 DEF CommitHostRecovery
    <3>2. x \in Stored /\ x.cut = old.cut /\ x.approved = old.approved /\ x.phase = "Attention"
          /\ x.fences = old.fences
      BY <1>0 DEF Stored, Attention
    <3> QED
      BY <1>1, <3>1, <3>2
  <2> QED
    BY <2>1, <2>2
<1>5. CASE RefreshHostRecovery
  <2>0. owner' = owner /\ last' = last /\ old.phase = "RecoveryOnly"
    BY <1>5 DEF RefreshHostRecovery, platform
  <2>1. CASE Confirmed(b, worker.read)
    <3> DEFINE x == [old EXCEPT !.read = worker.read]
    <3>1. binding' = [binding EXCEPT ![b] = x]
      BY <1>0, <1>5, <2>1 DEF RefreshHostRecovery
    <3>2. x \in Stored /\ x.cut = old.cut /\ x.approved = old.approved /\ x.phase = "RecoveryOnly"
          /\ x.read = worker.read /\ x.fences = old.fences
      BY <1>0, <2>0 DEF Stored
    <3>3. worker.read # None /\ \A c \in Cells : old.fences[c].phase = "Acknowledged"
      BY <1>0, <2>0 DEF TypeOK, Unacknowledged
    <3> QED
      BY <1>1, <2>0, <3>1, <3>2, <3>3
  <2>2. CASE ~Confirmed(b, worker.read)
    <3> DEFINE x == [Attention(old) EXCEPT !.read = worker.read]
    <3>1. binding' = [binding EXCEPT ![b] = x]
      BY <1>0, <1>5, <2>2 DEF RefreshHostRecovery
    <3>2. x \in Stored /\ x.cut = old.cut /\ x.approved = old.approved /\ x.phase = "Attention"
          /\ x.fences = old.fences
      BY <1>0 DEF Stored, Attention
    <3> QED
      BY <1>1, <2>0, <3>1, <3>2
  <2> QED
    BY <2>1, <2>2
<1>6. CASE RecordReceipt
  <2>0. owner' = owner /\ last' = last
    BY <1>6 DEF RecordReceipt
  <2>1. CASE binding' = [binding EXCEPT ![b] = old]
    <3>1. binding' = binding
      BY <1>0, <2>1
    <3> QED
      BY <2>0, <3>1 DEF Drives
  <2>2. CASE binding' = [binding EXCEPT ![b] = Attention(old)]
    <3>2. /\ Attention(old) \in Stored /\ Attention(old).cut = old.cut
          /\ Attention(old).approved = old.approved /\ Attention(old).phase = "Attention"
          /\ Attention(old).fences = old.fences
      BY <1>0 DEF Attention, Stored
    <3> QED
      BY <1>1, <2>0, <2>2, <3>2
  <2> QED
    BY <1>0, <1>6, <2>1, <2>2 DEF RecordReceipt
<1> QED
  BY <1>2, <1>3, <1>4, <1>5, <1>6

-----------------------------------------------------------------------------
(* The bindings.                                                              *)

(* Every step drives, proposes or approves.                                   *)
LEMMA StepShape ==
    ASSUME TypeOK, CallHolds, Next
    PROVE  \/ Drives
           \/ \E b \in Bindings : ProposeHostRecovery(b)
           \/ \E b \in Bindings : ApproveHostRecovery(b)
<1> USE DEF platform
<1>0. ASSUME UNCHANGED <<binding, owner, last>> PROVE Drives
  BY <1>0 DEF Drives
<1>1. CASE \/ RestartRuntime \/ OpenProducer \/ Relink \/ HostRestarts \/ StartPropose
           \/ ReadAges \/ GiveUp \/ SessionLost \/ ProposalRefused \/ PlanQuery \/ FetchReceipt
  BY <1>0, <1>1 DEF RestartRuntime, OpenProducer, Relink, HostRestarts, StartPropose, ReadAges,
     GiveUp, SessionLost, ProposalRefused, PlanQuery, FetchReceipt
<1>2. ASSUME NEW c \in Cells, Invalidate(c) \/ ReadSnapshot(c) PROVE Drives
  BY <1>0, <1>2 DEF Invalidate, ReadSnapshot
<1>3. ASSUME NEW b \in Bindings, StartProgress(b) PROVE Drives
  BY <1>0, <1>3 DEF StartProgress
<1>4. ASSUME NEW b \in Bindings, NEW o \in Ops, StartQuery(b, o) PROVE Drives
  BY <1>0, <1>4 DEF StartQuery
<1>5. ASSUME NEW q \in wire, HostFences(q) PROVE Drives
  BY <1>0, <1>5 DEF HostFences
<1>6. ASSUME NEW o \in Ops, HostReceives(o) \/ HostAccepts(o) PROVE Drives
  BY <1>0, <1>6 DEF HostReceives, HostAccepts
<1> QED
  BY <1>1, <1>2, <1>3, <1>4, <1>5, <1>6, WritesDrive DEF Next, Writes

(* Boots and epochs only grow, and what was recovered stays so.               *)
LEMMA StepGrows ==
    ASSUME TypeOK, CallHolds, Next
    PROVE  /\ runtime' \in Nat /\ runtime <= runtime'
           /\ \A c \in Cells : epoch'[c] \in Nat /\ epoch[c] <= epoch'[c]
           /\ recovered \subseteq recovered'
<1> USE DEF platform
<1>0. runtime \in Nat /\ epoch \in [Cells -> Nat]
  BY DEF TypeOK
<1>1. ASSUME UNCHANGED <<runtime, epoch>>, recovered \subseteq recovered'
      PROVE  /\ runtime' \in Nat /\ runtime <= runtime'
             /\ \A c \in Cells : epoch'[c] \in Nat /\ epoch[c] <= epoch'[c]
             /\ recovered \subseteq recovered'
  BY <1>0, <1>1
<1>2. CASE RestartRuntime \/ \E c \in Cells : Invalidate(c)
  BY <1>0, <1>2 DEF RestartRuntime, Invalidate, Invalidated
<1>p. CASE OpenProducer
  BY <1>0, <1>1, <1>p DEF OpenProducer, Invalidated
<1>3. CASE \/ Relink \/ HostRestarts \/ StartPropose
           \/ ReadAges \/ GiveUp \/ SessionLost \/ ProposalRefused \/ PlanQuery \/ FetchReceipt
  BY <1>1, <1>3 DEF Relink, HostRestarts, StartPropose, ReadAges,
     GiveUp, SessionLost, ProposalRefused, PlanQuery, FetchReceipt
<1>4. ASSUME NEW c \in Cells, ReadSnapshot(c) \/ PlanFence(c)
      PROVE  UNCHANGED <<runtime, epoch, recovered>>
  BY <1>4 DEF ReadSnapshot, PlanFence
<1>5. ASSUME NEW b \in Bindings,
             StartProgress(b) \/ ProposeHostRecovery(b) \/ ApproveHostRecovery(b)
      PROVE  UNCHANGED <<runtime, epoch, recovered>>
  BY <1>5 DEF StartProgress, ProposeHostRecovery, ApproveHostRecovery
<1>6. ASSUME NEW b \in Bindings, NEW o \in Ops, StartQuery(b, o)
      PROVE  UNCHANGED <<runtime, epoch, recovered>>
  BY <1>6 DEF StartQuery
<1>7. ASSUME NEW q \in wire, HostFences(q) PROVE UNCHANGED <<runtime, epoch, recovered>>
  BY <1>7 DEF HostFences
<1>8. ASSUME NEW o \in Ops, HostReceives(o) \/ HostAccepts(o)
      PROVE  UNCHANGED <<runtime, epoch, recovered>>
  BY <1>8 DEF HostReceives, HostAccepts
<1>9. CASE RecordFence \/ CommitHostRecovery \/ RefreshHostRecovery \/ RecordReceipt
  <2>1. UNCHANGED <<runtime, epoch>> /\ recovered \subseteq recovered'
    BY <1>9 DEF RecordFence, CommitHostRecovery, RefreshHostRecovery, RecordReceipt
  <2> QED
    BY <1>1, <2>1
<1> QED
  BY <1>1, <1>2, <1>p, <1>3, <1>4, <1>5, <1>6, <1>7, <1>8, <1>9 DEF Next, Writes

(* A cut that holds goes on holding.                                          *)
LEMMA CutKept ==
    ASSUME TypeOK, CallHolds, Next, NEW k \in Cut, CutHolds(k)
    PROVE  CutHolds(k)'
<1>1. /\ k.runtime \in Nat /\ \A c \in Cells : k.epoch[c] \in Nat
      /\ runtime \in Nat /\ \A c \in Cells : epoch[c] \in Nat
  BY DEF Cut, TypeOK
<1> QED
  BY <1>1, StepGrows DEF CutHolds

(* A proposal is typed, and its cut holds: continuity reaches back to the     *)
(* boot before this one, through the last completed recovery if need be.      *)
LEMMA ProposalHolds ==
    ASSUME TypeOK, BindingsHold, CallHolds, NEW b \in Bindings, ProposeHostRecovery(b)
    PROVE  \E x \in Stored :
              /\ binding' = [binding EXCEPT ![b] = x] /\ binding[b] = None
              /\ x.phase = "Proposed" /\ CutHolds(x.cut) /\ FencesOfCut(x)
              /\ UNCHANGED <<owner, last, recovered, runtime>>
<1> USE RecoveryAssumption
<1> DEFINE k == Context
           f == FenceTasks(b, k)
           x == [phase |-> "Proposed", cut |-> k, approved |-> FALSE,
                 session |-> worker.read.session, fences |-> f, read |-> None]
<1>1. binding' = [binding EXCEPT ![b] = x] /\ binding[b] = None /\ NoBlocker
  BY DEF ProposeHostRecovery
<1>2. k \in Cut
  BY CutTyped
<1>3. worker.read.session \in Nat \X Nat
  BY DEF ProposeHostRecovery, ReadDone, TypeOK, Call, Read
<1>4. /\ k.runtime = runtime /\ k.reg = reg /\ k.epoch = epoch
      /\ \A c \in Cells : epoch[c] \in 1..MaxEpoch
      /\ runtime \in Nat /\ reg.runtime \in Nat
  BY DEF Context, TypeOK, Link
<1>5. /\ f \in [Cells -> [phase : Stages, request : Request]]
      /\ \A c \in Cells : f[c].request[2] = c /\ f[c].request[3] = k.epoch[c]
  <2>1. ASSUME NEW c \in Cells
        PROVE  /\ <<"outbox", c, k.epoch[c]>> \in Request
               /\ <<b, c, k.epoch[c]>> \in Request
    BY <1>4 DEF Request
  <2> QED
    BY <2>1 DEF FenceTasks, Stages
<1>6. x \in Stored
  BY <1>2, <1>3, <1>5 DEF Stored
<1>7. ASSUME NEW i \in 1..MaxRuntime, reg.runtime < i, i < runtime PROVE i \in recovered
  <2>1. PreviousBoot = runtime - 1
    BY <1>1 DEF NoBlocker, Origins
  <2>2. CASE Anchor = None
    BY <1>4, <1>7, <2>1, <2>2 DEF PreviousBoot
  <2>3. CASE Anchor # None
    <3>1. /\ Anchor = last /\ last \in Bindings /\ binding[last] # None
          /\ binding[last].phase = "RecoveryOnly" /\ binding[last].cut.reg = reg
      BY <2>3 DEF Anchor, TypeOK
    <3>2. binding[last].cut.runtime = runtime - 1
      BY <2>1, <2>3, <3>1 DEF PreviousBoot
    <3>3. CutHolds(binding[last].cut) /\ binding[last].cut.runtime \in recovered
      BY <3>1 DEF BindingsHold
    <3>4. i < runtime - 1 \/ i = runtime - 1
      BY <1>4, <1>7
    <3> QED
      BY <1>7, <3>1, <3>2, <3>3, <3>4 DEF CutHolds
  <2> QED
    BY <2>2, <2>3
<1>8. CutHolds(k)
  BY <1>4, <1>7 DEF CutHolds
<1>9. UNCHANGED <<owner, last, recovered, runtime>>
  BY DEF ProposeHostRecovery, platform
<1>10. x.phase = "Proposed" /\ x.cut = k /\ x.fences = f
  OBVIOUS
<1>11. FencesOfCut(x)
  BY <1>5, <1>10 DEF FencesOfCut
<1> QED
  BY <1>1, <1>6, <1>8, <1>9, <1>10, <1>11

(* What every step does to the bindings: untouched ones keep what they had.   *)
LEMMA BindingsStep ==
    ASSUME TypeOK, OneRecovery, BindingsHold, CallHolds, Next
    PROVE  BindingsTyped' /\ BindingsHold' /\ OneRecovery'
<1> USE RecoveryAssumption
<1>0. /\ BindingsTyped /\ binding \in [Bindings -> Stored \cup {None}]
      /\ runtime \in Nat /\ runtime' \in Nat /\ runtime <= runtime'
      /\ recovered \subseteq recovered'
  BY TypeParts, StepGrows DEF TypeOK
<1>1. ASSUME NEW d \in Bindings, binding[d] # None, binding'[d] = binding[d]
      PROVE  /\ CutHolds(binding[d].cut)' /\ FencesOfCut(binding[d])'
             /\ binding'[d].phase = "RecoveryOnly" => binding'[d].cut.runtime \in recovered'
  <2>1. binding[d].cut \in Cut /\ CutHolds(binding[d].cut)
    BY <1>0, <1>1 DEF BindingsHold, Stored
  <2>2. CutHolds(binding[d].cut)'
    <3>1. \A k \in Cut : CutHolds(k) => CutHolds(k)'
      BY CutKept
    <3> QED
      BY <1>1, <2>1, <3>1 DEF CutHolds
  <2>3. FencesOfCut(binding[d])'
    BY <1>1 DEF BindingsHold, FencesOfCut
  <2> QED
    BY <1>0, <1>1, <2>2, <2>3 DEF BindingsHold
<1>2. ASSUME NEW b \in Bindings, NEW x \in Stored, binding' = [binding EXCEPT ![b] = x],
             CutHolds(x.cut), FencesOfCut(x),
             x.phase = "RecoveryOnly" => x.cut.runtime \in recovered'
      PROVE  BindingsHold'
  <2>1. ASSUME NEW d \in Bindings, binding'[d] # None
        PROVE  /\ CutHolds(binding[d].cut)' /\ FencesOfCut(binding[d])'
               /\ binding'[d].phase = "RecoveryOnly" => binding'[d].cut.runtime \in recovered'
    <3>1. CASE d # b
      BY <1>0, <1>1, <1>2, <2>1, <3>1
    <3>2. CASE d = b
      <4>1. binding'[d] = x /\ x.cut \in Cut
        BY <1>0, <1>2, <3>2 DEF Stored
      <4>2. CutHolds(x.cut)'
        BY <1>2, <4>1, CutKept
      <4>3. CutHolds(binding[d].cut)'
        BY <4>1, <4>2 DEF CutHolds
      <4>4. FencesOfCut(binding[d])'
        BY <1>2, <4>1 DEF FencesOfCut
      <4> QED
        BY <1>2, <4>1, <4>3, <4>4
    <3> QED
      BY <3>1, <3>2
  <2> QED
    BY <2>1 DEF BindingsHold
<1>3. CASE UNCHANGED <<binding, owner, last>>
  <2>1. BindingsTyped'
    BY <1>0, <1>3, BindingsKept
  <2>2. BindingsHold'
    BY <1>1, <1>3 DEF BindingsHold
  <2>3. OneRecovery'
    <3>1. ASSUME NEW b \in Bindings, binding[b] # None PROVE binding[b].cut.runtime \in Nat /\ binding[b].cut.runtime <= runtime
      BY <1>0, <3>1 DEF BindingsHold, CutHolds, Stored, Cut
    <3> QED
      BY <1>0, <1>3, <3>1 DEF OneRecovery, UnderWay
  <2> QED
    BY <2>1, <2>2, <2>3
<1>4. ASSUME NEW b \in Bindings, NEW x \in Stored, Restores(b, x), owner' = owner,
             \/ x.phase = binding[b].phase /\ x.phase # "RecoveryOnly" /\ last' = last
             \/ x.phase = "Attention" /\ last' = last
             \/ /\ x.phase = "RecoveryOnly" /\ x.read # None
                /\ \A c \in Cells : x.fences[c].phase = "Acknowledged"
                /\ \/ binding[b].phase = "RecoveryOnly" /\ last' = last
                   \/ /\ binding[b].phase = "Fencing" /\ last' = b /\ owner = b
                      /\ x.approved /\ x.cut.runtime = runtime
                      /\ recovered' = recovered \cup {runtime}
      PROVE  BindingsTyped' /\ BindingsHold' /\ OneRecovery'
  <2>1. /\ binding' = [binding EXCEPT ![b] = x] /\ binding[b] # None /\ x.cut = binding[b].cut
        /\ binding[b].approved => x.approved
        /\ \A c \in Cells : x.fences[c].request = binding[b].fences[c].request
    BY <1>4 DEF Restores, Stores
  <2>2. BindingsTyped'
    <3>1. b \in {owner', last'} => x.approved
      BY <1>0, <1>4, <2>1 DEF BindingsTyped
    <3> QED
      BY <1>0, <1>4, <2>1, <3>1, BindingUpdated
  <2>3. BindingsHold'
    <3>1. CutHolds(x.cut) /\ FencesOfCut(x)
      BY <2>1 DEF BindingsHold, FencesOfCut
    <3>2. x.phase = "RecoveryOnly" => x.cut.runtime \in recovered'
      BY <1>0, <1>4, <2>1 DEF BindingsHold
    <3> QED
      BY <1>2, <1>4, <2>1, <3>1, <3>2
  <2>4. OneRecovery'
    <3>1. ASSUME NEW d \in UnderWay' PROVE d = owner
      <4>1. d \in Bindings /\ binding'[d] # None /\ binding'[d].cut.runtime = runtime'
            /\ binding'[d].phase \in {"Fencing", "RecoveryOnly"}
        BY <3>1 DEF UnderWay
      <4>2. binding[d] # None /\ binding'[d].cut = binding[d].cut
        BY <1>0, <2>1, <4>1
      <4>3. binding[d].cut.runtime \in Nat /\ binding[d].cut.runtime <= runtime
        BY <1>0, <4>1, <4>2 DEF BindingsHold, CutHolds, Stored, Cut
      <4>4. binding[d].cut.runtime = runtime
        BY <1>0, <4>1, <4>2, <4>3
      <4>5. d = owner \/ binding[d].phase \in {"Fencing", "RecoveryOnly"}
        BY <1>0, <1>4, <2>1, <4>1
      <4> QED
        BY <4>1, <4>2, <4>4, <4>5 DEF OneRecovery, UnderWay
    <3> QED
      BY <1>4, <3>1 DEF OneRecovery
  <2> QED
    BY <2>2, <2>3, <2>4
<1>5. ASSUME NEW b \in Bindings, ProposeHostRecovery(b)
      PROVE  BindingsTyped' /\ BindingsHold' /\ OneRecovery'
  <2>1. PICK x \in Stored :
              /\ binding' = [binding EXCEPT ![b] = x] /\ binding[b] = None
              /\ x.phase = "Proposed" /\ CutHolds(x.cut) /\ FencesOfCut(x)
              /\ UNCHANGED <<owner, last, recovered, runtime>>
    BY <1>5, ProposalHolds
  <2>2. BindingsTyped'
    <3>1. b \notin {owner, last}
      BY <1>0, <2>1 DEF BindingsTyped
    <3> QED
      BY <1>0, <2>1, <3>1, BindingUpdated
  <2>3. BindingsHold'
    BY <1>2, <2>1
  <2>4. OneRecovery'
    BY <1>0, <2>1 DEF OneRecovery, UnderWay
  <2> QED
    BY <2>2, <2>3, <2>4
<1>6. ASSUME NEW b \in Bindings, ApproveHostRecovery(b)
      PROVE  BindingsTyped' /\ BindingsHold' /\ OneRecovery'
  <2> DEFINE old == binding[b]
             x == [old EXCEPT !.phase = "Fencing", !.approved = TRUE]
  <2>1. old \in Stored /\ old # None
    BY <1>0, <1>6 DEF ApproveHostRecovery
  <2>2. /\ binding' = [binding EXCEPT ![b] = x] /\ owner' = b
        /\ UNCHANGED <<last, runtime, recovered>>
    BY <1>0, <1>6 DEF ApproveHostRecovery
  <2>3. x \in Stored /\ x.phase = "Fencing" /\ x.approved /\ x.cut = old.cut /\ x.fences = old.fences
    BY <2>1 DEF Stored
  <2>4. BindingsTyped'
    BY <1>0, <2>2, <2>3, BindingUpdated
  <2>5. BindingsHold'
    <3>1. CutHolds(x.cut) /\ FencesOfCut(x)
      BY <2>1, <2>3 DEF BindingsHold, FencesOfCut
    <3> QED
      BY <1>2, <2>2, <2>3, <3>1
  <2>6. OneRecovery'
    <3>1. ASSUME NEW d \in UnderWay' PROVE d = b
      <4>1. SUFFICES ASSUME d # b PROVE FALSE
        OBVIOUS
      <4>2. binding'[d] = binding[d] /\ d \in UnderWay
        BY <1>0, <2>2, <3>1, <4>1 DEF UnderWay
      <4>3. d = owner
        BY <4>2 DEF OneRecovery
      <4> QED
        BY <1>0, <1>6, <4>1, <4>2, <4>3 DEF ApproveHostRecovery, OwnerBusy, UnderWay
    <3> QED
      BY <2>2, <3>1 DEF OneRecovery
  <2> QED
    BY <2>4, <2>5, <2>6
<1> QED
  BY <1>3, <1>4, <1>5, <1>6, StepShape DEF Drives

-----------------------------------------------------------------------------
(* The host, its fences and their rows.                                       *)

(* A request for a fence is a triple: its name, its cell and its epoch.       *)
LEMMA RequestShape ==
    ASSUME NEW q \in Request
    PROVE  q = <<q[1], q[2], q[3]>> /\ q[2] \in Cells /\ q[3] \in 1..MaxEpoch
BY DEF Request

(* A fence request the host takes sets its epoch and is answered; one it has  *)
(* gone past changes nothing.                                                 *)
LEMMA FenceAnswer ==
    ASSUME TypeOK, NEW q \in wire, HostFences(q)
    PROVE  /\ host'.answered \subseteq host.answered \cup {q}
           /\ host'.epoch \in [Cells -> Nat]
           /\ \A c \in Cells : host'.epoch[c] =
                IF c = q[2] /\ host.epoch[c] < q[3] THEN q[3] ELSE host.epoch[c]
<1>1. host.epoch \in [Cells -> Nat] /\ q[2] \in Cells /\ q[3] \in Nat
  BY RequestShape DEF TypeOK
<1>2. CASE host.epoch[q[2]] <= q[3]
  <2>1. host' = [host EXCEPT !.epoch[q[2]] = q[3], !.answered = @ \cup {q}]
    BY <1>2 DEF HostFences
  <2>2. host'.epoch = [host.epoch EXCEPT ![q[2]] = q[3]] /\ host'.answered = host.answered \cup {q}
    BY <2>1 DEF TypeOK
  <2> QED
    BY <1>1, <1>2, <2>2
<1>3. CASE ~(host.epoch[q[2]] <= q[3])
  <2>1. host' = host
    BY <1>3 DEF HostFences
  <2> QED
    BY <1>1, <1>3, <2>1
<1> QED
  BY <1>2, <1>3

(* The fence a call is about to send, or has sent, is not ahead of its cell.  *)
LEMMA DrivenFence ==
    ASSUME TypeOK, BindingsHold, CallHolds, worker # None, worker.job # "propose",
           NEW c \in Cells
    PROVE  LET q == binding[worker.b].fences[c].request IN
           q \in Request /\ q[2] = c /\ q[3] <= epoch[c]
<1>1. worker.b \in Bindings /\ binding[worker.b] # None
  BY DEF CallHolds, CallNames
<1> QED
  BY <1>1, DrivenTyped DEF BindingsHold, FencesOfCut, CutHolds

(* Every step keeps the host behind the platform and true to its answers.     *)
LEMMA HostStep ==
    ASSUME TypeOK, BindingsHold, CallHolds, HostFollows, Next
    PROVE  HostFollows'
<1> USE DEF platform, peer
<1>0. /\ \A c \in Cells : host.epoch[c] \in Nat /\ epoch[c] \in Nat
      /\ host.epoch \in [Cells -> Nat] /\ wire \subseteq Request /\ host.answered \subseteq Request
      /\ \A q \in Request : q[2] \in Cells /\ q[3] \in Nat
  BY RequestShape DEF TypeOK
<1>1. \A c \in Cells : epoch'[c] \in Nat /\ epoch[c] <= epoch'[c]
  BY StepGrows
<1>2. ASSUME UNCHANGED <<host, wire>> PROVE HostFollows'
  BY <1>0, <1>1, <1>2 DEF HostFollows
<1>3. CASE \/ RestartRuntime \/ OpenProducer \/ Relink \/ StartPropose \/ RecordFence
           \/ CommitHostRecovery \/ RefreshHostRecovery \/ RecordReceipt
           \/ ReadAges \/ GiveUp \/ SessionLost \/ ProposalRefused \/ PlanQuery \/ FetchReceipt
  BY <1>2, <1>3 DEF RestartRuntime, OpenProducer, Relink, StartPropose, ReadAges, RecordFence,
     GiveUp, SessionLost, ProposalRefused, PlanQuery, FetchReceipt, CommitHostRecovery,
     RefreshHostRecovery, RecordReceipt
<1>4. CASE HostRestarts
  BY <1>0, <1>4 DEF HostRestarts, HostFollows, TypeOK
<1>5. ASSUME NEW c \in Cells, Invalidate(c) \/ ReadSnapshot(c) PROVE HostFollows'
  BY <1>2, <1>5 DEF Invalidate, ReadSnapshot
<1>6. ASSUME NEW b \in Bindings,
             StartProgress(b) \/ ApproveHostRecovery(b) \/ ProposeHostRecovery(b)
      PROVE  HostFollows'
  BY <1>2, <1>6 DEF StartProgress, ApproveHostRecovery, ProposeHostRecovery
<1>7. ASSUME NEW b \in Bindings, NEW o \in Ops, StartQuery(b, o) PROVE HostFollows'
  BY <1>2, <1>7 DEF StartQuery
<1>8. ASSUME NEW o \in Ops, HostReceives(o) \/ HostAccepts(o) PROVE HostFollows'
  BY <1>2, <1>8 DEF HostReceives, HostAccepts
<1>9. ASSUME NEW c \in Cells, PlanFence(c) PROVE HostFollows'
  <2>1. worker # None /\ worker.job # "propose"
    BY <1>9 DEF PlanFence, ReadDone
  <2> DEFINE q == binding[worker.b].fences[c].request
  <2>2. q \in Request /\ q[2] = c /\ q[3] <= epoch[c]
    BY <2>1, DrivenFence
  <2>3. wire' \subseteq wire \cup {q} /\ UNCHANGED <<host, epoch>>
    BY <1>9 DEF PlanFence
  <2> QED
    BY <2>2, <2>3 DEF HostFollows
<1>10. ASSUME NEW q \in wire, HostFences(q) PROVE HostFollows'
  <2>1. q \in Request /\ q[2] \in Cells /\ q[3] \in Nat /\ q[3] <= epoch[q[2]]
    BY <1>0 DEF HostFollows
  <2>2. UNCHANGED epoch /\ wire' \subseteq wire
    BY <1>10 DEF HostFences
  <2>3. host'.answered \subseteq host.answered \cup {q}
    BY <1>10, FenceAnswer
  <2>4. /\ host'.epoch \in [Cells -> Nat]
        /\ \A c \in Cells : host'.epoch[c] =
             IF c = q[2] /\ host.epoch[c] < q[3] THEN q[3] ELSE host.epoch[c]
    BY <1>10, FenceAnswer
  <2>5. \A c \in Cells : host.epoch[c] <= host'.epoch[c] /\ host'.epoch[c] <= epoch[c]
    BY <1>0, <2>1, <2>4 DEF HostFollows
  <2>6. q[3] <= host'.epoch[q[2]]
    BY <1>0, <2>1, <2>4
  <2>7. ASSUME NEW r \in host'.answered PROVE r[3] <= host'.epoch[r[2]]
    <3>1. CASE r = q
      BY <2>6, <3>1
    <3>2. CASE r # q
      <4>1. r \in host.answered /\ r \in Request
        BY <1>0, <2>3, <2>7, <3>2
      <4>2. r[2] \in Cells /\ r[3] \in Nat /\ r[3] <= host.epoch[r[2]]
        BY <1>0, <4>1 DEF HostFollows
      <4>3. host.epoch[r[2]] <= host'.epoch[r[2]] /\ host'.epoch[r[2]] \in Nat
        BY <2>4, <2>5, <4>2
      <4> QED
        BY <1>0, <4>2, <4>3
    <3> QED
      BY <3>1, <3>2
  <2>8. \A r \in wire' \cup host'.answered : r[3] <= epoch'[r[2]]
    BY <2>1, <2>2, <2>3 DEF HostFollows
  <2> QED
    BY <2>2, <2>5, <2>7, <2>8 DEF HostFollows
<1> QED
  BY <1>3, <1>4, <1>5, <1>6, <1>7, <1>8, <1>9, <1>10 DEF Next, Writes

(* The host's epochs only grow.                                               *)
LEMMA HostGrows ==
    ASSUME TypeOK, CallHolds, Next
    PROVE  \A c \in Cells : host'.epoch[c] \in Nat /\ host.epoch[c] <= host'.epoch[c]
<1> USE DEF platform, peer
<1>0. host.epoch \in [Cells -> Nat] /\ wire \subseteq Request
  BY DEF TypeOK
<1>1. ASSUME host'.epoch = host.epoch
      PROVE  \A c \in Cells : host'.epoch[c] \in Nat /\ host.epoch[c] <= host'.epoch[c]
  BY <1>0, <1>1
<1>2. CASE HostRestarts
  <2>1. host'.epoch = host.epoch
    BY <1>2 DEF HostRestarts, TypeOK
  <2> QED
    BY <1>1, <2>1
<1>3. ASSUME NEW q \in wire, HostFences(q)
      PROVE  \A c \in Cells : host'.epoch[c] \in Nat /\ host.epoch[c] <= host'.epoch[c]
  <2>1. q[2] \in Cells /\ q[3] \in Nat
    BY <1>0, RequestShape
  <2>2. \A c \in Cells : host'.epoch[c] =
             IF c = q[2] /\ host.epoch[c] < q[3] THEN q[3] ELSE host.epoch[c]
    BY <1>3, FenceAnswer
  <2> QED
    BY <1>0, <2>1, <2>2
<1>4. CASE \/ RestartRuntime \/ OpenProducer \/ Relink \/ StartPropose \/ RecordFence
           \/ CommitHostRecovery \/ RefreshHostRecovery \/ RecordReceipt
           \/ ReadAges \/ GiveUp \/ SessionLost \/ ProposalRefused \/ PlanQuery \/ FetchReceipt
  BY <1>1, <1>4 DEF RestartRuntime, OpenProducer, Relink, StartPropose, ReadAges, RecordFence,
     GiveUp, SessionLost, ProposalRefused, PlanQuery, FetchReceipt, CommitHostRecovery,
     RefreshHostRecovery, RecordReceipt
<1>5. ASSUME NEW c \in Cells, Invalidate(c) \/ ReadSnapshot(c) \/ PlanFence(c)
      PROVE  UNCHANGED host
  BY <1>5 DEF Invalidate, ReadSnapshot, PlanFence
<1>6. ASSUME NEW b \in Bindings,
             StartProgress(b) \/ ApproveHostRecovery(b) \/ ProposeHostRecovery(b)
      PROVE  UNCHANGED host
  BY <1>6 DEF StartProgress, ApproveHostRecovery, ProposeHostRecovery
<1>7. ASSUME NEW b \in Bindings, NEW o \in Ops, StartQuery(b, o) PROVE UNCHANGED host
  BY <1>7 DEF StartQuery
<1>8. ASSUME NEW o \in Ops, HostReceives(o) \/ HostAccepts(o) PROVE UNCHANGED host
  BY <1>8 DEF HostReceives, HostAccepts
<1> QED
  BY <1>1, <1>2, <1>3, <1>4, <1>5, <1>6, <1>7, <1>8 DEF Next, Writes

(* A row of the outbox stays true: New until its request is sent, Delivered   *)
(* only once the host stands at its epoch.                                    *)
LEMMA RowStep ==
    ASSUME TypeOK, BindingsHold, CallHolds, HostFollows, RowTellsTheTruth, Next
    PROVE  RowTellsTheTruth'
<1> USE DEF platform, peer
<1>0. /\ row \in [Cells \X (1..MaxEpoch) -> Marks] /\ epoch \in [Cells -> Nat]
      /\ host.epoch \in [Cells -> Nat] /\ wire \subseteq Request /\ host.answered \subseteq Request
  BY DEF TypeOK
<1>a. \A c \in Cells : host'.epoch[c] \in Nat /\ host.epoch[c] <= host'.epoch[c]
  BY HostGrows
<1>1. ASSUME row' = row, wire' \cup host'.answered \subseteq wire \cup host.answered
      PROVE  RowTellsTheTruth'
  <2>1. ASSUME NEW x \in DOMAIN row, row[x] = "Delivered" PROVE host'.epoch[x[1]] >= x[2]
    <3>1. x[1] \in Cells /\ x[2] \in Nat
      BY <1>0, <2>1
    <3>2. host.epoch[x[1]] >= x[2]
      BY <2>1 DEF RowTellsTheTruth
    <3> QED
      BY <1>0, <1>a, <3>1, <3>2
  <2> QED
    BY <1>1, <2>1 DEF RowTellsTheTruth
<1>2. ASSUME NEW cs \in SUBSET Cells, Invalidated(cs), UNCHANGED <<wire, host>>
      PROVE  RowTellsTheTruth'
  <2>1. ASSUME NEW x \in Cells \X (1..MaxEpoch)
        PROVE  /\ row'[x] = "New" => <<"outbox", x[1], x[2]>> \notin wire' \cup host'.answered
               /\ row'[x] = "Delivered" => host'.epoch[x[1]] >= x[2]
    <3>1. CASE x[1] \in cs /\ x[2] = epoch'[x[1]]
      <4>1. row'[x] = "New" /\ x[2] = epoch[x[1]] + 1
        BY <1>0, <1>2, <3>1 DEF Invalidated
      <4>2. \A q \in wire \cup host.answered : q # <<"outbox", x[1], x[2]>>
        <5>1. ASSUME NEW q \in wire \cup host.answered, q[2] = x[1] PROVE q[3] # x[2]
          <6>1. q[3] <= epoch[x[1]] /\ q[3] \in Nat /\ epoch[x[1]] \in Nat
            BY <1>0, <5>1, RequestShape DEF HostFollows
          <6> QED
            BY <4>1, <6>1
        <5> QED
          BY <5>1
      <4> QED
        BY <1>2, <4>1, <4>2
    <3>2. CASE ~(x[1] \in cs /\ x[2] = epoch'[x[1]])
      <4>1. row'[x] = row[x]
        BY <1>0, <1>2, <3>2 DEF Invalidated
      <4> QED
        BY <1>0, <1>2, <4>1 DEF RowTellsTheTruth
    <3> QED
      BY <3>1, <3>2
  <2>2. DOMAIN row' = Cells \X (1..MaxEpoch)
    BY <1>0, <1>2 DEF Invalidated
  <2> QED
    BY <2>1, <2>2 DEF RowTellsTheTruth
<1>3. CASE RestartRuntime
  BY <1>2, <1>3 DEF RestartRuntime
<1>4. ASSUME NEW c \in Cells, Invalidate(c) PROVE RowTellsTheTruth'
  BY <1>2, <1>4 DEF Invalidate
<1>p. CASE OpenProducer
  BY <1>1, <1>2, <1>p DEF OpenProducer
<1>5. CASE \/ Relink \/ StartPropose \/ CommitHostRecovery
           \/ RefreshHostRecovery \/ RecordReceipt \/ ReadAges \/ GiveUp \/ SessionLost
           \/ ProposalRefused \/ PlanQuery \/ FetchReceipt
  BY <1>1, <1>5 DEF Relink, StartPropose, ReadAges,
     GiveUp, SessionLost, ProposalRefused, PlanQuery, FetchReceipt, CommitHostRecovery,
     RefreshHostRecovery, RecordReceipt
<1>6. CASE HostRestarts
  <2>1. row' = row /\ wire' = wire /\ host'.answered = host.answered
    BY <1>6 DEF HostRestarts, TypeOK
  <2> QED
    BY <1>1, <2>1
<1>7. ASSUME NEW c \in Cells, ReadSnapshot(c) PROVE RowTellsTheTruth'
  BY <1>1, <1>7 DEF ReadSnapshot
<1>8. ASSUME NEW b \in Bindings,
             StartProgress(b) \/ ApproveHostRecovery(b) \/ ProposeHostRecovery(b)
      PROVE  RowTellsTheTruth'
  BY <1>1, <1>8 DEF StartProgress, ApproveHostRecovery, ProposeHostRecovery
<1>9. ASSUME NEW b \in Bindings, NEW o \in Ops, StartQuery(b, o) PROVE RowTellsTheTruth'
  BY <1>1, <1>9 DEF StartQuery
<1>10. ASSUME NEW o \in Ops, HostReceives(o) \/ HostAccepts(o) PROVE RowTellsTheTruth'
  BY <1>1, <1>10 DEF HostReceives, HostAccepts
<1>11. ASSUME NEW q \in wire, HostFences(q) PROVE RowTellsTheTruth'
  <2>1. row' = row /\ wire' \subseteq wire
    BY <1>11 DEF HostFences
  <2>2. wire' \cup host'.answered \subseteq wire \cup host.answered
    BY <1>11, <2>1, FenceAnswer
  <2> QED
    BY <1>1, <2>1, <2>2
<1>12. ASSUME NEW c \in Cells, PlanFence(c) PROVE RowTellsTheTruth'
  <2>1. worker # None /\ worker.job # "propose"
    BY <1>12 DEF PlanFence, ReadDone
  <2> DEFINE q == binding[worker.b].fences[c].request
  <2>2. q \in Request /\ q = <<q[1], q[2], q[3]>> /\ Row(q) \in Cells \X (1..MaxEpoch)
    BY <2>1, DrivenFence, RequestShape DEF Row
  <2>3. UNCHANGED host
    BY <1>12 DEF PlanFence
  <2>4. CASE row' = Enter(q) /\ wire' = wire \cup {q}
    <3>1. DOMAIN row' = Cells \X (1..MaxEpoch)
      BY <1>0, <2>4 DEF Enter
    <3>2. ASSUME NEW x \in Cells \X (1..MaxEpoch)
          PROVE  /\ row'[x] = "New" => row[x] = "New" /\ q # <<"outbox", x[1], x[2]>>
                 /\ row'[x] = "Delivered" => row[x] = "Delivered"
      <4>1. row'[x] = IF Taken(q) /\ x = Row(q) /\ row[x] = "New" THEN "EmitEntered" ELSE row[x]
        BY <1>0, <2>2, <2>4 DEF Enter
      <4>2. q = <<"outbox", x[1], x[2]>> => Taken(q) /\ x = Row(q)
        BY DEF Taken, Row
      <4> QED
        BY <4>1, <4>2
    <3> QED
      BY <1>0, <2>3, <2>4, <3>1, <3>2 DEF RowTellsTheTruth
  <2>5. CASE UNCHANGED <<row, wire>>
    BY <1>1, <2>3, <2>5
  <2> QED
    BY <1>12, <2>4, <2>5 DEF PlanFence
<1>13. CASE RecordFence
  <2>1. worker # None /\ worker.job # "propose" /\ worker.at \in Cells
    BY <1>13 DEF RecordFence, CallHolds, CallNames
  <2> DEFINE q == binding[worker.b].fences[worker.at].request
  <2>2. q \in Request /\ Row(q) \in Cells \X (1..MaxEpoch) /\ q[2] \in Cells /\ q[3] \in Nat
    BY <2>1, DrivenFence, RequestShape DEF Row
  <2>3. UNCHANGED <<host, wire>> /\ q \in host.answered
    BY <1>13 DEF RecordFence
  <2>4. CASE row' = Complete(q)
    <3>1. DOMAIN row' = Cells \X (1..MaxEpoch)
      BY <1>0, <2>4 DEF Complete
    <3>2. ASSUME NEW x \in Cells \X (1..MaxEpoch)
          PROVE  \/ row'[x] = row[x]
                 \/ row'[x] = "Delivered" /\ x[1] = q[2] /\ x[2] = q[3]
      <4>0. row' = row \/ row' = [row EXCEPT ![Row(q)] = "Delivered"]
        BY <2>4 DEF Complete
      <4>1. CASE x # Row(q)
        <5>1. row'[x] = row[x]
          BY <1>0, <2>2, <4>0, <4>1
        <5> QED
          BY <5>1
      <4>2. CASE x = Row(q)
        <5>1. x[1] = q[2] /\ x[2] = q[3]
          BY <4>2 DEF Row
        <5>2. row'[x] = row[x] \/ row'[x] = "Delivered"
          BY <1>0, <2>2, <2>4, <4>2 DEF Complete
        <5> QED
          BY <5>1, <5>2
      <4> QED
        BY <4>1, <4>2
    <3>3. host.epoch[q[2]] >= q[3]
      BY <1>0, <2>2, <2>3 DEF HostFollows
    <3>4. ASSUME NEW x \in Cells \X (1..MaxEpoch)
          PROVE  /\ row'[x] = "New" => <<"outbox", x[1], x[2]>> \notin wire' \cup host'.answered
                 /\ row'[x] = "Delivered" => host'.epoch[x[1]] >= x[2]
      <4>1. CASE row'[x] = row[x]
        BY <1>0, <2>3, <4>1 DEF RowTellsTheTruth
      <4>2. CASE row'[x] = "Delivered" /\ x[1] = q[2] /\ x[2] = q[3]
        BY <2>3, <3>3, <4>2
      <4> QED
        BY <3>2, <4>1, <4>2
    <3> QED
      BY <3>1, <3>4 DEF RowTellsTheTruth
  <2>5. CASE UNCHANGED row
    BY <1>1, <2>3, <2>5
  <2> QED
    BY <1>13, <2>4, <2>5 DEF RecordFence
<1> QED
  BY <1>3, <1>p, <1>4, <1>5, <1>6, <1>7, <1>8, <1>9, <1>10, <1>11, <1>12, <1>13 DEF Next, Writes

-----------------------------------------------------------------------------
(* The host's journal, and the receipts taken from it.                        *)

(* What the journal says of a command voided or sent is final.                *)
LEMMA JournalIsFinal ==
    ASSUME TypeOK, HostFollows, JournalHolds, Next, NEW o \in Ops
    PROVE  /\ native[o] = "VoidedBeforeSend" => native'[o] = "VoidedBeforeSend"
           /\ native[o] \in {"SendEntered", "NativeAccepted"} =>
                native'[o] \in {"SendEntered", "NativeAccepted"}
<1> USE RecoveryAssumption DEF platform, peer
<1>0. native \in [Ops -> Journal] /\ command \in [Ops -> {"Prepare", "Authorize", None}]
  BY DEF TypeOK
<1>1. ASSUME NEW q \in wire, HostFences(q)
      PROVE  native'[o] = native[o] \/ native[o] = "Prepared"
  BY <1>0, <1>1 DEF HostFences
<1>2. ASSUME NEW p \in Ops, HostReceives(p)
      PROVE  /\ native[o] = "VoidedBeforeSend" => native'[o] = "VoidedBeforeSend"
             /\ native[o] \in {"SendEntered", "NativeAccepted"} => native'[o] = native[o]
  <2>1. CASE p # o
    BY <1>0, <1>2, <2>1 DEF HostReceives
  <2>2. CASE p = o
    BY <1>0, <1>2, <2>2 DEF HostReceives, JournalHolds, Journal
  <2> QED
    BY <2>1, <2>2
<1>3. ASSUME NEW p \in Ops, HostAccepts(p)
      PROVE  native'[o] = IF p = o THEN "NativeAccepted" ELSE native[o]
  BY <1>0, <1>3 DEF HostAccepts
<1>4. ASSUME NEW p \in Ops, HostAccepts(p) PROVE native[p] = "SendEntered"
  BY <1>4 DEF HostAccepts
<1>5. CASE \/ RestartRuntime \/ OpenProducer \/ Relink \/ StartPropose \/ RecordFence
           \/ CommitHostRecovery \/ RefreshHostRecovery \/ RecordReceipt \/ HostRestarts
           \/ ReadAges \/ GiveUp \/ SessionLost \/ ProposalRefused \/ PlanQuery \/ FetchReceipt
  BY <1>5 DEF RestartRuntime, OpenProducer, Relink, StartPropose, ReadAges, RecordFence,
     GiveUp, SessionLost, ProposalRefused, PlanQuery, FetchReceipt, CommitHostRecovery,
     RefreshHostRecovery, RecordReceipt, HostRestarts
<1>6. ASSUME NEW c \in Cells, Invalidate(c) \/ ReadSnapshot(c) \/ PlanFence(c)
      PROVE  UNCHANGED native
  BY <1>6 DEF Invalidate, ReadSnapshot, PlanFence
<1>7. ASSUME NEW b \in Bindings,
             StartProgress(b) \/ ApproveHostRecovery(b) \/ ProposeHostRecovery(b)
      PROVE  UNCHANGED native
  BY <1>7 DEF StartProgress, ApproveHostRecovery, ProposeHostRecovery
<1>8. ASSUME NEW b \in Bindings, NEW p \in Ops, StartQuery(b, p) PROVE UNCHANGED native
  BY <1>8 DEF StartQuery
<1> QED
  BY <1>1, <1>2, <1>3, <1>4, <1>5, <1>6, <1>7, <1>8 DEF Next, Writes

(* Late messages find the journal as the fences left it.                      *)
LEMMA JournalStep ==
    ASSUME TypeOK, CallHolds, HostFollows, JournalHolds, Next
    PROVE  JournalHolds'
<1> USE RecoveryAssumption DEF platform, peer
<1>0. /\ native \in [Ops -> Journal] /\ command \in [Ops -> {"Prepare", "Authorize", None}]
      /\ host.epoch \in [Cells -> 1..MaxEpoch] /\ wire \subseteq Request
  BY DEF TypeOK
<1>1. \A c \in Cells : host'.epoch[c] \in Nat /\ host.epoch[c] <= host'.epoch[c]
  BY HostGrows
<1>2. ASSUME UNCHANGED <<native, command>> PROVE JournalHolds'
  <2>1. ASSUME NEW o \in Ops, native[o] = "VoidedBeforeSend" PROVE host'.epoch[CellOf[o]] > 1
    <3>1. CellOf[o] \in Cells /\ host.epoch[CellOf[o]] > 1 /\ host.epoch[CellOf[o]] \in Nat
      BY <1>0, <2>1 DEF JournalHolds
    <3> QED
      BY <1>1, <3>1
  <2> QED
    BY <1>2, <2>1 DEF JournalHolds
<1>3. ASSUME NEW q \in wire, HostFences(q) PROVE JournalHolds'
  <2>1. q[2] \in Cells /\ q[3] \in 1..MaxEpoch
    BY <1>0, RequestShape
  <2>2. host'.epoch[q[2]] = IF host.epoch[q[2]] < q[3] THEN q[3] ELSE host.epoch[q[2]]
    BY <1>3, <2>1, FenceAnswer
  <2>3. ASSUME NEW o \in Ops
        PROVE  /\ command'[o] = "Prepare" => native'[o] = "Absent"
               /\ command'[o] = "Authorize" => native'[o] \in {"Prepared", "VoidedBeforeSend"}
               /\ native'[o] = "VoidedBeforeSend" => host'.epoch[CellOf[o]] > 1
    <3>1. CASE CellOf[o] = q[2] /\ native[o] = "Prepared" /\ host.epoch[q[2]] < q[3]
      <4>1. native'[o] = "VoidedBeforeSend" /\ command'[o] = command[o]
        BY <1>0, <1>3, <3>1 DEF HostFences
      <4>2. host'.epoch[CellOf[o]] > 1
        BY <1>0, <2>1, <2>2, <3>1
      <4> QED
        BY <3>1, <4>1, <4>2 DEF JournalHolds
    <3>2. CASE ~(CellOf[o] = q[2] /\ native[o] = "Prepared" /\ host.epoch[q[2]] < q[3])
      <4>1. native'[o] = native[o] /\ command'[o] = command[o]
        BY <1>0, <1>3, <3>2 DEF HostFences
      <4>2. CellOf[o] \in Cells /\ host.epoch[CellOf[o]] \in Nat
        BY <1>0
      <4> QED
        BY <1>1, <4>1, <4>2 DEF JournalHolds
    <3> QED
      BY <3>1, <3>2
  <2> QED
    BY <2>3 DEF JournalHolds
<1>4. ASSUME NEW p \in Ops, HostReceives(p) PROVE JournalHolds'
  BY <1>0, <1>4 DEF HostReceives, JournalHolds, Journal
<1>5. ASSUME NEW p \in Ops, HostAccepts(p) PROVE JournalHolds'
  BY <1>0, <1>5 DEF HostAccepts, JournalHolds, Journal
<1>6. CASE \/ RestartRuntime \/ OpenProducer \/ Relink \/ StartPropose \/ RecordFence
           \/ CommitHostRecovery \/ RefreshHostRecovery \/ RecordReceipt \/ HostRestarts
           \/ ReadAges \/ GiveUp \/ SessionLost \/ ProposalRefused \/ PlanQuery \/ FetchReceipt
  BY <1>2, <1>6 DEF RestartRuntime, OpenProducer, Relink, StartPropose, ReadAges, RecordFence,
     GiveUp, SessionLost, ProposalRefused, PlanQuery, FetchReceipt, CommitHostRecovery,
     RefreshHostRecovery, RecordReceipt, HostRestarts
<1>7. ASSUME NEW c \in Cells, Invalidate(c) \/ ReadSnapshot(c) \/ PlanFence(c)
      PROVE  UNCHANGED <<native, command>>
  BY <1>7 DEF Invalidate, ReadSnapshot, PlanFence
<1>8. ASSUME NEW b \in Bindings,
             StartProgress(b) \/ ApproveHostRecovery(b) \/ ProposeHostRecovery(b)
      PROVE  UNCHANGED <<native, command>>
  BY <1>8 DEF StartProgress, ApproveHostRecovery, ProposeHostRecovery
<1>9. ASSUME NEW b \in Bindings, NEW p \in Ops, StartQuery(b, p)
      PROVE  UNCHANGED <<native, command>>
  BY <1>9 DEF StartQuery
<1> QED
  BY <1>2, <1>3, <1>4, <1>5, <1>6, <1>7, <1>8, <1>9 DEF Next, Writes

(* What is recorded of a command is what the journal says for good.           *)
LEMMA ReceiptStep ==
    ASSUME TypeOK, CallHolds, HostFollows, JournalHolds, ReceiptsAreTrue, Next
    PROVE  ReceiptsAreTrue'
<1> USE RecoveryAssumption DEF platform, peer
<1>0. work \in [Ops -> [sent : BOOLEAN, outcome : {"NotExecuted", None},
                        prepare : Marks, authorize : Marks]]
  BY DEF TypeOK
<1>1. ASSUME UNCHANGED work PROVE ReceiptsAreTrue'
  BY <1>1, JournalIsFinal DEF ReceiptsAreTrue
<1>2. CASE RecordReceipt
  <2> DEFINE o == worker.op
  <2>1. o \in Ops /\ worker # None /\ worker.receipt # None /\ UNCHANGED native
    BY <1>2 DEF RecordReceipt, CallHolds, CallNames
  <2>2. /\ worker.receipt = "VoidedBeforeSend" => native[o] = "VoidedBeforeSend"
        /\ worker.receipt \in {"SendEntered", "NativeAccepted"} =>
             native[o] \in {"SendEntered", "NativeAccepted"}
    BY <2>1 DEF CallHolds, CallReceipt
  <2>3. ASSUME NEW p \in Ops
        PROVE  /\ work'[p].outcome = "NotExecuted" => native[p] = "VoidedBeforeSend"
               /\ work'[p].sent => native[p] \in {"SendEntered", "NativeAccepted"}
    <3>1. CASE p # o
      BY <1>0, <1>2, <2>1, <3>1 DEF RecordReceipt, ReceiptsAreTrue
    <3>2. CASE p = o
      <4>1. work'[p].outcome = OutcomeOf(o, worker.receipt)
        BY <1>0, <1>2, <2>1, <3>2 DEF RecordReceipt
      <4>2. work'[p].sent = (work[p].sent \/ worker.receipt \in {"SendEntered", "NativeAccepted"})
        BY <1>0, <1>2, <2>1, <3>2 DEF RecordReceipt
      <4>3. work'[p].outcome = "NotExecuted" => native[p] = "VoidedBeforeSend"
        BY <2>2, <3>2, <4>1 DEF OutcomeOf, ReceiptsAreTrue
      <4> QED
        BY <2>2, <3>2, <4>2, <4>3 DEF ReceiptsAreTrue
    <3> QED
      BY <3>1, <3>2
  <2> QED
    BY <2>1, <2>3 DEF ReceiptsAreTrue
<1>3. CASE \/ RestartRuntime \/ OpenProducer \/ Relink \/ StartPropose \/ RecordFence
           \/ CommitHostRecovery \/ RefreshHostRecovery \/ HostRestarts
           \/ ReadAges \/ GiveUp \/ SessionLost \/ ProposalRefused \/ PlanQuery \/ FetchReceipt
  BY <1>1, <1>3 DEF RestartRuntime, OpenProducer, Relink, StartPropose, ReadAges, RecordFence,
     GiveUp, SessionLost, ProposalRefused, PlanQuery, FetchReceipt, CommitHostRecovery,
     RefreshHostRecovery, HostRestarts
<1>4. ASSUME NEW c \in Cells, Invalidate(c) \/ ReadSnapshot(c) \/ PlanFence(c)
      PROVE  UNCHANGED work
  BY <1>4 DEF Invalidate, ReadSnapshot, PlanFence
<1>5. ASSUME NEW b \in Bindings,
             StartProgress(b) \/ ApproveHostRecovery(b) \/ ProposeHostRecovery(b)
      PROVE  UNCHANGED work
  BY <1>5 DEF StartProgress, ApproveHostRecovery, ProposeHostRecovery
<1>6. ASSUME NEW b \in Bindings, NEW p \in Ops, StartQuery(b, p) PROVE UNCHANGED work
  BY <1>6 DEF StartQuery
<1>7. ASSUME NEW q \in wire, HostFences(q) PROVE UNCHANGED work
  BY <1>7 DEF HostFences
<1>8. ASSUME NEW p \in Ops, HostReceives(p) \/ HostAccepts(p) PROVE UNCHANGED work
  BY <1>8 DEF HostReceives, HostAccepts
<1> QED
  BY <1>1, <1>2, <1>3, <1>4, <1>5, <1>6, <1>7, <1>8 DEF Next, Writes

-----------------------------------------------------------------------------
(* The call that holds the host's lock.                                       *)

(* A stored binding is never removed.                                         *)
LEMMA BindingStays ==
    ASSUME TypeOK, CallHolds, Next, NEW b \in Bindings, binding[b] # None
    PROVE  binding'[b] # None
<1> USE RecoveryAssumption
<1>0. binding \in [Bindings -> Stored \cup {None}]
  BY DEF TypeOK
<1>1. CASE Drives
  BY <1>0, <1>1 DEF Drives, Restores, Stores
<1>2. ASSUME NEW d \in Bindings, ProposeHostRecovery(d) PROVE binding'[b] # None
  BY <1>0, <1>2 DEF ProposeHostRecovery
<1>3. ASSUME NEW d \in Bindings, ApproveHostRecovery(d) PROVE binding'[b] # None
  <2>1. binding[d] \in Stored
    BY <1>0, <1>3 DEF ApproveHostRecovery
  <2>2. [binding[d] EXCEPT !.phase = "Fencing", !.approved = TRUE] \in Stored
    BY <2>1 DEF Stored
  <2>3. binding' = [binding EXCEPT ![d] = [binding[d] EXCEPT !.phase = "Fencing", !.approved = TRUE]]
    BY <1>0, <1>3 DEF ApproveHostRecovery
  <2> QED
    BY <1>0, <2>2, <2>3
<1> QED
  BY <1>1, <1>2, <1>3, StepShape

(* What a call rests on stays true while it waits.                            *)
LEMMA CallKept ==
    ASSUME TypeOK, CallHolds, HostFollows, JournalHolds, Next, NEW w \in Call,
           CallNames(w), CallReads(w), CallReceipt(w)
    PROVE  CallNames(w)' /\ CallReads(w)' /\ CallReceipt(w)'
<1> USE RecoveryAssumption
<1>1. CallNames(w)'
  BY BindingStays DEF CallNames
<1>2. CallReads(w)'
  <2>1. \A c \in Cells : /\ w.read.snapshot[c] \in Nat /\ host.epoch[c] \in Nat
                         /\ host'.epoch[c] \in Nat /\ host.epoch[c] <= host'.epoch[c]
    BY HostGrows DEF TypeOK, Call, Read
  <2> QED
    BY <2>1 DEF CallReads
<1>3. CallReceipt(w)'
  <2>1. CASE w.job = "query"
    BY <2>1, JournalIsFinal DEF CallNames, CallReceipt
  <2>2. CASE w.job # "query"
    BY <2>2 DEF CallNames, CallReceipt, Journal
  <2> QED
    BY <2>1, <2>2
<1> QED
  BY <1>1, <1>2, <1>3

(* Every step leaves a call that holds.                                       *)
LEMMA CallHoldsStep ==
    ASSUME TypeOK, CallHolds, HostFollows, JournalHolds, Next
    PROVE  CallHolds'
<1> USE RecoveryAssumption DEF platform, peer
<1>0. /\ worker \in Call \cup {None} /\ worker' \in Call \cup {None}
      /\ binding \in [Bindings -> Stored \cup {None}] /\ native \in [Ops -> Journal]
      /\ host.epoch \in [Cells -> Nat]
  BY CallStep DEF TypeOK, CallTyped
<1>1. ASSUME worker' # None => CallNames(worker') /\ CallReads(worker') /\ CallReceipt(worker')
      PROVE  CallHolds'
  <2>1. \A w \in Call : CallNames(w) /\ CallReads(w) /\ CallReceipt(w)
                          => CallNames(w)' /\ CallReads(w)' /\ CallReceipt(w)'
    BY CallKept
  <2>2. SUFFICES ASSUME worker' # None PROVE CallHolds'
    BY DEF CallHolds
  <2>3. worker' \in Call /\ CallNames(worker') /\ CallReads(worker') /\ CallReceipt(worker')
    BY <1>0, <1>1, <2>2
  <2> QED
    BY <2>1, <2>3 DEF CallHolds, CallNames, CallReads, CallReceipt
<1>2. CASE worker' \in {worker, None}
  BY <1>1, <1>2 DEF CallHolds
<1>3. ASSUME NEW job \in {"propose", "progress", "query"}, NEW b \in Bindings \cup {None},
             NEW k \in Cut
      PROVE  LET w == Connected(job, b, k) IN
             /\ w \in Call /\ w.job = job /\ w.b = b /\ w.step = "reading" /\ w.receipt = None
             /\ w.read.snapshot = [c \in Cells |-> 0] /\ w.read \in Read
  BY <1>3, ConnectedTyped DEF Connected
<1>4. ASSUME NEW w \in Call, w.read.snapshot = [c \in Cells |-> 0] PROVE CallReads(w)
  BY <1>0, <1>4 DEF CallReads
<1>5. ASSUME NEW w \in Call, w.receipt = None PROVE CallReceipt(w)
  BY <1>5 DEF CallReceipt, Journal
<1>6. CASE StartPropose
  <2>1. worker' = Connected("propose", None, Context) /\ Context \in Cut
    BY <1>6, CutTyped DEF StartPropose
  <2>2. CallNames(worker')
    BY <1>3, <2>1 DEF CallNames
  <2> QED
    BY <1>1, <1>3, <1>4, <1>5, <2>1, <2>2
<1>7. ASSUME NEW b \in Bindings, StartProgress(b) PROVE CallHolds'
  <2>1. worker' = Connected("progress", b, binding[b].cut) /\ binding[b].cut \in Cut /\ binding[b] # None
    BY <1>0, <1>7 DEF StartProgress, Stored
  <2>2. CallNames(worker')
    BY <1>3, <2>1 DEF CallNames
  <2> QED
    BY <1>1, <1>3, <1>4, <1>5, <2>1, <2>2
<1>8. ASSUME NEW b \in Bindings, NEW o \in Ops, StartQuery(b, o) PROVE CallHolds'
  <2> DEFINE v == Connected("query", b, binding[b].cut)
             w == [v EXCEPT !.op = o]
  <2>1. worker' = w /\ binding[b].cut \in Cut /\ binding[b] # None
    BY <1>0, <1>8 DEF StartQuery, Stored
  <2>2. /\ v \in Call /\ v.job = "query" /\ v.b = b /\ v.step = "reading" /\ v.receipt = None
        /\ v.read.snapshot = [c \in Cells |-> 0]
    BY <1>3, <2>1
  <2>3. /\ w \in Call /\ w.job = "query" /\ w.b = b /\ w.step = "reading" /\ w.receipt = None
        /\ w.read.snapshot = [c \in Cells |-> 0] /\ w.op = o
    BY <2>2 DEF Call
  <2>4. CallNames(w)
    BY <2>1, <2>3 DEF CallNames
  <2> QED
    BY <1>1, <1>4, <1>5, <2>1, <2>3, <2>4
<1>9. ASSUME NEW c \in Cells, ReadSnapshot(c) PROVE CallHolds'
  <2> DEFINE w == [worker EXCEPT !.read.snapshot[c] = host.epoch[c]]
  <2>1. worker \in Call /\ worker' = w /\ worker # None
    BY <1>0, <1>9 DEF ReadSnapshot
  <2>2. /\ w.job = worker.job /\ w.b = worker.b /\ w.step = worker.step /\ w.at = worker.at
        /\ w.op = worker.op /\ w.receipt = worker.receipt
        /\ w.read.snapshot = [worker.read.snapshot EXCEPT ![c] = host.epoch[c]]
        /\ worker.read.snapshot \in [Cells -> Nat]
    BY <2>1 DEF Call, Read
  <2>3. CallNames(w) /\ CallReceipt(w)
    BY <2>1, <2>2 DEF CallHolds, CallNames, CallReceipt
  <2>4. CallReads(w)
    BY <1>0, <2>1, <2>2 DEF CallHolds, CallReads
  <2> QED
    BY <1>1, <2>1, <2>3, <2>4
<1>10. ASSUME NEW w \in Call, worker \in Call, worker # None, w.job = worker.job, w.b = worker.b,
              w.op = worker.op, w.receipt = worker.receipt,
              w.read.snapshot \in {worker.read.snapshot, [c \in Cells |-> 0]},
              w.step = "sent" => w.job = "progress" /\ w.at \in Cells,
              w.step \in {"query", "receipt"} => w.job = "query",
              worker' = w
       PROVE  CallHolds'
  <2>1. CallNames(w) /\ CallReceipt(w)
    BY <1>10 DEF CallHolds, CallNames, CallReceipt
  <2>2. CallReads(w)
    BY <1>4, <1>10 DEF CallHolds, CallReads
  <2> QED
    BY <1>1, <1>10, <2>1, <2>2
<1>11. CASE ReadAges
  <2> DEFINE w == [worker EXCEPT !.read.fresh = FALSE]
  <2>1. worker \in Call /\ worker' = w /\ worker # None /\ worker.step = "reading"
    BY <1>0, <1>11 DEF ReadAges, ReadDone
  <2>2. /\ w \in Call /\ w.job = worker.job /\ w.b = worker.b /\ w.step = worker.step
        /\ w.op = worker.op /\ w.receipt = worker.receipt
        /\ w.read.snapshot = worker.read.snapshot
    BY <2>1 DEF Call, Read
  <2> QED
    BY <1>10, <2>1, <2>2
<1>12. ASSUME NEW c \in Cells, PlanFence(c) PROVE CallHolds'
  <2> DEFINE w == [worker EXCEPT !.step = "sent", !.at = c]
  <2>1. worker \in Call /\ worker # None /\ worker.job = "progress" /\ worker' \in {None, w}
    BY <1>0, <1>12 DEF PlanFence, ReadDone
  <2>2. /\ w \in Call /\ w.job = worker.job /\ w.b = worker.b /\ w.step = "sent" /\ w.at = c
        /\ w.op = worker.op /\ w.receipt = worker.receipt /\ w.read = worker.read
    BY <2>1 DEF Call
  <2> QED
    BY <1>2, <1>10, <2>1, <2>2
<1>13. ASSUME NEW w \in Call
       PROVE  LET v == Reading(w) IN
              /\ v \in Call /\ v.job = w.job /\ v.b = w.b /\ v.op = w.op /\ v.receipt = w.receipt
              /\ v.step = "reading" /\ v.read.snapshot = [c \in Cells |-> 0]
  <2>1. w.job \in {"propose", "progress", "query"} /\ w.b \in Bindings \cup {None} /\ w.cut \in Cut
    BY <1>13 DEF Call
  <2>2. /\ Connected(w.job, w.b, w.cut).read \in Read
        /\ Connected(w.job, w.b, w.cut).read.snapshot = [c \in Cells |-> 0]
    BY <1>3, <2>1
  <2> QED
    BY <1>13, <2>2 DEF Reading, Call
<1>14. CASE RecordFence \/ RecordReceipt
  <2>1. worker \in Call /\ worker # None /\ worker' \in {None, Reading(worker)}
    BY <1>0, <1>14 DEF RecordFence, RecordReceipt
  <2> QED
    BY <1>2, <1>10, <1>13, <2>1
<1>15. CASE RefreshHostRecovery \/ PlanQuery
  <2> DEFINE w(s) == [worker EXCEPT !.step = s]
  <2>1. /\ worker \in Call /\ worker # None /\ worker' \in {None, w("query"), w("receipt")}
    BY <1>0, <1>15 DEF RefreshHostRecovery, PlanQuery, ReadDone
  <2>2. worker' = None \/ worker.job = "query"
    BY <1>15, <2>1 DEF RefreshHostRecovery, PlanQuery, CallHolds, CallNames
  <2>3. \A s \in {"query", "receipt"} :
        /\ w(s) \in Call /\ w(s).job = worker.job /\ w(s).b = worker.b /\ w(s).step = s
        /\ w(s).op = worker.op /\ w(s).receipt = worker.receipt /\ w(s).read = worker.read
    BY <2>1 DEF Call
  <2> QED
    BY <1>2, <1>10, <2>1, <2>2, <2>3
<1>16. CASE FetchReceipt
  <2> DEFINE w == [worker EXCEPT !.receipt = native[worker.op]]
  <2>1. /\ worker \in Call /\ worker # None /\ worker' \in {w, Reading(w)} /\ worker.step = "receipt"
    BY <1>0, <1>16 DEF FetchReceipt
  <2>2. worker.job = "query" /\ worker.op \in Ops
    BY <2>1 DEF CallHolds, CallNames
  <2>3. /\ w \in Call /\ w.job = worker.job /\ w.b = worker.b /\ w.step = worker.step
        /\ w.op = worker.op /\ w.receipt = native[worker.op] /\ w.read = worker.read
    BY <1>0, <2>1, <2>2 DEF Call
  <2>4. CallNames(w) /\ CallReceipt(w) /\ CallReads(w)
    BY <2>1, <2>2, <2>3 DEF CallNames, CallReceipt, CallReads, CallHolds
  <2> DEFINE v == Reading(w)
  <2>5. /\ v \in Call /\ v.job = w.job /\ v.b = w.b /\ v.op = w.op /\ v.receipt = w.receipt
        /\ v.step = "reading" /\ v.read.snapshot = [c \in Cells |-> 0]
    BY <1>13, <2>3
  <2>6. CallNames(v) /\ CallReceipt(v)
    BY <2>2, <2>3, <2>4, <2>5 DEF CallNames, CallReceipt
  <2>7. CallReads(v)
    BY <1>4, <2>5
  <2> QED
    BY <1>1, <2>1, <2>4, <2>6, <2>7
<1>17. CASE \/ RestartRuntime \/ OpenProducer \/ Relink \/ HostRestarts \/ GiveUp
            \/ SessionLost \/ ProposalRefused \/ CommitHostRecovery
  BY <1>2, <1>17 DEF RestartRuntime, OpenProducer, Relink, HostRestarts, GiveUp, SessionLost,
     ProposalRefused, CommitHostRecovery
<1>18. ASSUME NEW c \in Cells, Invalidate(c) PROVE CallHolds'
  BY <1>2, <1>18 DEF Invalidate
<1>19. ASSUME NEW b \in Bindings, ApproveHostRecovery(b) \/ ProposeHostRecovery(b)
       PROVE  CallHolds'
  BY <1>2, <1>19 DEF ApproveHostRecovery, ProposeHostRecovery
<1>20. ASSUME NEW q \in wire, HostFences(q) PROVE CallHolds'
  BY <1>2, <1>20 DEF HostFences
<1>21. ASSUME NEW o \in Ops, HostReceives(o) \/ HostAccepts(o) PROVE CallHolds'
  BY <1>2, <1>21 DEF HostReceives, HostAccepts
<1> QED
  BY <1>6, <1>7, <1>8, <1>9, <1>11, <1>12, <1>14, <1>15, <1>16, <1>17, <1>18, <1>19, <1>20,
     <1>21 DEF Next, Writes

-----------------------------------------------------------------------------
(* The theorems.                                                              *)

(* The restart finds the platform and the host as the last boot left them.    *)
LEMMA InitHolds == Init => RecoveryInv
<1> SUFFICES ASSUME Init PROVE RecoveryInv
  OBVIOUS
<1> USE RecoveryAssumption DEF Init
<1>0. MaxRuntime \in Nat \ {0} /\ MaxHostBoot \in Nat \ {0} /\ MaxEpoch \in Nat \ {0}
  OBVIOUS
<1>1. PlatformTyped
  <2>1. epoch \in [Cells -> 1..MaxEpoch] /\ row \in [Cells \X (1..MaxEpoch) -> Marks]
    BY <1>0 DEF Marks
  <2>2. producer \in Link /\ reg \in Link
    BY DEF Link
  <2>3. work \in [Ops -> [sent : BOOLEAN, outcome : {"NotExecuted", None},
                          prepare : Marks, authorize : Marks]]
    BY DEF Marks
  <2> QED
    BY <1>0, <2>1, <2>2, <2>3 DEF PlatformTyped
<1>2. PeerTyped
  BY <1>0 DEF PeerTyped, Journal
<1>3. BindingsTyped /\ CallTyped
  BY DEF BindingsTyped, CallTyped
<1>4. OneRecovery /\ BindingsHold /\ CallHolds /\ ReceiptsAreTrue
  BY DEF OneRecovery, UnderWay, BindingsHold, CallHolds, ReceiptsAreTrue
<1>5. HostFollows /\ JournalHolds
  BY <1>0 DEF HostFollows, JournalHolds
<1>6. RowTellsTheTruth
  BY DEF RowTellsTheTruth
<1> QED
  BY <1>1, <1>2, <1>3, <1>4, <1>5, <1>6, TypeParts DEF RecoveryInv

(* The invariant survives every step.                                         *)
LEMMA RecoveryStep == RecoveryInv /\ [Next]_vars => RecoveryInv'
<1> SUFFICES ASSUME RecoveryInv, [Next]_vars PROVE RecoveryInv'
  OBVIOUS
<1>0. /\ TypeOK /\ OneRecovery /\ BindingsHold /\ HostFollows /\ CallHolds
      /\ JournalHolds /\ RowTellsTheTruth /\ ReceiptsAreTrue
  BY DEF RecoveryInv
<1>1. CASE Next
  <2>1. BindingsTyped' /\ PlatformTyped' /\ PeerTyped' /\ CallTyped'
    BY <1>0, <1>1, BindingsStep, PlatformStep, PeerStep, CallStep
  <2>2. TypeOK'
    BY <2>1 DEF TypeOK, BindingsTyped, PlatformTyped, PeerTyped, CallTyped
  <2> QED
    BY <1>0, <1>1, <2>2, BindingsStep, HostStep, CallHoldsStep, JournalStep, RowStep, ReceiptStep
       DEF RecoveryInv
<1>2. CASE UNCHANGED vars
  BY <1>0, <1>2
     DEF vars, platform, peer, RecoveryInv, TypeOK, Unacknowledged, OneRecovery, UnderWay,
         BindingsHold, CutHolds, FencesOfCut, HostFollows, CallHolds, CallNames, CallReads,
         CallReceipt, JournalHolds, RowTellsTheTruth, ReceiptsAreTrue
<1> QED
  BY <1>1, <1>2

(* For any number of cells, commands and bindings and whatever restarts, late *)
(* answers and failed calls come between: one recovery of the host is under   *)
(* way and it is the owner's, continuity never skips a boot nobody recovered  *)
(* the host in, an outbox row marked New was never sent and one marked        *)
(* Delivered was applied, and a command concluded NotExecuted never is.       *)
THEOREM RecoveryIsAlwaysSound == Spec => []RecoveryIsSound
<1>1. RecoveryInv => RecoveryIsSound
  <2> SUFFICES ASSUME RecoveryInv PROVE RecoveryIsSound
    OBVIOUS
  <2>1. EveryBootIsAccounted
    <3>1. ASSUME NEW b \in Bindings, binding[b] # None, binding[b].phase = "RecoveryOnly",
                 NEW i \in (binding[b].cut.reg.runtime + 1)..binding[b].cut.runtime
          PROVE  i \in recovered
      <4> DEFINE k == binding[b].cut
      <4>1. k.runtime \in Nat /\ k.reg.runtime \in Nat /\ runtime \in 1..MaxRuntime
        BY <3>1 DEF RecoveryInv, TypeOK, Stored, Cut, Link
      <4>2. CutHolds(k) /\ k.runtime \in recovered
        BY <3>1 DEF RecoveryInv, BindingsHold
      <4>3. i \in 1..MaxRuntime /\ k.reg.runtime < i /\ (i < k.runtime \/ i = k.runtime)
        BY <3>1, <4>1, <4>2, RecoveryAssumption DEF CutHolds
      <4> QED
        BY <4>2, <4>3 DEF CutHolds
    <3> QED
      BY <3>1 DEF EveryBootIsAccounted
  <2> QED
    BY <2>1 DEF RecoveryInv, RecoveryIsSound
<1> QED
  BY <1>1, InitHolds, RecoveryStep, PTL DEF Spec

(* A binding becomes RecoveryOnly only when the host stands at the epoch that *)
(* every one of its cells has at that moment: the second read bounds the host *)
(* from below, and no fence is ever ahead of its cell.                        *)
THEOREM PromotedHostIsAlwaysFenced == Spec => PromotedHostIsFenced
<1>1. ASSUME RecoveryInv, [Next]_vars, NEW b \in Bindings, binding[b] # None,
             binding[b].phase = "Fencing", binding'[b].phase = "RecoveryOnly"
      PROVE  host.epoch = epoch
  <2> USE RecoveryAssumption
  <2>0. /\ TypeOK /\ CallHolds /\ HostFollows /\ BindingsHold
        /\ binding \in [Bindings -> Stored \cup {None}] /\ binding[b] \in Stored
        /\ binding' # binding
    BY <1>1 DEF RecoveryInv, TypeOK
  <2>1. Next
    BY <1>1, <2>0 DEF vars
  <2>2. CommitHostRecovery
    <3>1. CASE \E d \in Bindings : ProposeHostRecovery(d)
      BY <1>1, <2>0, <3>1 DEF ProposeHostRecovery
    <3>2. CASE \E d \in Bindings : ApproveHostRecovery(d)
      <4>1. PICK d \in Bindings : ApproveHostRecovery(d)
        BY <3>2
      <4>2. binding[d] \in Stored
        BY <2>0, <4>1 DEF ApproveHostRecovery
      <4>3. binding' = [binding EXCEPT ![d] = [binding[d] EXCEPT !.phase = "Fencing", !.approved = TRUE]]
        BY <2>0, <4>1 DEF ApproveHostRecovery
      <4>4. binding'[b].phase = "Fencing"
        BY <1>1, <2>0, <4>2, <4>3 DEF Stored
      <4> QED
        BY <1>1, <4>4
    <3>3. ASSUME NEW c \in Cells, PlanFence(c) PROVE FALSE
      <4>1. worker.b \in Bindings /\ binding[worker.b] \in Stored
        BY <2>0, <3>3, DrivenTyped DEF PlanFence, ReadDone
      <4>2. \/ binding' = [binding EXCEPT ![worker.b].fences[c].phase = "SendEntered"]
            \/ binding' = [binding EXCEPT ![worker.b] = Attention(@)]
        BY <3>3 DEF PlanFence
      <4> DEFINE driven == [binding[worker.b] EXCEPT !.fences[c].phase = "SendEntered"]
      <4>3. driven \in Stored /\ driven.phase = binding[worker.b].phase
        BY <4>1, FenceMoved DEF Stages
      <4>4. Attention(binding[worker.b]).phase = "Attention"
        BY <4>1 DEF Attention, Stored
      <4>5. \/ binding' = [binding EXCEPT ![worker.b] = driven]
            \/ binding' = [binding EXCEPT ![worker.b] = Attention(binding[worker.b])]
        BY <2>0, <4>1, <4>2
      <4> QED
        BY <1>1, <2>0, <4>1, <4>3, <4>4, <4>5
    <3>4. CASE RecordFence
      <4> DEFINE c == worker.at
                 noted == [binding[worker.b] EXCEPT !.fences[c].phase = "Acknowledged"]
      <4>1. worker.b \in Bindings /\ binding[worker.b] \in Stored /\ c \in Cells
        BY <2>0, <3>4, DrivenTyped DEF RecordFence, CallHolds, CallNames
      <4>2. noted \in Stored /\ noted.phase = binding[worker.b].phase
        BY <4>1, FenceMoved DEF Stages
      <4>3. \/ binding' = [binding EXCEPT ![worker.b] = noted]
            \/ binding' = [binding EXCEPT ![worker.b] = Attention(noted)]
            \/ binding' = binding
        BY <3>4 DEF RecordFence
      <4>4. Attention(noted).phase = "Attention"
        BY <4>2 DEF Attention, Stored
      <4> QED
        BY <1>1, <2>0, <4>1, <4>2, <4>3, <4>4
    <3>5. CASE RefreshHostRecovery
      <4>1. worker.b \in Bindings /\ binding[worker.b].phase = "RecoveryOnly"
        BY <2>0, <3>5, DrivenTyped DEF RefreshHostRecovery, ReadDone
      <4> QED
        BY <1>1, <2>0, <3>5, <4>1 DEF RefreshHostRecovery
    <3>6. CASE RecordReceipt
      <4>1. worker.b \in Bindings /\ binding[worker.b] \in Stored
        BY <2>0, <3>6, DrivenTyped DEF RecordReceipt, CallHolds, CallNames
      <4>2. binding' \in {binding, [binding EXCEPT ![worker.b] = Attention(binding[worker.b])]}
        BY <2>0, <3>6, <4>1 DEF RecordReceipt
      <4>3. Attention(binding[worker.b]).phase = "Attention"
        BY <4>1 DEF Attention, Stored
      <4> QED
        BY <1>1, <2>0, <4>1, <4>2, <4>3
    <3>7. ASSUME UNCHANGED binding PROVE FALSE
      BY <2>0, <3>7
    <3>8. CASE \/ RestartRuntime \/ OpenProducer \/ Relink \/ HostRestarts \/ StartPropose
               \/ ReadAges \/ GiveUp \/ SessionLost \/ ProposalRefused \/ PlanQuery \/ FetchReceipt
      BY <3>7, <3>8 DEF RestartRuntime, OpenProducer, Relink, HostRestarts, StartPropose, ReadAges,
         GiveUp, SessionLost, ProposalRefused, PlanQuery, FetchReceipt
    <3>9. ASSUME NEW c \in Cells, Invalidate(c) \/ ReadSnapshot(c) PROVE FALSE
      BY <3>7, <3>9 DEF Invalidate, ReadSnapshot
    <3>10. ASSUME NEW d \in Bindings, StartProgress(d) PROVE FALSE
      BY <3>7, <3>10 DEF StartProgress
    <3>11. ASSUME NEW d \in Bindings, NEW o \in Ops, StartQuery(d, o) PROVE FALSE
      BY <3>7, <3>11 DEF StartQuery
    <3>12. ASSUME NEW q \in wire, HostFences(q) PROVE FALSE
      BY <3>7, <3>12 DEF HostFences
    <3>13. ASSUME NEW o \in Ops, HostReceives(o) \/ HostAccepts(o) PROVE FALSE
      BY <3>7, <3>13 DEF HostReceives, HostAccepts
    <3> QED
      BY <2>1, <3>1, <3>2, <3>3, <3>4, <3>5, <3>6, <3>8, <3>9, <3>10, <3>11, <3>12, <3>13
         DEF Next, Writes
  <2> DEFINE old == binding[worker.b]
  <2>3. /\ worker # None /\ worker \in Call /\ worker.b \in Bindings /\ old \in Stored
        /\ CallReads(worker)
    BY <2>0, <2>2, DrivenTyped DEF CommitHostRecovery, ReadDone, CallHolds
  <2>4. Confirmed(worker.b, worker.read)
    <3>1. SUFFICES ASSUME ~Confirmed(worker.b, worker.read) PROVE FALSE
      OBVIOUS
    <3>2. binding' = [binding EXCEPT ![worker.b] = [Attention(old) EXCEPT !.read = worker.read]]
      BY <2>0, <2>2, <2>3, <3>1 DEF CommitHostRecovery
    <3>3. [Attention(old) EXCEPT !.read = worker.read].phase = "Attention"
      BY <2>3 DEF Attention, Stored
    <3> QED
      BY <1>1, <2>0, <2>3, <3>2, <3>3
  <2>5. old.cut.epoch = epoch /\ \A c \in Cells : worker.read.snapshot[c] = old.cut.epoch[c]
    BY <2>4 DEF Confirmed, ApprovedCurrent, Current, ValidRead, WithinCut
  <2>6. ASSUME NEW c \in Cells PROVE host.epoch[c] = epoch[c]
    <3>1. host.epoch[c] \in Nat /\ epoch[c] \in Nat /\ host.epoch[c] <= epoch[c]
      BY <2>0 DEF HostFollows, TypeOK
    <3>2. epoch[c] <= host.epoch[c]
      BY <2>3, <2>5 DEF CallReads
    <3> QED
      BY <3>1, <3>2
  <2>7. host.epoch \in [Cells -> 1..MaxEpoch] /\ epoch \in [Cells -> 1..MaxEpoch]
    BY <2>0 DEF TypeOK
  <2> QED
    BY <2>6, <2>7
<1>2. RecoveryInv /\ [Next]_vars =>
        [\A b \in Bindings :
           /\ binding[b] # None
           /\ binding[b].phase = "Fencing"
           /\ binding'[b].phase = "RecoveryOnly"
           /\ host.boot = reg.boot
           => host.epoch = epoch]_vars
  BY <1>1
<1> QED
  BY <1>2, InitHolds, RecoveryStep, PTL DEF Spec, PromotedHostIsFenced

-----------------------------------------------------------------------------
(* The link of a host.  Three things make the invariant inductive.  Fences     *)
(* tell grants apart: none is ever above the stored one, and the host's grant  *)
(* is of its highest fence (FencesAreStored).  A grant was given after its     *)
(* plan was prepared, and a renewal after it was, so the host's time is never  *)
(* shorter than the platform's, also between the host's answer and its commit  *)
(* (AnswersOutlast).  And generations only grow (GenerationsGrow), so a plan   *)
(* that is still of the present one was prepared in it, with nothing sent to   *)
(* the generation it replaces (ReplacedIsIdle).                                *)

(* No boot or session is ahead of the one it was taken from.                   *)
GenerationsGrow ==
    /\ evidence.boot <= equipment.boot /\ evidence.session <= sessions
    /\ \A c \in LinkedCells :
         /\ registration[c] # Unset => registration[c].boot <= evidence.boot
         /\ plan[c] # Unset => /\ plan[c].gen.boot <= evidence.boot
                               /\ plan[c].gen.session <= sessions

(* No fence that is planned, registered, on its way or at the host is above    *)
(* the one stored for its resource, and the host's grant has its highest one.  *)
FencesAreStored ==
    /\ \A r \in Resources :
         /\ equipment.fence[r] <= stored[r]
         /\ granted[r] # Unset => granted[r].fence = equipment.fence[r]
    /\ \A c \in LinkedCells : \A r \in ResOf[c] :
         /\ plan[c] # Unset => plan[c].fence <= stored[r]
         /\ registration[c] # Unset => registration[c].fence <= stored[r]
    /\ \A m \in late : \A r \in ResOf[m.cell] : m.fence <= stored[r]

(* The host holds fence f on the resources of c for `left` ticks at least.     *)
HeldFor(c, f, left) ==
    \A r \in ResOf[c] : granted[r] # Unset /\ granted[r].fence = f /\ granted[r].left >= left

(* What the host answered and the platform did not commit yet: a grant of a    *)
(* plan lasts as long as the plan counts, a renewal as long as the renewal.    *)
AnswersOutlast ==
    \A c \in LinkedCells : plan[c] # Unset =>
        /\ \A r \in ResOf[c] : granted[r] # Unset /\ granted[r].fence = plan[c].fence =>
             granted[r].left >= plan[c].grant
        /\ FenceIsCurrent(c) /\ plan[c].gen.boot = equipment.boot =>
             /\ link[c].phase = "granted" => HeldFor(c, plan[c].fence, plan[c].grant)
             /\ link[c].phase = "renewed" /\ renewal[c] # Unset =>
                  HeldFor(c, plan[c].fence, renewal[c].left)

(* A registration that counts on a grant of this boot: without a renewal no    *)
(* later plan was prepared, and while none was, the host holds it.             *)
CurrentGrantIsHeld ==
    \A c \in LinkedCells : Alive(c) /\ registration[c].boot = equipment.boot =>
        /\ renewal[c] = Unset => \A r \in ResOf[c] : stored[r] = registration[c].fence
        /\ (\A r \in ResOf[c] : stored[r] = registration[c].fence) =>
             HeldFor(c, registration[c].fence, registration[c].left)

(* A plan of the present generation that would replace another one was         *)
(* prepared when nothing sent to that one was open, and nothing was sent since. *)
ReplacedIsIdle ==
    \A c \in LinkedCells :
        /\ plan[c] # Unset /\ ~plan[c].bound /\ plan[c].gen = Generation
        /\ registration[c] # Unset /\ GenOf(registration[c]) # plan[c].gen
        => sent[c] = Unset

(* A cell that was never linked replaced nothing, and no plan of it was bound.  *)
NoHistoryBeforeLink ==
    \A c \in LinkedCells : registration[c] = Unset =>
        history[c] = {} /\ (plan[c] # Unset => ~plan[c].bound)

LinkInv ==
    /\ LinkTypeOK /\ GenerationsGrow /\ FencesAreStored /\ AnswersOutlast
    /\ CurrentGrantIsHeld /\ OpenWorkIsOfTheRegistered /\ ReplacedIsIdle
    /\ StorageIsKept /\ NoHistoryBeforeLink

(* What the invariant says of one cell and its records, ready for use.         *)
LEMMA LinkTyped ==
    ASSUME LinkTypeOK, NEW c \in LinkedCells
    PROVE  /\ registration[c] # Unset => registration[c] \in Registrations
           /\ plan[c] # Unset => plan[c] \in Plans /\ plan[c].gen \in Generations
           /\ renewal[c] # Unset => renewal[c] \in Renewals
           /\ link[c] \in Clients /\ ResOf[c] \subseteq Resources
           /\ Generation \in Generations
           /\ registration[c] # Unset => GenOf(registration[c]) \in Generations
<1>1. /\ registration[c] # Unset => registration[c] \in Registrations
      /\ plan[c] # Unset => plan[c] \in Plans
      /\ renewal[c] # Unset => renewal[c] \in Renewals
      /\ link[c] \in Clients /\ ResOf[c] \subseteq Resources
  BY LinkConstants DEF LinkTypeOK
<1>2. plan[c] # Unset => plan[c].gen \in Generations
  BY <1>1 DEF Plans
<1>3. registration[c] # Unset => GenOf(registration[c]) \in Generations
  BY <1>1 DEF Registrations, GenOf, Generations
<1>4. Generation \in Generations
  BY DEF LinkTypeOK, Generation, GenOf, Generations
<1> QED
  BY <1>1, <1>2, <1>3, <1>4

(* A bounded set of naturals that is not empty has a greatest element: what    *)
(* Max chooses (count down from the bound).                                    *)
LEMMA GreatestFence ==
    ASSUME NEW S \in SUBSET Nat, S # {}, NEW b \in Nat, \A y \in S : y <= b
    PROVE  Max(S) \in S /\ \A y \in S : y <= Max(S)
<1> DEFINE T == {b - y : y \in S}
<1>0. \A y \in S : y \in Nat /\ b - y \in Nat
  OBVIOUS
<1>1. T \in SUBSET Nat /\ T # {}
  BY <1>0
<1>2. PICK z \in T : \A y \in T : z <= y
  <2> HIDE DEF T
  <2>1. PICK x \in T : \A y \in T : ~(<<y, x>> \in OpToRel(<, Nat))
    BY <1>1, NatLessThanWellFounded, WFMin
  <2>2. \A y \in T : ~(y < x)
    BY <1>1, <2>1 DEF OpToRel
  <2> QED
    BY <1>1, <2>2
<1>3. PICK x \in S : z = b - x
  BY <1>2
<1>4. \A y \in S : x >= y
  BY <1>2, <1>3
<1> QED
  BY <1>4 DEF Max

(* prepare_host_link: the fence of a new plan is above every stored one.       *)
LEMMA NextFenceIsAbove ==
    ASSUME LinkTypeOK, NEW c \in LinkedCells, NEW s \in Equipment
    PROVE  NextFence(c, s) \in Nat /\ \A r \in ResOf[c] : stored[r] < NextFence(c, s)
<1> DEFINE S == {s.fence[r] : r \in ResOf[c]} \cup {stored[r] : r \in ResOf[c]}
<1>1. S \subseteq Fences /\ \A r \in ResOf[c] : stored[r] \in S
  <2>1. ResOf[c] \subseteq Resources /\ s.fence \in [Resources -> Fences]
        /\ stored \in [Resources -> Fences]
    BY LinkConstants DEF LinkTypeOK, Equipment
  <2> QED
    BY <2>1
<1>2. NextFence(c, s) = MaxOf(S) + 1
  BY DEF NextFence
<1> HIDE DEF S
<1>3. CASE S = {}
  BY <1>1, <1>2, <1>3 DEF MaxOf
<1>4. CASE S # {}
  <2>1. S \in SUBSET Nat /\ MaxFence \in Nat /\ \A y \in S : y <= MaxFence
    BY <1>1, LinkConstants DEF Fences
  <2>2. Max(S) \in S /\ \A y \in S : y <= Max(S)
    BY <1>4, <2>1, GreatestFence
  <2>3. NextFence(c, s) = Max(S) + 1
    BY <1>2, <1>4 DEF MaxOf
  <2> HIDE DEF Max
  <2>4. ASSUME NEW top \in S, \A y \in S : y <= top
        PROVE  top + 1 \in Nat /\ \A r \in ResOf[c] : stored[r] < top + 1
    <3>1. top \in Nat
      BY <2>1
    <3>2. ASSUME NEW r \in ResOf[c] PROVE stored[r] \in Nat /\ stored[r] <= top
      BY <1>1, <2>1, <2>4
    <3> QED
      BY <3>1, <3>2
  <2> QED
    BY <2>2, <2>3, <2>4
<1> QED
  BY <1>3, <1>4

-----------------------------------------------------------------------------
(* Steps that touch no grant, no plan, no fence and no generation.             *)

(* What such a step may do: move clients, except into the phases that wait for *)
(* a commit, give up requests, begin renewals, restart the platform, change    *)
(* cells and epochs, settle work and send it to the registered generation.     *)
Quiet ==
    /\ equipment'.boot = equipment.boot /\ equipment'.fence = equipment.fence
    /\ granted' = granted /\ stored' = stored /\ plan' = plan /\ history' = history
    /\ evidence' = evidence /\ sessions' = sessions
    /\ \A c \in LinkedCells :
         /\ registration'[c] = Unset <=> registration[c] = Unset
         /\ registration[c] # Unset =>
              /\ GenOf(registration'[c]) = GenOf(registration[c])
              /\ registration'[c].boot = registration[c].boot
              /\ registration'[c].journal = registration[c].journal
              /\ registration'[c].fence = registration[c].fence
              /\ registration'[c].left = registration[c].left
         /\ renewal[c] # Unset => renewal'[c] # Unset
         /\ link'[c].phase = "granted" => link[c].phase = "granted"
         /\ link'[c].phase = "renewed" => link[c].phase = "renewed" /\ renewal'[c] = renewal[c]
         /\ \/ sent'[c] \in {Unset, sent[c]}
            \/ /\ registration[c] # Unset /\ sent'[c] = GenOf(registration[c])
               /\ GenOf(registration[c]) = Generation
    /\ \A m \in late' : \A r \in ResOf[m.cell] : m.fence <= stored[r]

(* Such a step keeps the invariant.                                            *)
LEMMA QuietStep ==
    ASSUME LinkInv, LinkTypeOK', Quiet
    PROVE  LinkInv'
<1>0. /\ LinkTypeOK /\ GenerationsGrow /\ FencesAreStored /\ AnswersOutlast
      /\ CurrentGrantIsHeld /\ OpenWorkIsOfTheRegistered /\ ReplacedIsIdle
      /\ StorageIsKept /\ NoHistoryBeforeLink
  BY DEF LinkInv
<1>1. GenerationsGrow'
  BY <1>0 DEF GenerationsGrow, Quiet
<1>2. FencesAreStored'
  BY <1>0 DEF FencesAreStored, Quiet
<1>3. AnswersOutlast'
  <2> SUFFICES ASSUME NEW c \in LinkedCells, plan[c] # Unset
               PROVE  /\ \A r \in ResOf[c] : granted[r] # Unset /\ granted[r].fence = plan[c].fence =>
                           granted[r].left >= plan[c].grant
                      /\ FenceIsCurrent(c) /\ plan[c].gen.boot = equipment.boot =>
                           /\ link'[c].phase = "granted" => HeldFor(c, plan[c].fence, plan[c].grant)
                           /\ link'[c].phase = "renewed" /\ renewal'[c] # Unset =>
                                HeldFor(c, plan[c].fence, renewal'[c].left)
    BY DEF AnswersOutlast, Quiet, FenceIsCurrent, HeldFor
  <2>1. /\ link'[c].phase = "granted" => link[c].phase = "granted"
        /\ link'[c].phase = "renewed" => link[c].phase = "renewed" /\ renewal'[c] = renewal[c]
    BY DEF Quiet
  <2> QED
    BY <1>0, <2>1 DEF AnswersOutlast
<1>4. CurrentGrantIsHeld'
  <2> SUFFICES ASSUME NEW c \in LinkedCells, registration'[c] # Unset, registration'[c].left > 0,
                      registration'[c].boot = equipment'.boot
               PROVE  /\ renewal'[c] = Unset => \A r \in ResOf[c] : stored[r] = registration'[c].fence
                      /\ (\A r \in ResOf[c] : stored[r] = registration'[c].fence) =>
                           HeldFor(c, registration'[c].fence, registration'[c].left)
    BY DEF CurrentGrantIsHeld, Alive, Quiet, HeldFor
  <2>1. /\ registration[c] # Unset /\ registration[c].left > 0 /\ equipment'.boot = equipment.boot
        /\ registration'[c].boot = registration[c].boot
        /\ registration'[c].fence = registration[c].fence
        /\ registration'[c].left = registration[c].left
        /\ renewal'[c] = Unset => renewal[c] = Unset
    BY DEF Quiet
  <2> QED
    BY <1>0, <2>1 DEF CurrentGrantIsHeld, Alive
<1>5. OpenWorkIsOfTheRegistered'
  BY <1>0 DEF OpenWorkIsOfTheRegistered, Registered, Quiet
<1>6. ReplacedIsIdle'
  <2>1. Generation' = Generation
    BY DEF Quiet, Generation, GenOf
  <2> SUFFICES ASSUME NEW c \in LinkedCells, plan[c] # Unset, ~plan[c].bound,
                      plan[c].gen = Generation, registration'[c] # Unset,
                      GenOf(registration'[c]) # plan[c].gen
               PROVE  sent'[c] = Unset
    BY <2>1 DEF ReplacedIsIdle, Quiet
  <2>2. registration[c] # Unset /\ GenOf(registration'[c]) = GenOf(registration[c])
    BY DEF Quiet
  <2>3. sent[c] = Unset
    BY <1>0, <2>2 DEF ReplacedIsIdle
  <2> QED
    BY <2>2, <2>3 DEF Quiet
<1>7. StorageIsKept'
  BY <1>0 DEF StorageIsKept, Registered, Quiet
<1>8. NoHistoryBeforeLink'
  BY <1>0 DEF NoHistoryBeforeLink, Quiet
<1> QED
  BY <1>1, <1>2, <1>3, <1>4, <1>5, <1>6, <1>7, <1>8 DEF LinkInv

(* The types in two parts: the client's, and the records of platform and host. *)
ClientsTyped ==
    /\ link \in [LinkedCells -> Clients]
    /\ \A c \in LinkedCells :
         /\ link[c].phase = "read" => link[c].snapshot # Unset
         /\ link[c].phase \notin {"idle", "read"} => plan[c] # Unset
         /\ link[c].phase \in {"bound", "renewing", "renewed"} => plan[c].bound

RecordsTyped ==
    /\ equipment \in Equipment /\ granted \in [Resources -> Grants \cup {Unset}]
    /\ late \subseteq GrantRequests /\ boots \in Nat /\ sessions \in Nat
    /\ evidence \in [boot : Nat, journal : Nat, session : Nat, runtime : Nat]
    /\ cell \in [LinkedCells -> [epoch : Nat, revision : Nat, blocked : BOOLEAN,
                                 executing : BOOLEAN]]
    /\ sent \in [LinkedCells -> Generations \cup {Unset}]
    /\ stored \in [Resources -> Fences]
    /\ plan \in [LinkedCells -> Plans \cup {Unset}]
    /\ registration \in [LinkedCells -> Registrations \cup {Unset}]
    /\ history \in [LinkedCells -> SUBSET Generations]
    /\ renewal \in [LinkedCells -> Renewals \cup {Unset}]
    /\ approval \in Approvals \cup {Unset}
    /\ approval # Unset => approval.open \subseteq approval.cells

(* The two parts are the whole.                                                *)
LEMMA LinkTypeParts == LinkTypeOK <=> ClientsTyped /\ RecordsTyped
BY DEF LinkTypeOK, ClientsTyped, RecordsTyped

(* A client enters another phase and keeps what it read.                       *)
LEMMA PhaseMoves ==
    ASSUME ClientsTyped, NEW c \in LinkedCells,
           NEW ph \in {"idle", "read", "planned", "fenced", "granted", "bound", "renewing", "renewed"}
    PROVE  \E x \in Clients :
             x.phase = ph /\ [link EXCEPT ![c].phase = ph] = [link EXCEPT ![c] = x]
<1> DEFINE x == [link[c] EXCEPT !.phase = ph]
<1>1. link[c] \in Clients /\ link \in [LinkedCells -> Clients]
  BY DEF ClientsTyped
<1>2. x \in Clients /\ x.phase = ph
  BY <1>1 DEF Clients
<1>3. [link EXCEPT ![c].phase = ph] = [link EXCEPT ![c] = x]
  BY <1>1
<1> QED
  BY <1>2, <1>3

(* One client moves, and the plan it has afterwards fits its phase.            *)
LEMMA ClientMoves ==
    ASSUME ClientsTyped, NEW c \in LinkedCells, NEW x \in Clients,
           link' = [link EXCEPT ![c] = x],
           \A d \in LinkedCells \ {c} : plan'[d] = plan[d],
           x.phase = "read" => x.snapshot # Unset,
           x.phase \notin {"idle", "read"} => plan'[c] # Unset,
           x.phase \in {"bound", "renewing", "renewed"} => plan'[c].bound
    PROVE  /\ ClientsTyped' /\ link'[c] = x
           /\ \A d \in LinkedCells \ {c} : link'[d] = link[d]
<1>1. link' \in [LinkedCells -> Clients] /\ link'[c] = x
      /\ \A d \in LinkedCells \ {c} : link'[d] = link[d]
  BY DEF ClientsTyped
<1>2. ASSUME NEW d \in LinkedCells
      PROVE  /\ link'[d].phase = "read" => link'[d].snapshot # Unset
             /\ link'[d].phase \notin {"idle", "read"} => plan'[d] # Unset
             /\ link'[d].phase \in {"bound", "renewing", "renewed"} => plan'[d].bound
  <2>1. CASE d = c
    BY <1>1, <2>1
  <2>2. CASE d # c
    BY <1>1, <2>2 DEF ClientsTyped
  <2> QED
    BY <2>1, <2>2
<1> QED
  BY <1>1, <1>2 DEF ClientsTyped

(* The clients' steps on their own: reading, taking up a plan again, giving    *)
(* up, a renewal that fails.                                                   *)
LEMMA ClientAlone ==
    ASSUME LinkInv, NEW c \in LinkedCells,
           ReadBootstrap(c) \/ ReusePlan(c) \/ Abandon(c) \/ RenewalFails(c)
    PROVE  LinkInv'
<1>0. LinkTypeOK /\ ClientsTyped /\ RecordsTyped /\ FencesAreStored
  BY LinkTypeParts DEF LinkInv
<1>1. /\ equipment' = equipment /\ granted' = granted /\ boots' = boots /\ evidence' = evidence
      /\ sessions' = sessions /\ cell' = cell /\ sent' = sent /\ stored' = stored /\ plan' = plan
      /\ registration' = registration /\ history' = history /\ renewal' = renewal
      /\ approval' = approval
  BY DEF ReadBootstrap, ReusePlan, Abandon, RenewalFails, records
<1>2. /\ late' \subseteq GrantRequests
      /\ \A m \in late' : \A r \in ResOf[m.cell] : m.fence <= stored[r]
  <2>1. CASE late' = late
    BY <1>0, <2>1 DEF RecordsTyped, FencesAreStored
  <2>2. CASE late' # late
    <3> DEFINE m == [cell |-> c, boot |-> plan[c].gen.boot, fence |-> plan[c].fence]
    <3>1. link[c].phase = "fenced" /\ late' = late \cup {m}
      BY <2>2 DEF ReadBootstrap, ReusePlan, Abandon, RenewalFails
    <3>2. plan[c] # Unset /\ plan[c] \in Plans /\ plan[c].gen \in Generations
      BY <1>0, <3>1, LinkTyped DEF ClientsTyped
    <3>3. m \in GrantRequests /\ m.cell = c /\ m.fence = plan[c].fence
      BY <3>2 DEF Plans, Generations, GrantRequests
    <3>4. \A r \in ResOf[c] : plan[c].fence <= stored[r]
      BY <1>0, <3>2 DEF FencesAreStored
    <3> HIDE DEF m
    <3> QED
      BY <1>0, <3>1, <3>3, <3>4 DEF RecordsTyped, FencesAreStored
  <2> QED
    BY <2>1, <2>2
<1>3. PICK x \in Clients :
        /\ link' = [link EXCEPT ![c] = x]
        /\ x.phase \notin {"granted", "renewed"}
        /\ x.phase = "read" => x.snapshot # Unset
        /\ x.phase \notin {"idle", "read"} => plan[c] # Unset
        /\ x.phase \in {"bound", "renewing", "renewed"} => plan[c].bound
  <2>1. CASE ReadBootstrap(c)
    <3> DEFINE x == [phase |-> "read", snapshot |-> equipment]
    <3>1. link' = [link EXCEPT ![c] = x]
      BY <2>1 DEF ReadBootstrap
    <3>2. x \in Clients /\ x.phase = "read" /\ x.snapshot # Unset
      BY <1>0, LinkConstants DEF RecordsTyped, Clients
    <3> HIDE DEF x
    <3> QED
      BY <3>1, <3>2
  <2>2. CASE ReusePlan(c)
    <3> DEFINE ph == IF plan[c].bound THEN "bound" ELSE "planned"
               x == [phase |-> ph, snapshot |-> Unset]
    <3>1. link' = [link EXCEPT ![c] = x] /\ plan[c] # Unset
      BY <2>2 DEF ReusePlan
    <3>2. ph \in {"bound", "planned"} /\ (ph = "bound" => plan[c].bound)
      OBVIOUS
    <3> HIDE DEF ph
    <3>3. x \in Clients /\ x.phase = ph
      BY <3>2 DEF Clients
    <3> HIDE DEF x
    <3> QED
      BY <3>1, <3>2, <3>3
  <2>3. CASE Abandon(c)
    <3>1. Idle \in Clients /\ Idle.phase = "idle"
      BY DEF Idle, Clients
    <3>2. link' = [link EXCEPT ![c] = Idle]
      BY <2>3 DEF Abandon
    <3> QED
      BY <3>1, <3>2
  <2>4. CASE RenewalFails(c)
    <3>1. link[c].phase \in {"renewing", "renewed"} /\ link' = [link EXCEPT ![c].phase = "bound"]
      BY <2>4 DEF RenewalFails
    <3>2. plan[c] # Unset /\ plan[c].bound
      BY <1>0, <3>1 DEF ClientsTyped
    <3>3. PICK x \in Clients :
            x.phase = "bound" /\ [link EXCEPT ![c].phase = "bound"] = [link EXCEPT ![c] = x]
      BY <1>0, PhaseMoves
    <3>4. link' = [link EXCEPT ![c] = x]
      BY <3>1, <3>3
    <3> QED
      BY <3>2, <3>3, <3>4
  <2> QED
    BY <2>1, <2>2, <2>3, <2>4
<1>4. ClientsTyped' /\ link'[c] = x /\ \A d \in LinkedCells \ {c} : link'[d] = link[d]
  BY <1>0, <1>1, <1>3, ClientMoves
<1>5. RecordsTyped'
  BY <1>0, <1>1, <1>2 DEF RecordsTyped
<1>6. LinkTypeOK'
  BY <1>4, <1>5, LinkTypeParts DEF LinkTypeOK, ClientsTyped, RecordsTyped
<1>7. Quiet
  BY <1>1, <1>2, <1>3, <1>4 DEF Quiet
<1> QED
  BY <1>6, <1>7, QuietStep

(* A fence the host takes or acknowledges, and a renewal that begins.          *)
LEMMA FenceAndRenewalBegin ==
    ASSUME LinkInv, NEW c \in LinkedCells,
           HostTakesFence(c) \/ PrepareHostRenewal(c)
    PROVE  LinkInv'
<1>0. LinkTypeOK /\ ClientsTyped /\ RecordsTyped /\ FencesAreStored
  BY LinkTypeParts DEF LinkInv
<1>1. /\ granted' = granted /\ late' = late /\ boots' = boots /\ evidence' = evidence
      /\ sessions' = sessions /\ cell' = cell /\ sent' = sent /\ stored' = stored /\ plan' = plan
      /\ registration' = registration /\ history' = history /\ approval' = approval
  BY DEF HostTakesFence, PrepareHostRenewal, records
<1>2. /\ equipment' \in Equipment
      /\ equipment'.boot = equipment.boot /\ equipment'.fence = equipment.fence
  <2>1. equipment \in Equipment
    BY <1>0 DEF RecordsTyped
  <2>2. CASE HostTakesFence(c)
    <3>1. plan[c] # Unset
      BY <1>0, <2>2 DEF HostTakesFence, ClientsTyped
    <3>2. plan[c].epoch \in Nat
      BY <1>0, <3>1, LinkTyped DEF Plans
    <3>3. equipment' = [equipment EXCEPT !.epoch[c] = plan[c].epoch]
      BY <2>2 DEF HostTakesFence
    <3>4. \A e \in Nat : /\ [equipment EXCEPT !.epoch[c] = e] \in Equipment
                         /\ [equipment EXCEPT !.epoch[c] = e].boot = equipment.boot
                         /\ [equipment EXCEPT !.epoch[c] = e].fence = equipment.fence
      BY <2>1 DEF Equipment
    <3> QED
      BY <3>2, <3>3, <3>4
  <2>3. CASE PrepareHostRenewal(c)
    BY <2>1, <2>3 DEF PrepareHostRenewal
  <2> QED
    BY <2>2, <2>3
<1>3. /\ renewal' \in [LinkedCells -> Renewals \cup {Unset}]
      /\ \A d \in LinkedCells \ {c} : renewal'[d] = renewal[d]
      /\ renewal[c] # Unset => renewal'[c] # Unset
  <2> DEFINE new == [left |-> TTL, completed |-> FALSE]
  <2>1. new \in Renewals /\ new # Unset
    <3>1. TTL \in Ticks
      BY LinkConstants DEF Ticks
    <3>2. new \in Renewals
      BY <3>1 DEF Renewals
    <3> QED
      BY <3>2, LinkConstants
  <2>2. renewal \in [LinkedCells -> Renewals \cup {Unset}]
    BY <1>0 DEF RecordsTyped
  <2>3. renewal' = renewal \/ renewal' = [renewal EXCEPT ![c] = new]
    BY DEF HostTakesFence, PrepareHostRenewal, records
  <2> HIDE DEF new
  <2> QED
    BY <2>1, <2>2, <2>3
<1>4. PICK x \in Clients :
        /\ link' = [link EXCEPT ![c] = x] /\ x.phase \in {"fenced", "renewing"}
        /\ plan[c] # Unset /\ (x.phase = "renewing" => plan[c].bound)
  <2>1. CASE HostTakesFence(c)
    <3>1. link[c].phase = "planned" /\ link' = [link EXCEPT ![c].phase = "fenced"]
      BY <2>1 DEF HostTakesFence
    <3>2. plan[c] # Unset
      BY <1>0, <3>1 DEF ClientsTyped
    <3>3. PICK x \in Clients :
            x.phase = "fenced" /\ [link EXCEPT ![c].phase = "fenced"] = [link EXCEPT ![c] = x]
      BY <1>0, PhaseMoves
    <3>4. link' = [link EXCEPT ![c] = x]
      BY <3>1, <3>3
    <3> QED
      BY <3>2, <3>3, <3>4
  <2>2. CASE PrepareHostRenewal(c)
    <3>1. link[c].phase = "bound" /\ link' = [link EXCEPT ![c].phase = "renewing"]
      BY <2>2 DEF PrepareHostRenewal
    <3>2. plan[c] # Unset /\ plan[c].bound
      BY <1>0, <3>1 DEF ClientsTyped
    <3>3. PICK x \in Clients :
            x.phase = "renewing" /\ [link EXCEPT ![c].phase = "renewing"] = [link EXCEPT ![c] = x]
      BY <1>0, PhaseMoves
    <3>4. link' = [link EXCEPT ![c] = x]
      BY <3>1, <3>3
    <3> QED
      BY <3>2, <3>3, <3>4
  <2> QED
    BY <2>1, <2>2
<1>5. ClientsTyped' /\ link'[c] = x /\ \A d \in LinkedCells \ {c} : link'[d] = link[d]
  BY <1>0, <1>1, <1>4, ClientMoves
<1>6. RecordsTyped'
  BY <1>0, <1>1, <1>2, <1>3 DEF RecordsTyped
<1>7. LinkTypeOK'
  BY <1>5, <1>6 DEF LinkTypeOK, ClientsTyped, RecordsTyped
<1>8. Quiet
  BY <1>0, <1>1, <1>2, <1>3, <1>4, <1>5 DEF Quiet, FencesAreStored
<1> QED
  BY <1>7, <1>8, QuietStep

(* finish_fence_delivery: epochs follow, the grant is as it was.               *)
LEMMA FenceDelivered ==
    ASSUME LinkInv, NEW c \in LinkedCells, FinishFenceDelivery(c)
    PROVE  LinkInv'
<1>0. LinkTypeOK /\ ClientsTyped /\ RecordsTyped /\ FencesAreStored
  BY LinkTypeParts DEF LinkInv
<1>1. /\ granted' = granted /\ late' = late /\ boots' = boots /\ evidence' = evidence
      /\ sessions' = sessions /\ cell' = cell /\ sent' = sent /\ stored' = stored /\ plan' = plan
      /\ renewal' = renewal /\ history' = history /\ approval' = approval /\ link' = link
      /\ registration[c] # Unset
      /\ equipment' = [equipment EXCEPT !.epoch[c] = cell[c].epoch]
      /\ registration' = [registration EXCEPT ![c].epoch = cell[c].epoch]
  BY DEF FinishFenceDelivery, Registered
<1>2. cell[c].epoch \in Nat
  BY <1>0 DEF RecordsTyped
<1>3. /\ equipment' \in Equipment
      /\ equipment'.boot = equipment.boot /\ equipment'.fence = equipment.fence
  <2>1. equipment \in Equipment
    BY <1>0 DEF RecordsTyped
  <2>2. \A e \in Nat : /\ [equipment EXCEPT !.epoch[c] = e] \in Equipment
                       /\ [equipment EXCEPT !.epoch[c] = e].boot = equipment.boot
                       /\ [equipment EXCEPT !.epoch[c] = e].fence = equipment.fence
    BY <2>1 DEF Equipment
  <2> QED
    BY <1>1, <1>2, <2>2
<1>4. /\ registration' \in [LinkedCells -> Registrations \cup {Unset}]
      /\ \A d \in LinkedCells \ {c} : registration'[d] = registration[d]
      /\ registration'[c] # Unset /\ GenOf(registration'[c]) = GenOf(registration[c])
      /\ registration'[c].boot = registration[c].boot
      /\ registration'[c].journal = registration[c].journal
      /\ registration'[c].fence = registration[c].fence
      /\ registration'[c].left = registration[c].left
  <2> DEFINE x == registration[c]
             y == [x EXCEPT !.epoch = cell[c].epoch]
  <2>1. x \in Registrations /\ registration \in [LinkedCells -> Registrations \cup {Unset}]
    BY <1>0, <1>1, LinkTyped DEF RecordsTyped
  <2>2. registration' = [registration EXCEPT ![c] = y]
    BY <1>1
  <2> HIDE DEF x
  <2>3. /\ y \in Registrations /\ y.boot = x.boot /\ y.journal = x.journal /\ y.session = x.session
        /\ y.fence = x.fence /\ y.left = x.left
    BY <1>2, <2>1 DEF Registrations
  <2> HIDE DEF y
  <2>4. y # Unset /\ GenOf(y) = GenOf(x)
    BY <2>3, LinkConstants DEF GenOf
  <2>5. registration'[c] = y
    BY <2>1, <2>2
  <2> QED
    BY <2>1, <2>2, <2>3, <2>4, <2>5 DEF x
<1>5. LinkTypeOK'
  BY <1>0, <1>1, <1>3, <1>4 DEF LinkTypeOK
<1>6. Quiet
  BY <1>0, <1>1, <1>3, <1>4 DEF Quiet, FencesAreStored
<1> QED
  BY <1>5, <1>6, QuietStep

(* The platform restarts, cells are revoked and requalified, work is sent and  *)
(* settled, a re-admission is approved.                                        *)
LEMMA PlatformAlone ==
    ASSUME LinkInv,
           \/ RuntimeRestarts \/ ApproveHostReadmission
           \/ \E c \in LinkedCells : \/ InvalidateCell(c) \/ Requalify(c)
                                     \/ SendWork(c) \/ SettleWork(c)
    PROVE  LinkInv'
<1>0. LinkTypeOK /\ ClientsTyped /\ RecordsTyped /\ FencesAreStored
  BY LinkTypeParts DEF LinkInv
<1> DEFINE CellTypes == [epoch : Nat, revision : Nat, blocked : BOOLEAN, executing : BOOLEAN]
<1>1. /\ equipment' = equipment /\ granted' = granted /\ late' = late /\ evidence' = evidence
      /\ sessions' = sessions /\ stored' = stored /\ plan' = plan
      /\ registration' = registration /\ history' = history /\ renewal' = renewal
  BY DEF RuntimeRestarts, ApproveHostReadmission, InvalidateCell, Requalify, SendWork, SettleWork
<1>2. cell \in [LinkedCells -> CellTypes]
  BY <1>0 DEF RecordsTyped
<1>3. \A cs \in SUBSET LinkedCells : Blocked(cs) \in [LinkedCells -> CellTypes]
  BY <1>2 DEF Blocked
<1>4. ASSUME NEW ct \in [LinkedCells -> CellTypes], cell' = ct, boots' \in Nat,
             sent' \in [LinkedCells -> Generations \cup {Unset}],
             \A d \in LinkedCells :
               \/ sent'[d] \in {Unset, sent[d]}
               \/ /\ registration[d] # Unset /\ sent'[d] = GenOf(registration[d])
                  /\ GenOf(registration[d]) = Generation,
             approval' \in Approvals \cup {Unset},
             approval' # Unset => approval'.open \subseteq approval'.cells,
             link' = link \/ link' = [d \in LinkedCells |-> Idle]
      PROVE  LinkInv'
  <2>1. ClientsTyped' /\ \A d \in LinkedCells : link'[d] = link[d] \/ link'[d].phase = "idle"
    <3>1. CASE link' = link
      BY <1>0, <1>1, <3>1 DEF ClientsTyped
    <3>2. CASE link' = [d \in LinkedCells |-> Idle]
      BY <3>2 DEF ClientsTyped, Idle, Clients
    <3> QED
      BY <1>4, <3>1, <3>2
  <2>2. RecordsTyped'
    BY <1>0, <1>1, <1>4 DEF RecordsTyped
  <2>3. LinkTypeOK'
    BY <2>1, <2>2 DEF LinkTypeOK, ClientsTyped, RecordsTyped
  <2>4. \A d \in LinkedCells :
          /\ link'[d].phase = "granted" => link[d].phase = "granted"
          /\ link'[d].phase = "renewed" => link[d].phase = "renewed"
    BY <2>1
  <2>5. Quiet
    BY <1>0, <1>1, <1>4, <2>4 DEF Quiet, FencesAreStored
  <2> QED
    BY <2>3, <2>5, QuietStep
<1>5. /\ sent \in [LinkedCells -> Generations \cup {Unset}] /\ boots \in Nat
      /\ approval \in Approvals \cup {Unset}
      /\ approval # Unset => approval.open \subseteq approval.cells
  BY <1>0 DEF RecordsTyped
<1>6. CASE RuntimeRestarts
  <2>1. /\ cell' = Blocked(LinkedCells) /\ boots' = boots + 1 /\ sent' = sent
        /\ approval' = approval /\ link' = [d \in LinkedCells |-> Idle]
    BY <1>6 DEF RuntimeRestarts
  <2>2. boots' \in Nat /\ Blocked(LinkedCells) \in [LinkedCells -> CellTypes]
    BY <1>3, <1>5, <2>1
  <2> HIDE DEF CellTypes
  <2> QED
    BY <1>4, <1>5, <2>1, <2>2
<1>7. CASE ApproveHostReadmission
  <2> DEFINE one == CHOOSE c \in Registered : TRUE
             id == IF approval = Unset THEN 1 ELSE approval.id + 1
             x == [id |-> id, gen |-> GenOf(registration[one]), cells |-> Registered,
                   open |-> Registered]
  <2>1. /\ approval' = x /\ Registered # {} /\ cell' = cell /\ boots' = boots /\ sent' = sent
        /\ link' = link
    BY <1>7 DEF ApproveHostReadmission
  <2>2. one \in LinkedCells /\ registration[one] # Unset
    BY <2>1 DEF Registered
  <2>3. GenOf(registration[one]) \in Generations
    BY <1>0, <2>2, LinkTyped
  <2>4. id \in Nat
    BY <1>5 DEF Approvals
  <2>5. Registered \in SUBSET LinkedCells
    BY DEF Registered
  <2> HIDE DEF one, id
  <2>6. x \in Approvals /\ x.open \subseteq x.cells
    BY <2>3, <2>4, <2>5 DEF Approvals
  <2> HIDE DEF x, CellTypes
  <2> QED
    BY <1>2, <1>4, <1>5, <2>1, <2>6
<1>8. ASSUME NEW c \in LinkedCells, InvalidateCell(c) \/ Requalify(c) PROVE LinkInv'
  <2>1. boots' = boots /\ sent' = sent /\ approval' = approval /\ link' = link
    BY <1>8 DEF InvalidateCell, Requalify
  <2>2. cell' \in [LinkedCells -> CellTypes]
    BY <1>2, <1>3, <1>8 DEF InvalidateCell, Requalify
  <2> HIDE DEF CellTypes
  <2> QED
    BY <1>4, <1>5, <2>1, <2>2
<1>9. ASSUME NEW c \in LinkedCells, SendWork(c) PROVE LinkInv'
  <2>1. /\ boots' = boots /\ approval' = approval /\ link' = link
        /\ registration[c] # Unset /\ GenOf(registration[c]) = Generation
        /\ sent' = [sent EXCEPT ![c] = GenOf(registration[c])]
        /\ cell' = [cell EXCEPT ![c].executing = TRUE]
    BY <1>9 DEF SendWork, Alive
  <2>2. cell' \in [LinkedCells -> CellTypes]
    BY <1>2, <2>1
  <2>3. GenOf(registration[c]) \in Generations
    BY <1>0, <2>1, LinkTyped
  <2>4. /\ sent' \in [LinkedCells -> Generations \cup {Unset}]
        /\ sent'[c] = GenOf(registration[c]) /\ \A d \in LinkedCells \ {c} : sent'[d] = sent[d]
    BY <1>5, <2>1, <2>3
  <2>5. \A d \in LinkedCells :
          \/ sent'[d] \in {Unset, sent[d]}
          \/ /\ registration[d] # Unset /\ sent'[d] = GenOf(registration[d])
             /\ GenOf(registration[d]) = Generation
    BY <2>1, <2>4
  <2> HIDE DEF CellTypes
  <2> QED
    BY <1>4, <1>5, <2>1, <2>2, <2>4, <2>5
<1>10. ASSUME NEW c \in LinkedCells, SettleWork(c) PROVE LinkInv'
  <2>1. /\ boots' = boots /\ approval' = approval /\ link' = link
        /\ sent' = [sent EXCEPT ![c] = Unset] /\ cell' = [cell EXCEPT ![c].executing = FALSE]
    BY <1>10 DEF SettleWork
  <2>2. cell' \in [LinkedCells -> CellTypes]
    BY <1>2, <2>1
  <2>3. /\ sent' \in [LinkedCells -> Generations \cup {Unset}]
        /\ \A d \in LinkedCells : sent'[d] \in {Unset, sent[d]}
    BY <1>5, <2>1
  <2> HIDE DEF CellTypes
  <2> QED
    BY <1>4, <1>5, <2>1, <2>2, <2>3
<1> QED
  BY <1>6, <1>7, <1>8, <1>9, <1>10

-----------------------------------------------------------------------------
(* The host's answers.                                                         *)

(* Steps of the host change nothing on record: what follows is then about      *)
(* grants, fences and phases only.                                             *)
LEMMA HostStepKeeps ==
    ASSUME LinkInv, UNCHANGED records, ClientsTyped', equipment' \in Equipment,
           equipment'.boot = equipment.boot, granted' \in [Resources -> Grants \cup {Unset}],
           late' \subseteq late,
           \A r \in Resources : /\ equipment'.fence[r] <= stored[r]
                                /\ granted'[r] # Unset => granted'[r].fence = equipment'.fence[r],
           AnswersOutlast', CurrentGrantIsHeld'
    PROVE  LinkInv'
<1>0. /\ LinkTypeOK /\ RecordsTyped /\ GenerationsGrow /\ FencesAreStored
      /\ OpenWorkIsOfTheRegistered /\ ReplacedIsIdle
      /\ StorageIsKept /\ NoHistoryBeforeLink
  BY LinkTypeParts DEF LinkInv
<1>1. /\ boots' = boots /\ evidence' = evidence /\ sessions' = sessions /\ cell' = cell
      /\ sent' = sent /\ stored' = stored /\ plan' = plan /\ registration' = registration
      /\ history' = history /\ renewal' = renewal /\ approval' = approval
  BY DEF records
<1>2. LinkTypeOK'
  <2>1. RecordsTyped'
    BY <1>0, <1>1 DEF RecordsTyped
  <2> QED
    BY <2>1 DEF LinkTypeOK, RecordsTyped, ClientsTyped
<1>3. GenerationsGrow'
  BY <1>0, <1>1 DEF GenerationsGrow
<1>4. FencesAreStored'
  BY <1>0, <1>1 DEF FencesAreStored
<1>5. OpenWorkIsOfTheRegistered'
  BY <1>0, <1>1 DEF OpenWorkIsOfTheRegistered, Registered
<1>6. ReplacedIsIdle'
  BY <1>0, <1>1 DEF ReplacedIsIdle, Generation
<1>7. StorageIsKept' /\ NoHistoryBeforeLink'
  BY <1>0, <1>1 DEF StorageIsKept, NoHistoryBeforeLink, Registered
<1> QED
  BY <1>2, <1>3, <1>4, <1>5, <1>6, <1>7 DEF LinkInv

(* No answer of the host shortens what it holds at the stored fence, so the    *)
(* commits that were waiting and the registrations still find it, and the      *)
(* client that moved finds what it was told.                                   *)
LEMMA HeldStays ==
    ASSUME LinkInv, UNCHANGED records, equipment'.boot = equipment.boot,
           \A d \in LinkedCells, g \in Fences, n \in Ticks :
             HeldFor(d, g, n) /\ (\A r \in ResOf[d] : stored[r] = g) => HeldFor(d, g, n)',
           \A d \in LinkedCells : \A r \in ResOf[d] :
             plan[d] # Unset /\ granted'[r] # Unset /\ granted'[r].fence = plan[d].fence =>
               granted'[r].left >= plan[d].grant,
           NEW c \in LinkedCells, \A d \in LinkedCells \ {c} : link'[d] = link[d],
           plan[c] # Unset /\ FenceIsCurrent(c) /\ plan[c].gen.boot = equipment.boot =>
             /\ link'[c].phase = "granted" =>
                  \/ link[c].phase = "granted"
                  \/ HeldFor(c, plan[c].fence, plan[c].grant)'
             /\ link'[c].phase = "renewed" /\ renewal[c] # Unset =>
                  \/ link[c].phase = "renewed"
                  \/ HeldFor(c, plan[c].fence, renewal[c].left)'
    PROVE  AnswersOutlast' /\ CurrentGrantIsHeld'
<1>0. LinkTypeOK /\ AnswersOutlast /\ CurrentGrantIsHeld
  BY DEF LinkInv
<1>1. /\ stored' = stored /\ plan' = plan /\ registration' = registration /\ renewal' = renewal
  BY DEF records
<1>2. AnswersOutlast'
  <2> SUFFICES ASSUME NEW d \in LinkedCells, plan[d] # Unset, FenceIsCurrent(d),
                      plan[d].gen.boot = equipment.boot
               PROVE  /\ link'[d].phase = "granted" => HeldFor(d, plan[d].fence, plan[d].grant)'
                      /\ link'[d].phase = "renewed" /\ renewal[d] # Unset =>
                           HeldFor(d, plan[d].fence, renewal[d].left)'
    BY <1>1 DEF AnswersOutlast, FenceIsCurrent, HeldFor
  <2>1. plan[d].fence \in Fences /\ plan[d].grant \in Ticks
        /\ (renewal[d] # Unset => renewal[d].left \in Ticks)
    BY <1>0, LinkTyped DEF Plans, Renewals
  <2>2. \A r \in ResOf[d] : stored[r] = plan[d].fence
    BY DEF FenceIsCurrent
  <2>3. /\ link[d].phase = "granted" => HeldFor(d, plan[d].fence, plan[d].grant)'
        /\ link[d].phase = "renewed" /\ renewal[d] # Unset =>
             HeldFor(d, plan[d].fence, renewal[d].left)'
    <3>1. /\ link[d].phase = "granted" => HeldFor(d, plan[d].fence, plan[d].grant)
          /\ link[d].phase = "renewed" /\ renewal[d] # Unset =>
               HeldFor(d, plan[d].fence, renewal[d].left)
      BY <1>0 DEF AnswersOutlast
    <3>2. \A n \in Ticks : HeldFor(d, plan[d].fence, n) =>
            \A r \in ResOf[d] : /\ granted'[r] # Unset /\ granted'[r].fence = plan[d].fence
                                /\ granted'[r].left >= n
      BY <2>1, <2>2 DEF HeldFor
    <3> QED
      BY <1>1, <2>1, <3>1, <3>2 DEF HeldFor
  <2>4. CASE d = c
    BY <1>1, <2>3, <2>4
  <2>5. CASE d # c
    BY <2>3, <2>5
  <2> QED
    BY <2>4, <2>5
<1>3. CurrentGrantIsHeld'
  <2> SUFFICES ASSUME NEW d \in LinkedCells, Alive(d), registration[d].boot = equipment.boot
               PROVE  /\ renewal[d] = Unset => \A r \in ResOf[d] : stored[r] = registration[d].fence
                      /\ (\A r \in ResOf[d] : stored[r] = registration[d].fence) =>
                           \A r \in ResOf[d] :
                             /\ granted'[r] # Unset /\ granted'[r].fence = registration[d].fence
                             /\ granted'[r].left >= registration[d].left
    BY <1>1 DEF CurrentGrantIsHeld, Alive, HeldFor
  <2>1. registration[d].fence \in Fences /\ registration[d].left \in Ticks
    BY <1>0, LinkTyped DEF Registrations, Alive
  <2> QED
    BY <1>0, <2>1 DEF CurrentGrantIsHeld, HeldFor
<1> QED
  BY <1>2, <1>3

(* A grant goes to a fence above all earlier ones: it never touches what is    *)
(* held at the stored fence, and it lasts as long as any plan counts.          *)
LEMMA GrantStep ==
    ASSUME LinkInv, NEW c \in LinkedCells, NEW f \in Fences, Grantable(c, f), Grant(c, f),
           \A r \in ResOf[c] : f <= stored[r], UNCHANGED records
    PROVE  /\ equipment' \in Equipment /\ equipment'.boot = equipment.boot
           /\ granted' \in [Resources -> Grants \cup {Unset}]
           /\ \A r \in Resources : /\ equipment'.fence[r] <= stored[r]
                                   /\ granted'[r] # Unset => granted'[r].fence = equipment'.fence[r]
           /\ \A d \in LinkedCells, g \in Fences, n \in Ticks :
                HeldFor(d, g, n) /\ (\A r \in ResOf[d] : stored[r] = g) => HeldFor(d, g, n)'
           /\ \A d \in LinkedCells : \A r \in ResOf[d] :
                plan[d] # Unset /\ granted'[r] # Unset /\ granted'[r].fence = plan[d].fence =>
                  granted'[r].left >= plan[d].grant
           /\ \A n \in Ticks : \A r \in ResOf[c] :
                granted'[r] # Unset /\ granted'[r].fence = f /\ granted'[r].left >= n
<1>0. LinkTypeOK /\ RecordsTyped /\ FencesAreStored /\ AnswersOutlast
  BY LinkTypeParts DEF LinkInv
<1>1. ResOf \in [LinkedCells -> SUBSET Resources] /\ TTL \in Nat /\ TTL \in Ticks
  BY LinkConstants DEF Ticks
<1> DEFINE new == [cell |-> c, fence |-> f, left |-> TTL]
           fences == [r \in Resources |-> IF r \in ResOf[c] THEN f ELSE equipment.fence[r]]
<1>2. new \in Grants /\ new # Unset /\ new.fence = f /\ new.left = TTL
  <2>1. new \in Grants /\ new.fence = f /\ new.left = TTL
    BY <1>1 DEF Grants
  <2> QED
    BY <2>1, LinkConstants
<1>3. equipment \in Equipment /\ equipment.fence \in [Resources -> Fences]
  BY <1>0 DEF RecordsTyped, Equipment
<1>4. equipment' = [equipment EXCEPT !.fence = fences]
  BY <1>3 DEF Grant, Equipment
<1>5. fences \in [Resources -> Fences]
  BY <1>3
<1> HIDE DEF new, fences
<1>6. equipment' \in Equipment /\ equipment'.boot = equipment.boot /\ equipment'.fence = fences
  BY <1>3, <1>4, <1>5 DEF Equipment
<1>7. /\ granted' \in [Resources -> Grants \cup {Unset}]
      /\ \A r \in Resources : granted'[r] = IF r \in ResOf[c] THEN new ELSE granted[r]
  <2>1. granted' = [r \in Resources |-> IF r \in ResOf[c] THEN new ELSE granted[r]]
    BY DEF Grant, new
  <2>2. granted \in [Resources -> Grants \cup {Unset}]
    BY <1>0 DEF RecordsTyped
  <2> QED
    BY <1>2, <2>1, <2>2
<1>8. ASSUME NEW r \in Resources
      PROVE  /\ equipment'.fence[r] <= stored[r]
             /\ granted'[r] # Unset => granted'[r].fence = equipment'.fence[r]
  <2>1. equipment'.fence[r] = IF r \in ResOf[c] THEN f ELSE equipment.fence[r]
    BY <1>6 DEF fences
  <2> QED
    BY <1>0, <1>2, <1>7, <2>1 DEF FencesAreStored
<1>9. ASSUME NEW d \in LinkedCells, NEW g \in Fences, NEW n \in Ticks, HeldFor(d, g, n),
             \A r \in ResOf[d] : stored[r] = g
      PROVE  HeldFor(d, g, n)'
  <2> SUFFICES ASSUME NEW r \in ResOf[d]
               PROVE  granted'[r] # Unset /\ granted'[r].fence = g /\ granted'[r].left >= n
    BY DEF HeldFor
  <2>1. r \in Resources
    BY <1>1
  <2>2. equipment.fence[r] = g /\ stored[r] = g
    BY <1>0, <1>9, <2>1 DEF FencesAreStored, HeldFor
  <2>3. r \notin ResOf[c]
    <3>1. r \in ResOf[c] => equipment.fence[r] < f /\ f <= stored[r]
      BY DEF Grantable
    <3>2. f \in Nat /\ g \in Nat
      BY LinkConstants DEF Fences
    <3> QED
      BY <2>2, <3>1, <3>2
  <2> QED
    BY <1>7, <1>9, <2>1, <2>3 DEF HeldFor
<1>10. ASSUME NEW d \in LinkedCells, NEW r \in ResOf[d], plan[d] # Unset, granted'[r] # Unset,
              granted'[r].fence = plan[d].fence
       PROVE  granted'[r].left >= plan[d].grant
  <2>1. r \in Resources
    BY <1>1
  <2>2. plan[d].grant \in Ticks
    BY <1>0, <1>10, LinkTyped DEF Plans
  <2>3. CASE r \in ResOf[c]
    BY <1>1, <1>2, <1>7, <2>1, <2>2, <2>3 DEF Ticks
  <2>4. CASE r \notin ResOf[c]
    BY <1>0, <1>7, <1>10, <2>1, <2>4 DEF AnswersOutlast
  <2> QED
    BY <2>3, <2>4
<1>11. ASSUME NEW n \in Ticks, NEW r \in ResOf[c]
       PROVE  granted'[r] # Unset /\ granted'[r].fence = f /\ granted'[r].left >= n
  <2>1. granted'[r] = new
    BY <1>1, <1>7
  <2>2. TTL >= n
    BY <1>1 DEF Ticks
  <2> QED
    BY <1>2, <2>1, <2>2
<1> QED
  BY <1>6, <1>7, <1>8, <1>9, <1>10, <1>11

(* The host grants what the client asks for, or has granted it before.         *)
LEMMA HostGrantsStep ==
    ASSUME LinkInv, NEW c \in LinkedCells, HostGrants(c)
    PROVE  LinkInv'
<1>0. LinkTypeOK /\ ClientsTyped /\ RecordsTyped /\ FencesAreStored /\ AnswersOutlast
  BY LinkTypeParts DEF LinkInv
<1> DEFINE f == plan[c].fence
<1>1. /\ link[c].phase = "fenced" /\ link' = [link EXCEPT ![c].phase = "granted"]
      /\ late' = late /\ UNCHANGED records /\ plan' = plan
      /\ \/ Grantable(c, f) /\ Grant(c, f)
         \/ Holds(c, f) /\ equipment' = equipment /\ granted' = granted
  BY DEF HostGrants, records
<1>2. plan[c] # Unset
  BY <1>0, <1>1 DEF ClientsTyped
<1>3. plan[c] \in Plans /\ f \in Fences /\ plan[c].grant \in Ticks
      /\ \A r \in ResOf[c] : f <= stored[r]
  BY <1>0, <1>2, LinkTyped DEF Plans, FencesAreStored
<1>4. PICK x \in Clients :
        x.phase = "granted" /\ [link EXCEPT ![c].phase = "granted"] = [link EXCEPT ![c] = x]
  BY <1>0, PhaseMoves
<1>5. ClientsTyped' /\ link'[c] = x /\ \A d \in LinkedCells \ {c} : link'[d] = link[d]
  <2>1. link' = [link EXCEPT ![c] = x]
    BY <1>1, <1>4
  <2> QED
    BY <1>0, <1>1, <1>2, <1>4, <2>1, ClientMoves
<1>6. CASE Grantable(c, f) /\ Grant(c, f)
  <2> HIDE DEF f
  <2>1. /\ equipment' \in Equipment /\ equipment'.boot = equipment.boot
        /\ granted' \in [Resources -> Grants \cup {Unset}]
        /\ \A r \in Resources : /\ equipment'.fence[r] <= stored[r]
                                /\ granted'[r] # Unset => granted'[r].fence = equipment'.fence[r]
        /\ \A d \in LinkedCells, g \in Fences, n \in Ticks :
             HeldFor(d, g, n) /\ (\A r \in ResOf[d] : stored[r] = g) => HeldFor(d, g, n)'
        /\ \A d \in LinkedCells : \A r \in ResOf[d] :
             plan[d] # Unset /\ granted'[r] # Unset /\ granted'[r].fence = plan[d].fence =>
               granted'[r].left >= plan[d].grant
        /\ \A n \in Ticks : \A r \in ResOf[c] :
             granted'[r] # Unset /\ granted'[r].fence = f /\ granted'[r].left >= n
    BY <1>1, <1>3, <1>6, GrantStep
  <2>2. HeldFor(c, plan[c].fence, plan[c].grant)'
    <3>1. \A r \in ResOf[c] : /\ granted'[r] # Unset /\ granted'[r].fence = f
                              /\ granted'[r].left >= plan[c].grant
      BY <1>3, <2>1
    <3> QED
      BY <1>1, <3>1 DEF HeldFor, f
  <2>3. AnswersOutlast' /\ CurrentGrantIsHeld'
    BY <1>1, <1>4, <1>5, <2>1, <2>2, HeldStays
  <2> QED
    BY <1>1, <1>5, <2>1, <2>3, HostStepKeeps
<1>7. CASE Holds(c, f) /\ equipment' = equipment /\ granted' = granted
  <2>1. HeldFor(c, plan[c].fence, plan[c].grant)'
    <3>1. \A r \in ResOf[c] : /\ granted[r] # Unset /\ granted[r].fence = plan[c].fence
                              /\ granted[r].left >= plan[c].grant
      BY <1>0, <1>2, <1>7 DEF Holds, AnswersOutlast
    <3> QED
      BY <1>1, <1>7, <3>1 DEF HeldFor
  <2>2. \A d \in LinkedCells, g \in Fences, n \in Ticks : HeldFor(d, g, n) => HeldFor(d, g, n)'
    BY <1>7 DEF HeldFor
  <2>3. \A d \in LinkedCells : \A r \in ResOf[d] :
          plan[d] # Unset /\ granted'[r] # Unset /\ granted'[r].fence = plan[d].fence =>
            granted'[r].left >= plan[d].grant
    BY <1>0, <1>7 DEF AnswersOutlast
  <2>4. AnswersOutlast' /\ CurrentGrantIsHeld'
    BY <1>1, <1>4, <1>5, <1>7, <2>1, <2>2, <2>3, HeldStays
  <2>5. /\ equipment' \in Equipment /\ granted' \in [Resources -> Grants \cup {Unset}]
        /\ \A r \in Resources : /\ equipment'.fence[r] <= stored[r]
                                /\ granted'[r] # Unset => granted'[r].fence = equipment'.fence[r]
    BY <1>0, <1>7 DEF RecordsTyped, FencesAreStored
  <2> QED
    BY <1>1, <1>5, <1>7, <2>4, <2>5, HostStepKeeps
<1> QED
  BY <1>1, <1>6, <1>7

(* A request of a plan that was given up reaches the host late.                *)
LEMMA LateGrantStep ==
    ASSUME LinkInv, NEW m \in late, HostGrantsLate(m)
    PROVE  LinkInv'
<1>0. LinkTypeOK /\ ClientsTyped /\ RecordsTyped /\ FencesAreStored
  BY LinkTypeParts DEF LinkInv
<1>1. m \in GrantRequests
  BY <1>0 DEF RecordsTyped
<1>2. m.cell \in LinkedCells /\ m.fence \in Fences
  BY <1>1 DEF GrantRequests
<1>3. /\ Grantable(m.cell, m.fence) /\ Grant(m.cell, m.fence) /\ late' \subseteq late
      /\ UNCHANGED records /\ link' = link /\ plan' = plan
      /\ \A r \in ResOf[m.cell] : m.fence <= stored[r]
  BY <1>0 DEF HostGrantsLate, FencesAreStored, records
<1>4. /\ equipment' \in Equipment /\ equipment'.boot = equipment.boot
      /\ granted' \in [Resources -> Grants \cup {Unset}]
      /\ \A r \in Resources : /\ equipment'.fence[r] <= stored[r]
                              /\ granted'[r] # Unset => granted'[r].fence = equipment'.fence[r]
      /\ \A d \in LinkedCells, g \in Fences, n \in Ticks :
           HeldFor(d, g, n) /\ (\A r \in ResOf[d] : stored[r] = g) => HeldFor(d, g, n)'
      /\ \A d \in LinkedCells : \A r \in ResOf[d] :
           plan[d] # Unset /\ granted'[r] # Unset /\ granted'[r].fence = plan[d].fence =>
             granted'[r].left >= plan[d].grant
  BY <1>2, <1>3, GrantStep
<1>5. AnswersOutlast' /\ CurrentGrantIsHeld'
  BY <1>2, <1>3, <1>4, HeldStays
<1>6. ClientsTyped'
  BY <1>0, <1>3 DEF ClientsTyped
<1> QED
  BY <1>3, <1>4, <1>5, <1>6, HostStepKeeps

(* The host prolongs a grant it still holds.                                   *)
LEMMA HostRenewsStep ==
    ASSUME LinkInv, NEW c \in LinkedCells, HostRenews(c)
    PROVE  LinkInv'
<1>0. LinkTypeOK /\ ClientsTyped /\ RecordsTyped /\ FencesAreStored /\ AnswersOutlast
  BY LinkTypeParts DEF LinkInv
<1>1. /\ link[c].phase = "renewing" /\ link' = [link EXCEPT ![c].phase = "renewed"]
      /\ equipment' = equipment /\ late' = late /\ UNCHANGED records /\ plan' = plan
      /\ renewal' = renewal /\ Holds(c, plan[c].fence)
      /\ granted' = [r \in Resources |->
           IF r \in ResOf[c] THEN [granted[r] EXCEPT !.left = TTL] ELSE granted[r]]
  BY DEF HostRenews, records
<1>2. plan[c] # Unset /\ plan[c].bound
  BY <1>0, <1>1 DEF ClientsTyped
<1>3. ResOf \in [LinkedCells -> SUBSET Resources] /\ TTL \in Nat /\ TTL \in Ticks
  BY LinkConstants DEF Ticks
<1>4. granted \in [Resources -> Grants \cup {Unset}]
  BY <1>0 DEF RecordsTyped
<1>5. ASSUME NEW r \in Resources, granted[r] # Unset
      PROVE  /\ granted'[r] \in Grants /\ granted'[r] # Unset /\ granted'[r].fence = granted[r].fence
             /\ granted'[r].left >= granted[r].left /\ (r \in ResOf[c] => granted'[r].left = TTL)
  <2> DEFINE x == granted[r]
  <2>1. x \in Grants
    BY <1>4, <1>5
  <2>2. /\ [x EXCEPT !.left = TTL] \in Grants /\ [x EXCEPT !.left = TTL].fence = x.fence
        /\ [x EXCEPT !.left = TTL].left = TTL /\ x.left \in Ticks
    BY <1>3, <2>1 DEF Grants
  <2>3. TTL >= x.left /\ x.left >= x.left
    BY <1>3, <2>2 DEF Ticks
  <2>4. granted'[r] = IF r \in ResOf[c] THEN [x EXCEPT !.left = TTL] ELSE x
    BY <1>1
  <2> HIDE DEF x
  <2> QED
    BY <2>1, <2>2, <2>3, <2>4, LinkConstants DEF x
<1>6. \A r \in ResOf[c] : r \in Resources /\ granted[r] # Unset /\ granted[r].fence = plan[c].fence
  BY <1>1, <1>3 DEF Holds
<1>7. ASSUME NEW r \in Resources, granted[r] = Unset PROVE granted'[r] = Unset
  BY <1>1, <1>6, <1>7
<1>8. granted' \in [Resources -> Grants \cup {Unset}]
  <2>1. \A r \in Resources : granted'[r] \in Grants \cup {Unset}
    BY <1>5, <1>7
  <2>2. granted' = [r \in Resources |-> granted'[r]]
    BY <1>1
  <2> QED
    BY <2>1, <2>2
<1>9. \A r \in Resources : /\ equipment'.fence[r] <= stored[r]
                           /\ granted'[r] # Unset => granted'[r].fence = equipment'.fence[r]
  BY <1>0, <1>1, <1>5, <1>7 DEF FencesAreStored
<1>10. ASSUME NEW d \in LinkedCells, NEW g \in Fences, NEW n \in Ticks, HeldFor(d, g, n)
       PROVE  HeldFor(d, g, n)'
  <2> SUFFICES ASSUME NEW r \in ResOf[d]
               PROVE  granted'[r] # Unset /\ granted'[r].fence = g /\ granted'[r].left >= n
    BY DEF HeldFor
  <2>1. r \in Resources /\ granted[r] # Unset /\ granted[r].fence = g /\ granted[r].left >= n
    BY <1>3, <1>10 DEF HeldFor
  <2>2. granted'[r] \in Grants /\ granted[r] \in Grants
    BY <1>4, <1>5, <2>1
  <2>3. granted'[r].left \in Nat /\ granted[r].left \in Nat /\ n \in Nat
    BY <1>3, <2>2 DEF Grants, Ticks
  <2> QED
    BY <1>5, <2>1, <2>3
<1>11. ASSUME NEW d \in LinkedCells, NEW r \in ResOf[d], plan[d] # Unset, granted'[r] # Unset,
              granted'[r].fence = plan[d].fence
       PROVE  granted'[r].left >= plan[d].grant
  <2>1. r \in Resources /\ granted[r] # Unset
    BY <1>3, <1>7, <1>11
  <2>2. granted[r].fence = plan[d].fence
    BY <1>5, <1>11, <2>1
  <2>3. granted[r].left >= plan[d].grant
    BY <1>0, <1>11, <2>1, <2>2 DEF AnswersOutlast
  <2>4. granted'[r] \in Grants /\ granted[r] \in Grants /\ plan[d] \in Plans
    BY <1>0, <1>4, <1>5, <1>11, <2>1, LinkTyped
  <2>5. granted'[r].left \in Nat /\ granted[r].left \in Nat /\ plan[d].grant \in Nat
    BY <1>3, <2>4 DEF Grants, Plans, Ticks
  <2> QED
    BY <1>5, <2>1, <2>3, <2>5
<1>12. PICK x \in Clients :
         x.phase = "renewed" /\ [link EXCEPT ![c].phase = "renewed"] = [link EXCEPT ![c] = x]
  BY <1>0, PhaseMoves
<1>13. ClientsTyped' /\ link'[c] = x /\ \A d \in LinkedCells \ {c} : link'[d] = link[d]
  <2>1. link' = [link EXCEPT ![c] = x]
    BY <1>1, <1>12
  <2> QED
    BY <1>0, <1>1, <1>2, <1>12, <2>1, ClientMoves
<1>14. renewal[c] # Unset => HeldFor(c, plan[c].fence, renewal[c].left)'
  <2> SUFFICES ASSUME renewal[c] # Unset
               PROVE  \A r \in ResOf[c] : /\ granted'[r] # Unset /\ granted'[r].fence = plan[c].fence
                                          /\ granted'[r].left >= renewal[c].left
    BY <1>1 DEF HeldFor
  <2>1. renewal[c].left \in Ticks
    BY <1>0, LinkTyped DEF Renewals
  <2>2. TTL >= renewal[c].left
    BY <1>3, <2>1 DEF Ticks
  <2> QED
    BY <1>5, <1>6, <2>2
<1>15. AnswersOutlast' /\ CurrentGrantIsHeld'
  BY <1>1, <1>10, <1>11, <1>12, <1>13, <1>14, HeldStays
<1>16. equipment' \in Equipment
  BY <1>0, <1>1 DEF RecordsTyped
<1> QED
  BY <1>1, <1>8, <1>9, <1>13, <1>15, <1>16, HostStepKeeps

(* A restarted host holds nothing, and nothing on record is of its new boot.   *)
LEMMA HostBootsStep ==
    ASSUME LinkInv, NEW j \in 1..MaxJournal, HostBoots(j)
    PROVE  LinkInv'
<1>0. /\ LinkTypeOK /\ GenerationsGrow /\ FencesAreStored /\ AnswersOutlast
      /\ CurrentGrantIsHeld /\ OpenWorkIsOfTheRegistered /\ ReplacedIsIdle
      /\ StorageIsKept /\ NoHistoryBeforeLink
  BY DEF LinkInv
<1>1. /\ equipment' = [equipment EXCEPT !.boot = @ + 1, !.journal = j]
      /\ granted' = [r \in Resources |-> Unset] /\ late' = late /\ link' = link
      /\ boots' = boots /\ evidence' = evidence /\ sessions' = sessions /\ cell' = cell
      /\ sent' = sent /\ stored' = stored /\ plan' = plan /\ registration' = registration
      /\ history' = history /\ renewal' = renewal /\ approval' = approval
  BY DEF HostBoots, records
<1>2. /\ equipment' \in Equipment /\ equipment'.boot = equipment.boot + 1
      /\ equipment'.fence = equipment.fence /\ equipment.boot \in Nat
  <2>1. equipment \in Equipment /\ j \in Nat
    BY <1>0 DEF LinkTypeOK
  <2>2. equipment.boot \in Nat /\ equipment.boot + 1 \in Nat
    BY <2>1 DEF Equipment
  <2>3. \A n \in Nat : /\ [equipment EXCEPT !.boot = n, !.journal = j] \in Equipment
                       /\ [equipment EXCEPT !.boot = n, !.journal = j].boot = n
                       /\ [equipment EXCEPT !.boot = n, !.journal = j].fence = equipment.fence
    BY <2>1 DEF Equipment
  <2> QED
    BY <1>1, <2>2, <2>3
<1>3. LinkTypeOK'
  BY <1>0, <1>1, <1>2 DEF LinkTypeOK
<1>4. evidence.boot \in Nat /\ evidence.boot < equipment'.boot
  BY <1>0, <1>2 DEF GenerationsGrow, LinkTypeOK
<1>5. ASSUME NEW c \in LinkedCells
      PROVE  /\ plan[c] # Unset => plan[c].gen.boot # equipment'.boot
             /\ registration[c] # Unset => registration[c].boot # equipment'.boot
  <2>1. /\ plan[c] # Unset => plan[c].gen.boot \in Nat /\ plan[c].gen.boot <= evidence.boot
        /\ registration[c] # Unset =>
             registration[c].boot \in Nat /\ registration[c].boot <= evidence.boot
    BY <1>0, LinkTyped DEF GenerationsGrow, Registrations, Generations
  <2> QED
    BY <1>2, <1>4, <2>1
<1>6. GenerationsGrow'
  BY <1>0, <1>1, <1>2, <1>4 DEF GenerationsGrow
<1>7. FencesAreStored'
  BY <1>0, <1>1, <1>2 DEF FencesAreStored
<1>8. AnswersOutlast'
  <2>1. ResOf \in [LinkedCells -> SUBSET Resources]
    BY LinkConstants
  <2> QED
    BY <1>1, <1>5, <2>1 DEF AnswersOutlast
<1>9. CurrentGrantIsHeld'
  BY <1>1, <1>5 DEF CurrentGrantIsHeld, Alive
<1>10. OpenWorkIsOfTheRegistered' /\ StorageIsKept' /\ NoHistoryBeforeLink'
  BY <1>0, <1>1 DEF OpenWorkIsOfTheRegistered, StorageIsKept, NoHistoryBeforeLink, Registered
<1>11. ReplacedIsIdle'
  BY <1>0, <1>1 DEF ReplacedIsIdle, Generation
<1> QED
  BY <1>3, <1>6, <1>7, <1>8, <1>9, <1>10, <1>11 DEF LinkInv

(* A new session of the producer: no plan is of the new generation.            *)
LEMMA SessionStep ==
    ASSUME LinkInv, OpenEvidenceProducer
    PROVE  LinkInv'
<1>0. /\ LinkTypeOK /\ GenerationsGrow /\ FencesAreStored /\ AnswersOutlast
      /\ CurrentGrantIsHeld /\ OpenWorkIsOfTheRegistered /\ ReplacedIsIdle
      /\ StorageIsKept /\ NoHistoryBeforeLink
  BY DEF LinkInv
<1>1. /\ sessions' = sessions + 1
      /\ evidence' = [boot |-> equipment.boot, journal |-> equipment.journal,
                      session |-> sessions + 1, runtime |-> boots]
      /\ equipment' = equipment /\ granted' = granted /\ late' = late /\ link' = link
      /\ boots' = boots /\ sent' = sent /\ stored' = stored /\ plan' = plan
      /\ registration' = registration /\ history' = history /\ renewal' = renewal
      /\ approval' = approval
      /\ cell' = cell \/ cell' = Blocked(Registered)
  BY DEF OpenEvidenceProducer
<1>2. /\ sessions \in Nat /\ equipment.boot \in Nat /\ equipment.journal \in Nat /\ boots \in Nat
      /\ evidence.boot \in Nat
  BY <1>0 DEF LinkTypeOK, Equipment
<1>3. /\ evidence' \in [boot : Nat, journal : Nat, session : Nat, runtime : Nat]
      /\ evidence'.boot = equipment.boot /\ evidence'.session = sessions + 1
  BY <1>1, <1>2
<1>4. cell' \in [LinkedCells -> [epoch : Nat, revision : Nat, blocked : BOOLEAN,
                                 executing : BOOLEAN]]
  <2>1. cell \in [LinkedCells -> [epoch : Nat, revision : Nat, blocked : BOOLEAN,
                                  executing : BOOLEAN]]
    BY <1>0 DEF LinkTypeOK
  <2>2. Blocked(Registered) \in [LinkedCells -> [epoch : Nat, revision : Nat, blocked : BOOLEAN,
                                                 executing : BOOLEAN]]
    BY <2>1 DEF Blocked
  <2> QED
    BY <1>1, <2>1, <2>2
<1>5. LinkTypeOK'
  BY <1>0, <1>1, <1>2, <1>3, <1>4 DEF LinkTypeOK
<1>6. ASSUME NEW c \in LinkedCells, plan[c] # Unset
      PROVE  /\ plan[c].gen.boot \in Nat /\ plan[c].gen.session \in Nat
             /\ plan[c].gen.boot <= equipment.boot /\ plan[c].gen.session <= sessions
             /\ plan[c].gen # Generation'
  <2>1. /\ plan[c].gen.boot \in Nat /\ plan[c].gen.session \in Nat
        /\ plan[c].gen.boot <= evidence.boot /\ plan[c].gen.session <= sessions
        /\ evidence.boot <= equipment.boot
    BY <1>0, <1>6, LinkTyped DEF GenerationsGrow, Generations
  <2>2. Generation'.session = sessions + 1
    BY <1>3 DEF Generation, GenOf
  <2> QED
    BY <1>2, <2>1, <2>2
<1>7. ASSUME NEW c \in LinkedCells, registration[c] # Unset
      PROVE  registration[c].boot <= equipment.boot
  <2>1. registration[c].boot \in Nat /\ registration[c].boot <= evidence.boot
        /\ evidence.boot <= equipment.boot
    BY <1>0, <1>7, LinkTyped DEF GenerationsGrow, Registrations
  <2> QED
    BY <1>2, <2>1
<1>8. GenerationsGrow'
  <2>1. evidence'.boot <= equipment.boot /\ evidence'.session <= sessions + 1
    BY <1>2, <1>3
  <2>2. \A c \in LinkedCells : plan[c] # Unset => plan[c].gen.session <= sessions + 1
    BY <1>2, <1>6
  <2> QED
    BY <1>1, <1>3, <1>6, <1>7, <2>1, <2>2 DEF GenerationsGrow
<1>9. FencesAreStored'
  BY <1>0, <1>1 DEF FencesAreStored
<1>10. AnswersOutlast'
  BY <1>0, <1>1 DEF AnswersOutlast, FenceIsCurrent, HeldFor
<1>11. CurrentGrantIsHeld'
  BY <1>0, <1>1 DEF CurrentGrantIsHeld, Alive, HeldFor
<1>12. OpenWorkIsOfTheRegistered' /\ StorageIsKept' /\ NoHistoryBeforeLink'
  BY <1>0, <1>1 DEF OpenWorkIsOfTheRegistered, StorageIsKept, NoHistoryBeforeLink, Registered
<1>13. ReplacedIsIdle'
  BY <1>1, <1>6 DEF ReplacedIsIdle
<1> QED
  BY <1>5, <1>8, <1>9, <1>10, <1>11, <1>12, <1>13 DEF LinkInv

-----------------------------------------------------------------------------
(* The platform's transactions.                                                *)

(* prepare_host_link: the new plan's fence is above every fence given before,  *)
(* so no earlier plan on its resources can still be committed; no grant the    *)
(* platform counts on is among them; and what it would replace is idle.        *)
LEMMA PlanPreparedStep ==
    ASSUME LinkInv, NEW c \in LinkedCells, PrepareHostLink(c)
    PROVE  LinkInv'
<1>0. /\ LinkTypeOK /\ ClientsTyped /\ RecordsTyped /\ GenerationsGrow /\ FencesAreStored
      /\ AnswersOutlast /\ CurrentGrantIsHeld /\ OpenWorkIsOfTheRegistered /\ ReplacedIsIdle
      /\ StorageIsKept /\ NoHistoryBeforeLink
  BY LinkTypeParts DEF LinkInv
<1> DEFINE s == link[c].snapshot
           f == NextFence(c, s)
           replaced == c \in Registered /\ Replaces(c, Generation)
           readmission == IF replaced THEN approval.id ELSE 0
           p == [gen |-> Generation, runtime |-> boots, epoch |-> cell[c].epoch,
                 revision |-> cell[c].revision, fence |-> f, left |-> PlanTTL,
                 grant |-> TTL, bound |-> FALSE, readmission |-> readmission]
           x == [phase |-> "planned", snapshot |-> Unset]
<1>1. s \in Equipment
  <2>1. link[c].phase = "read"
    BY DEF PrepareHostLink
  <2>2. link[c] \in Clients /\ s # Unset
    BY <1>0, <2>1 DEF ClientsTyped
  <2> QED
    BY <2>2 DEF Clients
<1>2. [Generation EXCEPT !.boot = s.boot, !.journal = s.journal] = Generation
  <2>1. s.boot = evidence.boot /\ s.journal = evidence.journal
    BY DEF PrepareHostLink, Presented
  <2>2. \A g \in Generations : \A b, j : b = g.boot /\ j = g.journal =>
          [g EXCEPT !.boot = b, !.journal = j] = g
    BY DEF Generations
  <2>3. Generation \in Generations
    BY <1>0, LinkTyped
  <2>4. Generation.boot = evidence.boot /\ Generation.journal = evidence.journal
    BY DEF Generation, GenOf
  <2>5. s.boot = Generation.boot /\ s.journal = Generation.journal
    BY <2>1, <2>4
  <2> HIDE DEF s
  <2> QED
    BY <2>2, <2>3, <2>5, Zenon
<1>3. /\ ContinuityProven(Generation) /\ GrantsLapsed(c, Generation)
      /\ replaced => IdleForReadmission
      /\ f <= MaxFence
      /\ stored' = [r \in Resources |-> IF r \in ResOf[c] THEN f ELSE stored[r]]
      /\ plan' = [plan EXCEPT ![c] = p]
      /\ renewal' = [renewal EXCEPT ![c] = Unset]
      /\ link' = [link EXCEPT ![c] = x]
      /\ equipment' = equipment /\ granted' = granted /\ late' = late /\ boots' = boots
      /\ evidence' = evidence /\ sessions' = sessions /\ cell' = cell /\ sent' = sent
      /\ registration' = registration /\ history' = history /\ approval' = approval
  BY <1>2 DEF PrepareHostLink
<1>4. f \in Fences /\ \A r \in ResOf[c] : stored[r] < f
  BY <1>0, <1>1, <1>3, NextFenceIsAbove, LinkConstants DEF Fences
<1>5. /\ p \in Plans /\ p # Unset /\ p.gen = Generation /\ p.fence = f /\ p.grant = TTL
      /\ p.bound = FALSE
  <2>1. Generation \in Generations /\ boots \in Nat /\ cell[c].epoch \in Nat
        /\ cell[c].revision \in Nat
    BY <1>0, LinkTyped DEF RecordsTyped
  <2>2. readmission \in Nat
    <3>1. replaced => approval # Unset
      BY DEF Replaces, Covers, ApprovalCurrent
    <3>2. approval # Unset => approval.id \in Nat
      BY <1>0 DEF RecordsTyped, Approvals
    <3> QED
      BY <3>1, <3>2
  <2>3. PlanTTL \in Nat /\ TTL \in Ticks
    BY LinkConstants DEF Ticks
  <2> HIDE DEF readmission, f
  <2>4. p \in Plans
    BY <1>4, <2>1, <2>2, <2>3 DEF Plans
  <2> QED
    BY <2>4, LinkConstants
<1>6. x \in Clients /\ x.phase = "planned"
  BY DEF Clients
<1> HIDE DEF s, f, p, x
<1>7. /\ plan' \in [LinkedCells -> Plans \cup {Unset}] /\ plan'[c] = p
      /\ \A d \in LinkedCells \ {c} : plan'[d] = plan[d]
      /\ renewal' \in [LinkedCells -> Renewals \cup {Unset}]
      /\ \A d \in LinkedCells \ {c} : renewal'[d] = renewal[d]
  BY <1>0, <1>3, <1>5 DEF RecordsTyped
<1>8. ResOf \in [LinkedCells -> SUBSET Resources]
  BY LinkConstants
<1>9. /\ stored' \in [Resources -> Fences]
      /\ \A r \in Resources : stored'[r] = IF r \in ResOf[c] THEN f ELSE stored[r]
      /\ \A r \in Resources : stored[r] \in Nat /\ stored'[r] \in Nat /\ stored[r] <= stored'[r]
  <2>1. stored \in [Resources -> Fences] /\ MaxFence \in Nat
    BY <1>0, LinkConstants DEF RecordsTyped
  <2>2. /\ stored' \in [Resources -> Fences]
        /\ \A r \in Resources : stored'[r] = IF r \in ResOf[c] THEN f ELSE stored[r]
    BY <1>3, <1>4, <2>1
  <2> QED
    BY <1>4, <2>1, <2>2 DEF Fences
<1>10. ClientsTyped' /\ link'[c] = x /\ \A d \in LinkedCells \ {c} : link'[d] = link[d]
  BY <1>0, <1>3, <1>5, <1>6, <1>7, ClientMoves
<1>11. LinkTypeOK'
  <2>1. RecordsTyped'
    BY <1>0, <1>3, <1>7, <1>9 DEF RecordsTyped
  <2> QED
    BY <1>10, <2>1 DEF LinkTypeOK, RecordsTyped, ClientsTyped
<1>12. Generation.boot = evidence.boot /\ Generation.session = evidence.session
  BY DEF Generation, GenOf
<1>13. GenerationsGrow'
  <2>1. evidence.boot \in Nat
    BY <1>0 DEF RecordsTyped
  <2> QED
    BY <1>0, <1>3, <1>5, <1>7, <1>12, <2>1 DEF GenerationsGrow
<1>14. FencesAreStored'
  <2>1. ASSUME NEW r \in Resources
        PROVE  /\ equipment.fence[r] <= stored'[r]
               /\ granted[r] # Unset => granted[r].fence = equipment.fence[r]
    <3>1. equipment.fence[r] \in Nat /\ equipment.fence[r] <= stored[r]
      BY <1>0, LinkConstants DEF RecordsTyped, Equipment, Fences, FencesAreStored
    <3> QED
      BY <1>0, <1>9, <3>1 DEF FencesAreStored
  <2>2. ASSUME NEW d \in LinkedCells, NEW r \in ResOf[d]
        PROVE  /\ plan'[d] # Unset => plan'[d].fence <= stored'[r]
               /\ registration[d] # Unset => registration[d].fence <= stored'[r]
    <3>1. r \in Resources /\ f \in Nat
      BY <1>4, <1>8, LinkConstants DEF Fences
    <3>2. /\ plan[d] # Unset => plan[d].fence \in Nat
          /\ registration[d] # Unset => registration[d].fence \in Nat
      BY <1>0, LinkTyped, LinkConstants DEF Plans, Registrations, Fences
    <3>3. CASE d = c
      BY <1>0, <1>4, <1>5, <1>7, <1>9, <3>1, <3>2, <3>3 DEF FencesAreStored
    <3>4. CASE d # c
      BY <1>0, <1>7, <1>9, <3>1, <3>2, <3>4 DEF FencesAreStored
    <3> QED
      BY <3>3, <3>4
  <2>3. ASSUME NEW m \in late, NEW r \in ResOf[m.cell] PROVE m.fence <= stored'[r]
    <3>1. m.cell \in LinkedCells /\ m.fence \in Nat
      BY <1>0, LinkConstants DEF RecordsTyped, GrantRequests, Fences
    <3> QED
      BY <1>0, <1>8, <1>9, <3>1 DEF FencesAreStored
  <2> QED
    BY <1>3, <2>1, <2>2, <2>3 DEF FencesAreStored
<1>15. AnswersOutlast'
  <2> SUFFICES ASSUME NEW d \in LinkedCells, plan'[d] # Unset
               PROVE  /\ \A r \in ResOf[d] : granted[r] # Unset /\ granted[r].fence = plan'[d].fence =>
                           granted[r].left >= plan'[d].grant
                      /\ (\A r \in ResOf[d] : stored'[r] = plan'[d].fence)
                           /\ plan'[d].gen.boot = equipment.boot =>
                         /\ link'[d].phase = "granted" => HeldFor(d, plan'[d].fence, plan'[d].grant)
                         /\ link'[d].phase = "renewed" /\ renewal'[d] # Unset =>
                              HeldFor(d, plan'[d].fence, renewal'[d].left)
    BY <1>3 DEF AnswersOutlast, FenceIsCurrent, HeldFor
  <2>1. CASE d = c
    <3>1. ASSUME NEW r \in ResOf[c], granted[r] # Unset PROVE granted[r].fence # f
      <4>1. r \in Resources /\ f \in Nat
        BY <1>4, <1>8, LinkConstants DEF Fences
      <4>2. equipment.fence[r] \in Nat /\ equipment.fence[r] <= stored[r]
            /\ granted[r].fence = equipment.fence[r]
        BY <1>0, <3>1, <4>1, LinkConstants DEF RecordsTyped, Equipment, Fences, FencesAreStored
      <4> QED
        BY <1>4, <1>9, <4>1, <4>2
    <3> QED
      BY <1>5, <1>6, <1>7, <1>10, <2>1, <3>1
  <2>2. CASE d # c
    <3>1. plan'[d] = plan[d] /\ renewal'[d] = renewal[d] /\ link'[d] = link[d]
      BY <1>7, <1>10, <2>2
    <3>2. (\A r \in ResOf[d] : stored'[r] = plan[d].fence) => FenceIsCurrent(d)
      <4> SUFFICES ASSUME \A r \in ResOf[d] : stored'[r] = plan[d].fence, NEW r \in ResOf[d]
                   PROVE  stored[r] = plan[d].fence
        BY DEF FenceIsCurrent
      <4>1. r \in Resources /\ plan[d].fence <= stored[r]
        BY <1>0, <1>8, <3>1 DEF FencesAreStored
      <4> QED
        BY <1>4, <1>9, <4>1
    <3> QED
      BY <1>0, <3>1, <3>2 DEF AnswersOutlast
  <2> QED
    BY <2>1, <2>2
<1>16. CurrentGrantIsHeld'
  <2>0. registration' = registration /\ equipment' = equipment /\ granted' = granted
    BY <1>3
  <2> SUFFICES ASSUME NEW d \in LinkedCells, registration[d] # Unset, registration[d].left > 0,
                      registration[d].boot = equipment.boot
               PROVE  /\ renewal'[d] = Unset => \A r \in ResOf[d] : stored'[r] = registration[d].fence
                      /\ (\A r \in ResOf[d] : stored'[r] = registration[d].fence) =>
                           \A r \in ResOf[d] :
                             /\ granted[r] # Unset /\ granted[r].fence = registration[d].fence
                             /\ granted[r].left >= registration[d].left
    BY <2>0 DEF CurrentGrantIsHeld, Alive, HeldFor
  <2>1. registration[d].boot = Generation.boot
    <3>1. /\ registration[d].boot <= evidence.boot /\ evidence.boot <= equipment.boot
          /\ evidence.boot \in Nat /\ equipment.boot \in Nat
      BY <1>0 DEF GenerationsGrow, RecordsTyped, Equipment
    <3> QED
      BY <1>12, <3>1
  <2>2. d # c /\ ResOf[d] \cap ResOf[c] = {}
    BY <1>3, <2>1 DEF GrantsLapsed, Registered, Alive
  <2>3. renewal'[d] = renewal[d] /\ \A r \in ResOf[d] : stored'[r] = stored[r]
    BY <1>7, <1>8, <1>9, <2>2
  <2> QED
    BY <1>0, <2>3 DEF CurrentGrantIsHeld, Alive, HeldFor
<1>17. OpenWorkIsOfTheRegistered' /\ StorageIsKept'
  BY <1>0, <1>3 DEF OpenWorkIsOfTheRegistered, StorageIsKept, Registered
<1>18. NoHistoryBeforeLink'
  BY <1>0, <1>3, <1>5, <1>7 DEF NoHistoryBeforeLink
<1>19. ReplacedIsIdle'
  <2> SUFFICES ASSUME NEW d \in LinkedCells, plan'[d] # Unset, ~plan'[d].bound,
                      plan'[d].gen = Generation, registration[d] # Unset,
                      GenOf(registration[d]) # plan'[d].gen
               PROVE  sent[d] = Unset
    BY <1>3 DEF ReplacedIsIdle, Generation
  <2>1. CASE d = c
    <3>1. c \in Registered /\ GenOf(registration[c]) # Generation
      BY <2>1 DEF Registered
    <3>2. Replaces(c, Generation)
      BY <1>3, <3>1 DEF ContinuityProven, Continues
    <3>3. IdleForReadmission /\ approval # Unset /\ c \in approval.open
      BY <1>3, <3>1, <3>2 DEF Replaces, Covers, ApprovalCurrent
    <3>4. c \in approval.cells
      BY <1>0, <3>3 DEF RecordsTyped
    <3> QED
      BY <2>1, <3>3, <3>4 DEF IdleForReadmission, GenerationIdle
  <2>2. CASE d # c
    BY <1>0, <1>7, <2>2 DEF ReplacedIsIdle
  <2> QED
    BY <2>1, <2>2
<1> QED
  BY <1>11, <1>13, <1>14, <1>15, <1>16, <1>17, <1>18, <1>19 DEF LinkInv

(* commit_host_link: no later plan was prepared on these resources, so the     *)
(* host still holds what it granted; what is replaced is of the same storage   *)
(* and has nothing open.                                                       *)
LEMMA LinkCommittedStep ==
    ASSUME LinkInv, NEW c \in LinkedCells, CommitHostLink(c)
    PROVE  LinkInv'
<1>0. /\ LinkTypeOK /\ ClientsTyped /\ RecordsTyped /\ GenerationsGrow /\ FencesAreStored
      /\ AnswersOutlast /\ CurrentGrantIsHeld /\ OpenWorkIsOfTheRegistered /\ ReplacedIsIdle
      /\ StorageIsKept /\ NoHistoryBeforeLink
  BY LinkTypeParts DEF LinkInv
<1> DEFINE old == plan[c]
           y == [boot |-> old.gen.boot, journal |-> old.gen.journal, session |-> old.gen.session,
                 epoch |-> old.epoch, fence |-> old.fence, left |-> old.grant]
           p == [old EXCEPT !.bound = TRUE, !.left = old.grant]
           replaced == registration[c] # Unset /\ ~Continues(c, old.gen)
<1>1. /\ link[c].phase = "granted" /\ ~old.bound /\ old.gen = Generation /\ FenceIsCurrent(c)
      /\ Admitted(c) /\ link' = [link EXCEPT ![c].phase = "bound"]
      /\ registration' = [registration EXCEPT ![c] = y]
      /\ history' = IF replaced THEN [history EXCEPT ![c] = @ \cup {GenOf(registration[c])}]
                                ELSE history
      /\ approval' = IF replaced THEN [approval EXCEPT !.open = @ \ {c}] ELSE approval
      /\ plan' = [plan EXCEPT ![c].bound = TRUE, ![c].left = old.grant]
      /\ equipment' = equipment /\ granted' = granted /\ late' = late /\ boots' = boots
      /\ evidence' = evidence /\ sessions' = sessions /\ cell' = cell /\ sent' = sent
      /\ stored' = stored /\ renewal' = renewal
  BY DEF CommitHostLink, Conservative
<1>2. old # Unset /\ old \in Plans /\ old.gen \in Generations
      /\ plan \in [LinkedCells -> Plans \cup {Unset}]
  <2>1. plan[c] # Unset
    BY <1>0, <1>1 DEF ClientsTyped
  <2> QED
    BY <1>0, <2>1, LinkTyped DEF RecordsTyped
<1>3. plan' = [plan EXCEPT ![c] = p]
  BY <1>1, <1>2
<1> HIDE DEF old
<1>4. old.grant \in Ticks /\ old.grant \in Nat
  BY <1>2, LinkConstants DEF Plans, Ticks
<1>5. /\ p \in Plans /\ p.gen = old.gen /\ p.fence = old.fence /\ p.grant = old.grant
      /\ p.bound = TRUE
  BY <1>2, <1>4 DEF Plans
<1>6. /\ y \in Registrations /\ y.boot = old.gen.boot /\ y.journal = old.gen.journal
      /\ y.fence = old.fence /\ y.left = old.grant /\ GenOf(y) = old.gen
  <2>1. y \in Registrations
    BY <1>2, <1>4 DEF Plans, Generations, Registrations
  <2>2. GenOf(y) = old.gen
    BY <1>2 DEF GenOf, Generations
  <2> QED
    BY <2>1, <2>2
<1> HIDE DEF p, y
<1>7. p # Unset /\ y # Unset
  BY <1>5, <1>6, LinkConstants
<1>8. /\ plan' \in [LinkedCells -> Plans \cup {Unset}] /\ plan'[c] = p
      /\ \A d \in LinkedCells \ {c} : plan'[d] = plan[d]
      /\ registration' \in [LinkedCells -> Registrations \cup {Unset}] /\ registration'[c] = y
      /\ \A d \in LinkedCells \ {c} : registration'[d] = registration[d]
  <2>1. registration \in [LinkedCells -> Registrations \cup {Unset}]
    BY <1>0 DEF RecordsTyped
  <2> QED
    BY <1>1, <1>2, <1>3, <1>5, <1>6, <2>1
<1>9. replaced => /\ registration[c] # Unset /\ approval # Unset
                  /\ GenOf(registration[c]).journal = old.gen.journal
                  /\ sent[c] = Unset
  <2> SUFFICES ASSUME replaced
               PROVE  /\ approval # Unset /\ GenOf(registration[c]).journal = old.gen.journal
                      /\ sent[c] = Unset
    OBVIOUS
  <2>1. Covers(c, old.gen)
    BY <1>1 DEF Admitted, old
  <2>2. approval # Unset /\ GenOf(registration[c]).journal = old.gen.journal
    BY <2>1 DEF Covers, ApprovalCurrent
  <2>3. sent[c] = Unset
    BY <1>0, <1>1, <1>2 DEF ReplacedIsIdle, Continues, old
  <2> QED
    BY <2>2, <2>3
<1>10. registration[c] # Unset => /\ registration[c].journal = GenOf(registration[c]).journal
                                  /\ GenOf(registration[c]) \in Generations
                                  /\ registration[c].journal = old.gen.journal
  <2>1. registration[c] # Unset => /\ registration[c].journal = GenOf(registration[c]).journal
                                   /\ GenOf(registration[c]) \in Generations
    BY <1>0, LinkTyped DEF GenOf
  <2> QED
    BY <1>9, <2>1 DEF Continues
<1>11. /\ history' \in [LinkedCells -> SUBSET Generations]
       /\ \A d \in LinkedCells \ {c} : history'[d] = history[d]
       /\ history'[c] \subseteq history[c] \cup {GenOf(registration[c])}
       /\ registration[c] = Unset => history'[c] = history[c]
  <2>1. history \in [LinkedCells -> SUBSET Generations]
    BY <1>0 DEF RecordsTyped
  <2>2. CASE replaced
    <3>1. history' = [history EXCEPT ![c] = @ \cup {GenOf(registration[c])}]
      BY <1>1, <2>2
    <3>2. registration[c] # Unset /\ GenOf(registration[c]) \in Generations
      BY <1>9, <1>10, <2>2
    <3> QED
      BY <2>1, <3>1, <3>2
  <2>3. CASE ~replaced
    <3>1. history' = history
      BY <1>1, <2>3
    <3> QED
      BY <2>1, <3>1
  <2> QED
    BY <2>2, <2>3
<1>12. /\ approval' \in Approvals \cup {Unset}
       /\ approval' # Unset => approval'.open \subseteq approval'.cells
  <2>1. /\ approval \in Approvals \cup {Unset}
        /\ approval # Unset => approval.open \subseteq approval.cells
    BY <1>0 DEF RecordsTyped
  <2>2. CASE replaced
    <3>1. approval' = [approval EXCEPT !.open = @ \ {c}] /\ approval # Unset
      BY <1>1, <1>9, <2>2
    <3>2. approval \in Approvals /\ approval.open \subseteq approval.cells
      BY <2>1, <3>1
    <3>3. /\ [approval EXCEPT !.open = @ \ {c}] \in Approvals
          /\ [approval EXCEPT !.open = @ \ {c}].open \subseteq approval.cells
          /\ [approval EXCEPT !.open = @ \ {c}].cells = approval.cells
      BY <3>2 DEF Approvals
    <3> QED
      BY <3>1, <3>3
  <2>3. CASE ~replaced
    BY <1>1, <2>1, <2>3
  <2> QED
    BY <2>2, <2>3
<1> HIDE DEF replaced
<1>13. PICK x \in Clients :
         x.phase = "bound" /\ [link EXCEPT ![c].phase = "bound"] = [link EXCEPT ![c] = x]
  BY <1>0, PhaseMoves
<1>14. ClientsTyped' /\ link'[c] = x /\ \A d \in LinkedCells \ {c} : link'[d] = link[d]
  <2>1. link' = [link EXCEPT ![c] = x]
    BY <1>1, <1>13
  <2> QED
    BY <1>0, <1>5, <1>7, <1>8, <1>13, <2>1, ClientMoves
<1>15. /\ equipment' = equipment /\ granted' = granted /\ late' = late /\ boots' = boots
       /\ evidence' = evidence /\ sessions' = sessions /\ cell' = cell /\ sent' = sent
       /\ stored' = stored /\ renewal' = renewal
  BY <1>1
<1>16. LinkTypeOK'
  <2>1. RecordsTyped'
    BY <1>0, <1>8, <1>11, <1>12, <1>15 DEF RecordsTyped
  <2> QED
    BY <1>14, <2>1 DEF LinkTypeOK, RecordsTyped, ClientsTyped
<1>17. GenerationsGrow'
  <2>1. old.gen.boot <= evidence.boot /\ old.gen.session <= sessions
    BY <1>0, <1>2 DEF GenerationsGrow, old
  <2> QED
    BY <1>0, <1>5, <1>6, <1>8, <1>15, <2>1 DEF GenerationsGrow
<1>18. FencesAreStored'
  <2>1. \A r \in ResOf[c] : old.fence <= stored[r]
    BY <1>0, <1>2 DEF FencesAreStored, old
  <2> QED
    BY <1>0, <1>5, <1>6, <1>8, <1>15, <2>1 DEF FencesAreStored
<1>19. AnswersOutlast'
  <2> SUFFICES ASSUME NEW d \in LinkedCells, plan'[d] # Unset
               PROVE  /\ \A r \in ResOf[d] : granted[r] # Unset /\ granted[r].fence = plan'[d].fence =>
                           granted[r].left >= plan'[d].grant
                      /\ (\A r \in ResOf[d] : stored[r] = plan'[d].fence)
                           /\ plan'[d].gen.boot = equipment.boot =>
                         /\ link'[d].phase = "granted" => HeldFor(d, plan'[d].fence, plan'[d].grant)
                         /\ link'[d].phase = "renewed" /\ renewal[d] # Unset =>
                              HeldFor(d, plan'[d].fence, renewal[d].left)
    BY <1>15 DEF AnswersOutlast, FenceIsCurrent, HeldFor
  <2>1. CASE d = c
    <3>1. \A r \in ResOf[c] : granted[r] # Unset /\ granted[r].fence = old.fence =>
            granted[r].left >= old.grant
      BY <1>0, <1>2 DEF AnswersOutlast, old
    <3> QED
      BY <1>5, <1>8, <1>13, <1>14, <2>1, <3>1
  <2>2. CASE d # c
    BY <1>0, <1>8, <1>14, <2>2 DEF AnswersOutlast, FenceIsCurrent
  <2> QED
    BY <2>1, <2>2
<1>20. CurrentGrantIsHeld'
  <2> SUFFICES ASSUME NEW d \in LinkedCells, registration'[d] # Unset, registration'[d].left > 0,
                      registration'[d].boot = equipment.boot
               PROVE  /\ renewal[d] = Unset => \A r \in ResOf[d] : stored[r] = registration'[d].fence
                      /\ (\A r \in ResOf[d] : stored[r] = registration'[d].fence) =>
                           HeldFor(d, registration'[d].fence, registration'[d].left)
    BY <1>15 DEF CurrentGrantIsHeld, Alive, HeldFor
  <2>1. CASE d = c
    <3>1. \A r \in ResOf[c] : stored[r] = old.fence
      BY <1>1 DEF FenceIsCurrent, old
    <3>2. old.gen.boot = equipment.boot
      BY <1>6, <1>8, <2>1
    <3>3. HeldFor(c, old.fence, old.grant)
      BY <1>0, <1>1, <1>2, <3>2 DEF AnswersOutlast, old
    <3> QED
      BY <1>6, <1>8, <2>1, <3>1, <3>3
  <2>2. CASE d # c
    BY <1>0, <1>8, <2>2 DEF CurrentGrantIsHeld, Alive
  <2> QED
    BY <2>1, <2>2
<1>21. OpenWorkIsOfTheRegistered'
  <2> SUFFICES ASSUME NEW d \in LinkedCells, sent[d] # Unset
               PROVE  registration'[d] # Unset /\ GenOf(registration'[d]) = sent[d]
    BY <1>15 DEF OpenWorkIsOfTheRegistered, Registered
  <2>1. registration[d] # Unset /\ GenOf(registration[d]) = sent[d]
    BY <1>0 DEF OpenWorkIsOfTheRegistered, Registered
  <2>2. CASE d = c
    <3>1. ~replaced
      BY <1>9, <2>2
    <3>2. GenOf(registration[c]) = old.gen
      BY <2>1, <2>2, <3>1 DEF replaced, Continues
    <3> QED
      BY <1>6, <1>7, <1>8, <2>1, <2>2, <3>2
  <2>3. CASE d # c
    BY <1>8, <2>1, <2>3
  <2> QED
    BY <2>2, <2>3
<1>22. ReplacedIsIdle'
  <2> SUFFICES ASSUME NEW d \in LinkedCells, plan'[d] # Unset, ~plan'[d].bound,
                      plan'[d].gen = Generation, registration'[d] # Unset,
                      GenOf(registration'[d]) # plan'[d].gen
               PROVE  sent[d] = Unset
    BY <1>15 DEF ReplacedIsIdle, Generation
  <2>1. d # c
    BY <1>5, <1>8
  <2> QED
    BY <1>0, <1>8, <2>1 DEF ReplacedIsIdle
<1>23. StorageIsKept'
  <2> SUFFICES ASSUME NEW d \in LinkedCells, registration'[d] # Unset, NEW g \in history'[d]
               PROVE  g.journal = registration'[d].journal
    BY DEF StorageIsKept, Registered
  <2>1. CASE d = c
    <3>1. registration[c] # Unset
      BY <1>0, <1>11, <2>1 DEF NoHistoryBeforeLink
    <3>2. g \in history[c] \/ g = GenOf(registration[c])
      BY <1>11, <2>1
    <3>3. g \in history[c] => g.journal = registration[c].journal
      BY <1>0, <3>1 DEF StorageIsKept, Registered
    <3> QED
      BY <1>6, <1>8, <1>10, <2>1, <3>1, <3>2, <3>3
  <2>2. CASE d # c
    BY <1>0, <1>8, <1>11, <2>2 DEF StorageIsKept, Registered
  <2> QED
    BY <2>1, <2>2
<1>24. NoHistoryBeforeLink'
  BY <1>0, <1>7, <1>8, <1>11 DEF NoHistoryBeforeLink
<1> QED
  BY <1>16, <1>17, <1>18, <1>19, <1>20, <1>21, <1>22, <1>23, <1>24 DEF LinkInv

(* commit_host_renewal: the host prolonged the grant after the renewal was     *)
(* prepared; where a later plan took over meanwhile the grant is overtaken.    *)
LEMMA RenewalCommittedStep ==
    ASSUME LinkInv, NEW c \in LinkedCells, CommitHostRenewal(c)
    PROVE  LinkInv'
<1>0. /\ LinkTypeOK /\ ClientsTyped /\ RecordsTyped /\ GenerationsGrow /\ FencesAreStored
      /\ AnswersOutlast /\ CurrentGrantIsHeld /\ OpenWorkIsOfTheRegistered /\ ReplacedIsIdle
      /\ StorageIsKept /\ NoHistoryBeforeLink
  BY LinkTypeParts DEF LinkInv
<1> DEFINE old == plan[c]
           linked == registration[c]
           n == renewal[c].left
           p == [old EXCEPT !.left = n]
           y == [linked EXCEPT !.left = n]
           z == [renewal[c] EXCEPT !.completed = TRUE]
<1>1. /\ link[c].phase = "renewed" /\ old.bound /\ GenOf(linked) = old.gen
      /\ linked.fence = old.fence /\ renewal[c] # Unset
      /\ link' = [link EXCEPT ![c].phase = "bound"]
  BY DEF CommitHostRenewal, RenewalContext
<1>2. /\ registration' = [registration EXCEPT ![c].left = n]
      /\ plan' = [plan EXCEPT ![c].left = n]
      /\ renewal' = [renewal EXCEPT ![c].completed = TRUE]
  BY DEF CommitHostRenewal
<1>3. /\ equipment' = equipment /\ granted' = granted /\ late' = late /\ boots' = boots
      /\ evidence' = evidence /\ sessions' = sessions /\ cell' = cell /\ sent' = sent
      /\ stored' = stored /\ history' = history /\ approval' = approval
  BY DEF CommitHostRenewal
<1>4. /\ old # Unset /\ old \in Plans /\ linked # Unset /\ linked \in Registrations
      /\ renewal[c] \in Renewals
  <2>1. plan[c] # Unset
    BY <1>0, <1>1 DEF ClientsTyped
  <2>2. registration[c] # Unset
    BY <1>0, <1>1, <2>1 DEF NoHistoryBeforeLink
  <2> QED
    BY <1>0, <1>1, <2>1, <2>2, LinkTyped
<1>5. n \in Ticks /\ n \in Nat
  BY <1>4, LinkConstants DEF Renewals, Ticks
<1>6. /\ plan \in [LinkedCells -> Plans \cup {Unset}]
      /\ registration \in [LinkedCells -> Registrations \cup {Unset}]
      /\ renewal \in [LinkedCells -> Renewals \cup {Unset}]
  BY <1>0 DEF RecordsTyped
<1>7. /\ registration' = [registration EXCEPT ![c] = y] /\ plan' = [plan EXCEPT ![c] = p]
      /\ renewal' = [renewal EXCEPT ![c] = z]
  BY <1>2, <1>6
<1> HIDE DEF old, linked, n
<1>8. /\ p \in Plans /\ p.gen = old.gen /\ p.fence = old.fence /\ p.grant = old.grant
      /\ p.bound = old.bound
  BY <1>4, <1>5 DEF Plans
<1>9. /\ y \in Registrations /\ y.boot = linked.boot /\ y.journal = linked.journal
      /\ y.session = linked.session /\ y.fence = linked.fence /\ y.left = n
  BY <1>4, <1>5 DEF Registrations
<1>10. z \in Renewals
  BY <1>4 DEF Renewals
<1> HIDE DEF p, y, z
<1>11. p # Unset /\ y # Unset /\ z # Unset /\ GenOf(y) = GenOf(linked) /\ old.gen.boot = linked.boot
  <2>1. p # Unset /\ y # Unset /\ z # Unset
    BY <1>8, <1>9, <1>10, LinkConstants
  <2>2. GenOf(y) = GenOf(linked)
    BY <1>9 DEF GenOf
  <2>3. GenOf(linked).boot = linked.boot
    BY DEF GenOf
  <2> QED
    BY <1>1, <2>1, <2>2, <2>3
<1>12. /\ plan' \in [LinkedCells -> Plans \cup {Unset}] /\ plan'[c] = p
       /\ \A d \in LinkedCells \ {c} : plan'[d] = plan[d]
       /\ registration' \in [LinkedCells -> Registrations \cup {Unset}] /\ registration'[c] = y
       /\ \A d \in LinkedCells \ {c} : registration'[d] = registration[d]
       /\ renewal' \in [LinkedCells -> Renewals \cup {Unset}] /\ renewal'[c] = z
       /\ \A d \in LinkedCells \ {c} : renewal'[d] = renewal[d]
  BY <1>6, <1>7, <1>8, <1>9, <1>10
<1>13. PICK x \in Clients :
         x.phase = "bound" /\ [link EXCEPT ![c].phase = "bound"] = [link EXCEPT ![c] = x]
  BY <1>0, PhaseMoves
<1>14. ClientsTyped' /\ link'[c] = x /\ \A d \in LinkedCells \ {c} : link'[d] = link[d]
  <2>1. link' = [link EXCEPT ![c] = x]
    BY <1>1, <1>13
  <2> QED
    BY <1>0, <1>1, <1>8, <1>11, <1>12, <1>13, <2>1, ClientMoves
<1>15. LinkTypeOK'
  <2>1. RecordsTyped'
    BY <1>0, <1>3, <1>12 DEF RecordsTyped
  <2> QED
    BY <1>14, <2>1 DEF LinkTypeOK, RecordsTyped, ClientsTyped
<1>16. GenerationsGrow'
  <2>1. old.gen.boot <= evidence.boot /\ old.gen.session <= sessions /\ linked.boot <= evidence.boot
    BY <1>0, <1>4 DEF GenerationsGrow, old, linked
  <2> QED
    BY <1>0, <1>3, <1>8, <1>9, <1>12, <2>1 DEF GenerationsGrow
<1>17. FencesAreStored'
  <2>1. \A r \in ResOf[c] : old.fence <= stored[r] /\ linked.fence <= stored[r]
    BY <1>0, <1>4 DEF FencesAreStored, old, linked
  <2> QED
    BY <1>0, <1>3, <1>8, <1>9, <1>12, <2>1 DEF FencesAreStored
<1>18. AnswersOutlast'
  <2> SUFFICES ASSUME NEW d \in LinkedCells, plan'[d] # Unset
               PROVE  /\ \A r \in ResOf[d] : granted[r] # Unset /\ granted[r].fence = plan'[d].fence =>
                           granted[r].left >= plan'[d].grant
                      /\ (\A r \in ResOf[d] : stored[r] = plan'[d].fence)
                           /\ plan'[d].gen.boot = equipment.boot =>
                         /\ link'[d].phase = "granted" => HeldFor(d, plan'[d].fence, plan'[d].grant)
                         /\ link'[d].phase = "renewed" /\ renewal'[d] # Unset =>
                              HeldFor(d, plan'[d].fence, renewal'[d].left)
    BY <1>3 DEF AnswersOutlast, FenceIsCurrent, HeldFor
  <2>1. CASE d = c
    <3>1. \A r \in ResOf[c] : granted[r] # Unset /\ granted[r].fence = old.fence =>
            granted[r].left >= old.grant
      BY <1>0, <1>4 DEF AnswersOutlast, old
    <3> QED
      BY <1>8, <1>12, <1>13, <1>14, <2>1, <3>1
  <2>2. CASE d # c
    BY <1>0, <1>12, <1>14, <2>2 DEF AnswersOutlast, FenceIsCurrent
  <2> QED
    BY <2>1, <2>2
<1>19. CurrentGrantIsHeld'
  <2> SUFFICES ASSUME NEW d \in LinkedCells, registration'[d] # Unset, registration'[d].left > 0,
                      registration'[d].boot = equipment.boot
               PROVE  /\ renewal'[d] = Unset => \A r \in ResOf[d] : stored[r] = registration'[d].fence
                      /\ (\A r \in ResOf[d] : stored[r] = registration'[d].fence) =>
                           HeldFor(d, registration'[d].fence, registration'[d].left)
    BY <1>3 DEF CurrentGrantIsHeld, Alive, HeldFor
  <2>1. CASE d = c
    <3>1. renewal'[c] # Unset
      BY <1>11, <1>12
    <3>2. (\A r \in ResOf[c] : stored[r] = old.fence) /\ old.gen.boot = equipment.boot =>
            HeldFor(c, old.fence, n)
      BY <1>0, <1>1, <1>4 DEF AnswersOutlast, FenceIsCurrent, old, n
    <3> QED
      BY <1>1, <1>9, <1>11, <1>12, <2>1, <3>1, <3>2
  <2>2. CASE d # c
    BY <1>0, <1>12, <2>2 DEF CurrentGrantIsHeld, Alive
  <2> QED
    BY <2>1, <2>2
<1>20. \A d \in LinkedCells :
         /\ registration'[d] = Unset <=> registration[d] = Unset
         /\ registration[d] # Unset =>
              /\ GenOf(registration'[d]) = GenOf(registration[d])
              /\ registration'[d].journal = registration[d].journal
         /\ plan'[d] = Unset <=> plan[d] = Unset
         /\ plan[d] # Unset => plan'[d].gen = plan[d].gen /\ plan'[d].bound = plan[d].bound
  BY <1>4, <1>8, <1>9, <1>11, <1>12 DEF old, linked
<1>21. OpenWorkIsOfTheRegistered' /\ StorageIsKept'
  BY <1>0, <1>3, <1>20 DEF OpenWorkIsOfTheRegistered, StorageIsKept, Registered
<1>22. ReplacedIsIdle'
  BY <1>0, <1>3, <1>20 DEF ReplacedIsIdle, Generation
<1>23. NoHistoryBeforeLink'
  BY <1>0, <1>3, <1>20 DEF NoHistoryBeforeLink
<1> QED
  BY <1>15, <1>16, <1>17, <1>18, <1>19, <1>21, <1>22, <1>23 DEF LinkInv

-----------------------------------------------------------------------------
(* Time passes for the host and for the platform alike.                        *)

(* One tick less keeps the order of two deadlines.                             *)
LEMMA LessTicks ==
    /\ \A n \in Ticks : Less(n) \in Ticks /\ Less(n) \in Nat
    /\ \A n \in Nat : Less(n) \in Nat /\ (Less(n) > 0 => n > 0)
    /\ \A m \in Nat, n \in Nat : m >= n => Less(m) >= Less(n)
BY LinkConstants DEF Less, Ticks

(* A tick takes one tick from every grant, plan, registration and renewal that *)
(* has one left, so what outlasted another deadline still does.                *)
LEMMA TickStep ==
    ASSUME LinkInv, Tick
    PROVE  LinkInv'
<1>0. /\ LinkTypeOK /\ ClientsTyped /\ RecordsTyped /\ GenerationsGrow /\ FencesAreStored
      /\ AnswersOutlast /\ CurrentGrantIsHeld /\ OpenWorkIsOfTheRegistered /\ ReplacedIsIdle
      /\ StorageIsKept /\ NoHistoryBeforeLink
  BY LinkTypeParts DEF LinkInv
<1>1. /\ equipment' = equipment /\ late' = late /\ boots' = boots /\ evidence' = evidence
      /\ sessions' = sessions /\ cell' = cell /\ sent' = sent /\ stored' = stored
      /\ history' = history /\ approval' = approval
  BY DEF Tick
<1>2. ResOf \in [LinkedCells -> SUBSET Resources] /\ Ticks \subseteq Nat
  BY LinkConstants DEF Ticks
<1>3. ASSUME NEW r \in Resources
      PROVE  /\ granted[r] = Unset => granted'[r] = Unset
             /\ granted[r] # Unset =>
                  /\ granted'[r] \in Grants /\ granted'[r] # Unset
                  /\ granted'[r].fence = granted[r].fence /\ granted[r].left \in Nat
                  /\ granted'[r].left = Less(granted[r].left)
  <2>1. granted'[r] = IF granted[r] = Unset THEN Unset ELSE [granted[r] EXCEPT !.left = Less(@)]
    BY DEF Tick
  <2>2. ASSUME NEW x \in Grants
        PROVE  /\ [x EXCEPT !.left = Less(@)] \in Grants /\ x.left \in Nat
               /\ [x EXCEPT !.left = Less(@)].fence = x.fence
               /\ [x EXCEPT !.left = Less(@)].left = Less(x.left)
    <3>1. x.left \in Ticks
      BY DEF Grants
    <3>2. Less(x.left) \in Ticks
      BY <3>1, LessTicks
    <3> QED
      BY <1>2, <3>1, <3>2 DEF Grants
  <2>3. granted[r] \in Grants \cup {Unset}
    BY <1>0 DEF RecordsTyped
  <2>4. granted'[r] \in Grants => granted'[r] # Unset
    BY LinkConstants
  <2> QED
    BY <2>1, <2>2, <2>3, <2>4
<1>4. ASSUME NEW c \in LinkedCells
      PROVE  /\ plan[c] = Unset => plan'[c] = Unset
             /\ plan[c] # Unset =>
                  /\ plan'[c] \in Plans /\ plan'[c] # Unset /\ plan[c].grant \in Ticks
                  /\ plan'[c].gen = plan[c].gen /\ plan'[c].fence = plan[c].fence
                  /\ plan'[c].bound = plan[c].bound
                  /\ plan'[c].grant = Less(plan[c].grant)
  <2> DEFINE Ticked(x) == [x EXCEPT !.left = Less(@), !.grant = Less(@)]
  <2>1. plan'[c] = IF plan[c] = Unset THEN Unset ELSE Ticked(plan[c])
    BY DEF Tick
  <2>2. ASSUME NEW x \in Plans
        PROVE  /\ Ticked(x) \in Plans /\ x.grant \in Ticks
               /\ Ticked(x).gen = x.gen /\ Ticked(x).fence = x.fence /\ Ticked(x).bound = x.bound
               /\ Ticked(x).grant = Less(x.grant)
    <3>1. x.left \in Nat /\ x.grant \in Ticks
      BY DEF Plans
    <3>2. Less(x.left) \in Nat /\ Less(x.grant) \in Ticks
      BY <3>1, LessTicks
    <3> QED
      BY <3>1, <3>2 DEF Plans
  <2>3. plan[c] \in Plans \cup {Unset}
    BY <1>0 DEF RecordsTyped
  <2>4. plan'[c] \in Plans => plan'[c] # Unset
    BY LinkConstants
  <2> HIDE DEF Ticked
  <2> QED
    BY <2>1, <2>2, <2>3, <2>4
<1>5. ASSUME NEW c \in LinkedCells
      PROVE  /\ registration[c] = Unset => registration'[c] = Unset
             /\ registration[c] # Unset =>
                  /\ registration'[c] \in Registrations /\ registration'[c] # Unset
                  /\ registration[c].left \in Ticks
                  /\ GenOf(registration'[c]) = GenOf(registration[c])
                  /\ registration'[c].boot = registration[c].boot
                  /\ registration'[c].journal = registration[c].journal
                  /\ registration'[c].fence = registration[c].fence
                  /\ registration'[c].left = Less(registration[c].left)
  <2> DEFINE Ticked(x) == [x EXCEPT !.left = Less(@)]
  <2>1. registration'[c] = IF registration[c] = Unset THEN Unset ELSE Ticked(registration[c])
    BY DEF Tick
  <2>2. ASSUME NEW x \in Registrations
        PROVE  /\ Ticked(x) \in Registrations /\ x.left \in Ticks
               /\ Ticked(x).boot = x.boot /\ Ticked(x).journal = x.journal
               /\ Ticked(x).session = x.session /\ Ticked(x).fence = x.fence
               /\ Ticked(x).left = Less(x.left)
    <3>1. x.left \in Ticks
      BY DEF Registrations
    <3>2. Less(x.left) \in Ticks
      BY <3>1, LessTicks
    <3> QED
      BY <3>1, <3>2 DEF Registrations
  <2>3. registration[c] \in Registrations \cup {Unset}
    BY <1>0 DEF RecordsTyped
  <2>4. registration'[c] \in Registrations => registration'[c] # Unset
    BY LinkConstants
  <2> HIDE DEF Ticked
  <2>5. \A x \in Registrations : GenOf(Ticked(x)) = GenOf(x)
    BY <2>2 DEF GenOf
  <2> QED
    BY <2>1, <2>2, <2>3, <2>4, <2>5
<1>6. ASSUME NEW c \in LinkedCells
      PROVE  /\ renewal[c] = Unset => renewal'[c] = Unset
             /\ renewal[c] # Unset =>
                  /\ renewal'[c] \in Renewals /\ renewal'[c] # Unset /\ renewal[c].left \in Ticks
                  /\ renewal'[c].left = Less(renewal[c].left)
  <2> DEFINE Ticked(x) == [x EXCEPT !.left = Less(@)]
  <2>1. renewal'[c] = IF renewal[c] = Unset THEN Unset ELSE Ticked(renewal[c])
    BY DEF Tick
  <2>2. ASSUME NEW x \in Renewals
        PROVE  Ticked(x) \in Renewals /\ x.left \in Ticks /\ Ticked(x).left = Less(x.left)
    <3>1. x.left \in Ticks
      BY DEF Renewals
    <3>2. Less(x.left) \in Ticks
      BY <3>1, LessTicks
    <3> QED
      BY <3>1, <3>2 DEF Renewals
  <2>3. renewal[c] \in Renewals \cup {Unset}
    BY <1>0 DEF RecordsTyped
  <2>4. renewal'[c] \in Renewals => renewal'[c] # Unset
    BY LinkConstants
  <2> HIDE DEF Ticked
  <2> QED
    BY <2>1, <2>2, <2>3, <2>4
<1>7. ASSUME NEW c \in LinkedCells PROVE link'[c] = IF link[c].phase = "read" THEN Idle ELSE link[c]
  BY DEF Tick
<1>8. /\ granted' \in [Resources -> Grants \cup {Unset}]
      /\ plan' \in [LinkedCells -> Plans \cup {Unset}]
      /\ registration' \in [LinkedCells -> Registrations \cup {Unset}]
      /\ renewal' \in [LinkedCells -> Renewals \cup {Unset}]
  <2>1. granted' = [r \in Resources |-> granted'[r]] /\ plan' = [c \in LinkedCells |-> plan'[c]]
        /\ registration' = [c \in LinkedCells |-> registration'[c]]
        /\ renewal' = [c \in LinkedCells |-> renewal'[c]]
    BY DEF Tick
  <2>2. /\ \A r \in Resources : granted'[r] \in Grants \cup {Unset}
        /\ \A c \in LinkedCells : plan'[c] \in Plans \cup {Unset}
        /\ \A c \in LinkedCells : registration'[c] \in Registrations \cup {Unset}
        /\ \A c \in LinkedCells : renewal'[c] \in Renewals \cup {Unset}
    BY <1>3, <1>4, <1>5, <1>6
  <2> QED
    BY <2>1, <2>2
<1>9. ClientsTyped'
  <2>1. Idle \in Clients /\ Idle.phase = "idle"
    BY DEF Idle, Clients
  <2>2. link' = [c \in LinkedCells |-> link'[c]]
    BY DEF Tick
  <2>3. \A c \in LinkedCells : link'[c] \in Clients
    BY <1>0, <1>7, <2>1 DEF ClientsTyped
  <2>4. link' \in [LinkedCells -> Clients]
    BY <2>2, <2>3
  <2>5. ASSUME NEW c \in LinkedCells
        PROVE  /\ link'[c].phase = "read" => link'[c].snapshot # Unset
               /\ link'[c].phase \notin {"idle", "read"} => plan'[c] # Unset
               /\ link'[c].phase \in {"bound", "renewing", "renewed"} => plan'[c].bound
    <3>1. CASE link[c].phase = "read"
      BY <1>7, <2>1, <3>1
    <3>2. CASE link[c].phase # "read"
      <4>1. link'[c] = link[c]
        BY <1>7, <3>2
      <4>2. /\ link[c].phase \notin {"idle", "read"} => plan[c] # Unset
            /\ link[c].phase \in {"bound", "renewing", "renewed"} => plan[c].bound
        BY <1>0 DEF ClientsTyped
      <4>3. plan[c] # Unset => plan'[c] # Unset /\ plan'[c].bound = plan[c].bound
        BY <1>4
      <4> QED
        BY <3>2, <4>1, <4>2, <4>3
    <3> QED
      BY <3>1, <3>2
  <2> QED
    BY <2>4, <2>5 DEF ClientsTyped
<1>10. LinkTypeOK'
  <2>1. RecordsTyped'
    BY <1>0, <1>1, <1>8 DEF RecordsTyped
  <2> QED
    BY <1>9, <2>1 DEF LinkTypeOK, RecordsTyped, ClientsTyped
<1>11. GenerationsGrow'
  BY <1>0, <1>1, <1>4, <1>5 DEF GenerationsGrow
<1>12. FencesAreStored'
  BY <1>0, <1>1, <1>3, <1>4, <1>5 DEF FencesAreStored
<1>13. ASSUME NEW d \in LinkedCells, NEW g, NEW n \in Ticks, HeldFor(d, g, n)
       PROVE  \A r \in ResOf[d] : /\ granted'[r] # Unset /\ granted'[r].fence = g
                                  /\ granted'[r].left >= Less(n)
  <2> TAKE r \in ResOf[d]
  <2>1. r \in Resources /\ n \in Nat
    BY <1>2
  <2>2. granted[r] # Unset /\ granted[r].fence = g /\ granted[r].left >= n
    BY <1>13 DEF HeldFor
  <2>3. /\ granted'[r] # Unset /\ granted'[r].fence = g /\ granted[r].left \in Nat
        /\ granted'[r].left = Less(granted[r].left)
    BY <1>3, <2>1, <2>2
  <2> QED
    BY <2>1, <2>2, <2>3, LessTicks
<1>14. AnswersOutlast'
  <2> SUFFICES ASSUME NEW c \in LinkedCells, plan'[c] # Unset
               PROVE  /\ \A r \in ResOf[c] : granted'[r] # Unset /\ granted'[r].fence = plan'[c].fence =>
                           granted'[r].left >= plan'[c].grant
                      /\ (\A r \in ResOf[c] : stored[r] = plan'[c].fence)
                           /\ plan'[c].gen.boot = equipment.boot =>
                         /\ link'[c].phase = "granted" =>
                              \A r \in ResOf[c] :
                                /\ granted'[r] # Unset /\ granted'[r].fence = plan'[c].fence
                                /\ granted'[r].left >= plan'[c].grant
                         /\ link'[c].phase = "renewed" /\ renewal'[c] # Unset =>
                              \A r \in ResOf[c] :
                                /\ granted'[r] # Unset /\ granted'[r].fence = plan'[c].fence
                                /\ granted'[r].left >= renewal'[c].left
    BY <1>1 DEF AnswersOutlast, FenceIsCurrent, HeldFor
  <2>1. /\ plan[c] # Unset /\ plan[c].grant \in Ticks
        /\ plan'[c].gen = plan[c].gen /\ plan'[c].fence = plan[c].fence
        /\ plan'[c].grant = Less(plan[c].grant)
    BY <1>4
  <2>2. ASSUME NEW r \in ResOf[c], granted'[r] # Unset, granted'[r].fence = plan'[c].fence
        PROVE  granted'[r].left >= plan'[c].grant
    <3>1. r \in Resources /\ granted[r] # Unset
      BY <1>2, <1>3, <2>2
    <3>2. granted[r].fence = plan[c].fence /\ granted[r].left \in Nat
          /\ granted'[r].left = Less(granted[r].left)
      BY <1>3, <2>1, <2>2, <3>1
    <3>3. granted[r].left >= plan[c].grant /\ plan[c].grant \in Nat
      BY <1>0, <1>2, <2>1, <3>1, <3>2 DEF AnswersOutlast
    <3> QED
      BY <2>1, <3>2, <3>3, LessTicks
  <2>3. ASSUME \A r \in ResOf[c] : stored[r] = plan'[c].fence, plan'[c].gen.boot = equipment.boot
        PROVE  /\ link'[c].phase = "granted" =>
                    \A r \in ResOf[c] :
                      /\ granted'[r] # Unset /\ granted'[r].fence = plan'[c].fence
                      /\ granted'[r].left >= plan'[c].grant
               /\ link'[c].phase = "renewed" /\ renewal'[c] # Unset =>
                    \A r \in ResOf[c] :
                      /\ granted'[r] # Unset /\ granted'[r].fence = plan'[c].fence
                      /\ granted'[r].left >= renewal'[c].left
    <3>1. FenceIsCurrent(c) /\ plan[c].gen.boot = equipment.boot
      BY <2>1, <2>3 DEF FenceIsCurrent
    <3>2. /\ link[c].phase = "granted" => HeldFor(c, plan[c].fence, plan[c].grant)
          /\ link[c].phase = "renewed" /\ renewal[c] # Unset =>
               HeldFor(c, plan[c].fence, renewal[c].left)
      BY <1>0, <2>1, <3>1 DEF AnswersOutlast
    <3>3. link'[c].phase # "idle" => link'[c] = link[c]
      BY <1>7 DEF Idle
    <3>4. renewal'[c] # Unset => /\ renewal[c] # Unset /\ renewal[c].left \in Ticks
                                 /\ renewal'[c].left = Less(renewal[c].left)
      BY <1>6
    <3>5. ASSUME link'[c].phase = "granted"
          PROVE  \A r \in ResOf[c] : /\ granted'[r] # Unset /\ granted'[r].fence = plan'[c].fence
                                     /\ granted'[r].left >= plan'[c].grant
      <4>1. HeldFor(c, plan[c].fence, plan[c].grant)
        BY <3>2, <3>3, <3>5
      <4> QED
        BY <1>13, <2>1, <4>1
    <3>6. ASSUME link'[c].phase = "renewed", renewal'[c] # Unset
          PROVE  \A r \in ResOf[c] : /\ granted'[r] # Unset /\ granted'[r].fence = plan'[c].fence
                                     /\ granted'[r].left >= renewal'[c].left
      <4>1. HeldFor(c, plan[c].fence, renewal[c].left)
        BY <3>2, <3>3, <3>4, <3>6
      <4> QED
        BY <1>13, <2>1, <3>4, <3>6, <4>1
    <3> QED
      BY <3>5, <3>6
  <2> QED
    BY <2>2, <2>3
<1>15. CurrentGrantIsHeld'
  <2> SUFFICES ASSUME NEW c \in LinkedCells, registration'[c] # Unset, registration'[c].left > 0,
                      registration'[c].boot = equipment.boot
               PROVE  /\ renewal'[c] = Unset => \A r \in ResOf[c] : stored[r] = registration'[c].fence
                      /\ (\A r \in ResOf[c] : stored[r] = registration'[c].fence) =>
                           \A r \in ResOf[c] :
                             /\ granted'[r] # Unset /\ granted'[r].fence = registration'[c].fence
                             /\ granted'[r].left >= registration'[c].left
    BY <1>1 DEF CurrentGrantIsHeld, Alive, HeldFor
  <2>1. /\ registration[c] # Unset /\ registration[c].left \in Ticks
        /\ registration'[c].boot = registration[c].boot
        /\ registration'[c].fence = registration[c].fence
        /\ registration'[c].left = Less(registration[c].left)
    BY <1>5
  <2>2. Alive(c)
    BY <1>2, <2>1, LessTicks DEF Alive
  <2>3. renewal'[c] = Unset => renewal[c] = Unset
    BY <1>6
  <2>4. /\ renewal[c] = Unset => \A r \in ResOf[c] : stored[r] = registration[c].fence
        /\ (\A r \in ResOf[c] : stored[r] = registration[c].fence) =>
             HeldFor(c, registration[c].fence, registration[c].left)
    BY <1>0, <2>1, <2>2 DEF CurrentGrantIsHeld
  <2> QED
    BY <1>13, <2>1, <2>3, <2>4
<1>16. OpenWorkIsOfTheRegistered' /\ StorageIsKept'
  BY <1>0, <1>1, <1>5 DEF OpenWorkIsOfTheRegistered, StorageIsKept, Registered
<1>17. ReplacedIsIdle'
  BY <1>0, <1>1, <1>4, <1>5 DEF ReplacedIsIdle, Generation
<1>18. NoHistoryBeforeLink'
  BY <1>0, <1>1, <1>4, <1>5 DEF NoHistoryBeforeLink
<1> QED
  BY <1>10, <1>11, <1>12, <1>14, <1>15, <1>16, <1>17, <1>18 DEF LinkInv

-----------------------------------------------------------------------------
(* Nothing is linked, planned or granted at the start.                         *)
LEMMA LinkStart == LinkInit => LinkInv
<1> SUFFICES ASSUME LinkInit PROVE LinkInv
  OBVIOUS
<1>1. LinkTypeOK
  <2>1. Idle \in Clients /\ Idle.phase = "idle"
    BY DEF Idle, Clients
  <2>2. 0 \in Fences /\ [r \in Resources |-> 0] \in [Resources -> Fences]
    BY LinkConstants DEF Fences
  <2>3. equipment \in Equipment
    BY <2>2 DEF LinkInit, Equipment
  <2>4. link \in [LinkedCells -> Clients] /\ \A c \in LinkedCells : link[c].phase = "idle"
    BY <2>1 DEF LinkInit
  <2>5. RecordsTyped
    BY <2>2, <2>3 DEF LinkInit, RecordsTyped
  <2> QED
    BY <2>4, <2>5 DEF LinkTypeOK, RecordsTyped
<1>2. GenerationsGrow
  BY DEF LinkInit, GenerationsGrow
<1>3. FencesAreStored
  BY LinkConstants DEF LinkInit, FencesAreStored
<1>4. AnswersOutlast /\ CurrentGrantIsHeld /\ ReplacedIsIdle
  BY DEF LinkInit, AnswersOutlast, CurrentGrantIsHeld, ReplacedIsIdle, Alive
<1>5. OpenWorkIsOfTheRegistered /\ StorageIsKept /\ NoHistoryBeforeLink
  BY DEF LinkInit, OpenWorkIsOfTheRegistered, StorageIsKept, NoHistoryBeforeLink, Registered
<1> QED
  BY <1>1, <1>2, <1>3, <1>4, <1>5 DEF LinkInv

(* Every step of the client, the host and the platform keeps the invariant.    *)
LEMMA LinkStep == LinkInv /\ [LinkNext]_linkVars => LinkInv'
<1> SUFFICES ASSUME LinkInv, [LinkNext]_linkVars PROVE LinkInv'
  OBVIOUS
<1>1. ASSUME NEW c \in LinkedCells,
             \/ ReadBootstrap(c) \/ ReusePlan(c) \/ PrepareHostLink(c)
             \/ HostTakesFence(c) \/ HostGrants(c) \/ CommitHostLink(c) \/ Abandon(c)
             \/ PrepareHostRenewal(c) \/ HostRenews(c) \/ CommitHostRenewal(c) \/ RenewalFails(c)
             \/ FinishFenceDelivery(c) \/ InvalidateCell(c) \/ Requalify(c)
             \/ SendWork(c) \/ SettleWork(c)
      PROVE  LinkInv'
  <2>1. CASE ReadBootstrap(c) \/ ReusePlan(c) \/ Abandon(c) \/ RenewalFails(c)
    BY <2>1, ClientAlone
  <2>2. CASE HostTakesFence(c) \/ PrepareHostRenewal(c)
    BY <2>2, FenceAndRenewalBegin
  <2>3. CASE PrepareHostLink(c)
    BY <2>3, PlanPreparedStep
  <2>4. CASE HostGrants(c)
    BY <2>4, HostGrantsStep
  <2>5. CASE CommitHostLink(c)
    BY <2>5, LinkCommittedStep
  <2>6. CASE HostRenews(c)
    BY <2>6, HostRenewsStep
  <2>7. CASE CommitHostRenewal(c)
    BY <2>7, RenewalCommittedStep
  <2>8. CASE FinishFenceDelivery(c)
    BY <2>8, FenceDelivered
  <2>9. CASE InvalidateCell(c) \/ Requalify(c) \/ SendWork(c) \/ SettleWork(c)
    BY <2>9, PlatformAlone
  <2> QED
    BY <1>1, <2>1, <2>2, <2>3, <2>4, <2>5, <2>6, <2>7, <2>8, <2>9
<1>2. ASSUME NEW m \in late, HostGrantsLate(m) PROVE LinkInv'
  BY <1>2, LateGrantStep
<1>3. ASSUME NEW j \in 1..MaxJournal, HostBoots(j) PROVE LinkInv'
  BY <1>3, HostBootsStep
<1>4. CASE RuntimeRestarts \/ ApproveHostReadmission
  BY <1>4, PlatformAlone
<1>5. CASE OpenEvidenceProducer
  BY <1>5, SessionStep
<1>6. CASE Tick
  BY <1>6, TickStep
<1>7. CASE UNCHANGED linkVars
  <2>1. /\ equipment' = equipment /\ granted' = granted /\ late' = late /\ link' = link
        /\ boots' = boots /\ evidence' = evidence /\ sessions' = sessions /\ cell' = cell
        /\ sent' = sent /\ stored' = stored /\ plan' = plan /\ registration' = registration
        /\ history' = history /\ renewal' = renewal /\ approval' = approval
    BY <1>7 DEF linkVars, records
  <2>2. LinkTypeOK /\ FencesAreStored
    BY DEF LinkInv
  <2>3. LinkTypeOK'
    BY <2>1, <2>2 DEF LinkTypeOK
  <2>4. Quiet
    BY <2>1, <2>2 DEF Quiet, FencesAreStored
  <2> QED
    BY <2>3, <2>4, QuietStep
<1> QED
  BY <1>1, <1>2, <1>3, <1>4, <1>5, <1>6, <1>7 DEF LinkNext

(* For every set of cells, every assignment of the host's resources to them    *)
(* and all bounds: a grant the platform counts on is held by the host unless   *)
(* it was overtaken before its renewal came back, sent work belongs to the     *)
(* registered generation, and the host's storage stays the one the cell        *)
(* accepted first - through crashes, restarts, replaced sessions, requests     *)
(* that arrive late and re-admissions.                                         *)
THEOREM LinksAreAlwaysSound == LinkSpec => []LinksAreSound
<1>1. LinkInit => LinkInv
  BY LinkStart
<1>2. LinkInv /\ [LinkNext]_linkVars => LinkInv'
  BY LinkStep
<1>3. LinkInv => LinksAreSound
  <2> SUFFICES ASSUME LinkInv PROVE CountedGrantIsHeld
    BY DEF LinkInv, LinksAreSound
  <2> SUFFICES ASSUME NEW c \in Registered, Alive(c), registration[c].boot = equipment.boot,
                      ~Overtaken(c)
               PROVE  \A r \in ResOf[c] :
                        /\ granted[r] # Unset /\ granted[r].fence = registration[c].fence
                        /\ granted[r].left >= registration[c].left
    BY DEF CountedGrantIsHeld
  <2>1. c \in LinkedCells /\ CurrentGrantIsHeld
    BY DEF Registered, LinkInv
  <2>2. \A r \in ResOf[c] : stored[r] = registration[c].fence
    BY <2>1 DEF CurrentGrantIsHeld, Overtaken
  <2> QED
    BY <2>1, <2>2 DEF CurrentGrantIsHeld, HeldFor
<1> QED
  BY <1>1, <1>2, <1>3, PTL DEF LinkSpec
=============================================================================
