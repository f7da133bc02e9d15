----------------------------- MODULE HostRecovery -----------------------------
(* After a restart of the runtime a host that kept its own boot is recovered  *)
(* for reading only: a binding is proposed over a cut of the platform and a   *)
(* read of the host, approved, every cell of the host is fenced, and a second *)
(* read promotes the binding to RecoveryOnly.  Then the receipts of commands  *)
(* entered before the restart may be fetched; nothing is granted or sent.     *)
(*                                                                            *)
(* Source: crates/rx-application/src/engine/host_recovery{.rs,/*.rs} and      *)
(* crates/rx-host-client/src/recovery/*.rs.  An invalidation adds one epoch   *)
(* and one latched block, lifting them is QualificationActivation's: the      *)
(* epoch stands for the cell's revision, scopes and blocks.  The host keeps   *)
(* its platform session as long as neither side boots.                        *)
EXTENDS Naturals, FiniteSets

CONSTANTS
    Cells,       \* cells of the host, all connected
    Ops,         \* commands of the host that are open when the model starts
    CellOf,      \* [Ops -> Cells]
    Bindings,    \* identities of recovery bindings
    None,
    MaxRuntime, MaxHostBoot, MaxEpoch, MaxSession,   \* bounds of the instance
    MaxFailures  \* bound: calls that fail or come too late

(* The shapes of what is stored, held by a call and kept by the host.         *)
Stages == {"Pending", "SendEntered", "Acknowledged"}
Marks == {"None", "New", "EmitEntered", "Delivered"}
Journal == {"Absent", "Prepared", "VoidedBeforeSend", "SendEntered", "NativeAccepted"}
Link == [boot : Nat, session : Nat, runtime : Nat]
Cut == [runtime : Nat, epoch : [Cells -> Nat], reg : Link, producer : Link,
        previous : Nat, messages : [Ops -> SUBSET {"prepare", "authorize"}]]
Request == (Bindings \cup {"outbox"}) \X Cells \X (1..MaxEpoch)
Read == [session : Nat \X Nat, boot : Nat, fresh : BOOLEAN, configuration : [Cells -> Nat],
         snapshot : [Cells -> Nat]]      \* 0: not read yet
Stored == [phase : {"Proposed", "Fencing", "RecoveryOnly", "Attention"}, cut : Cut,
           approved : BOOLEAN, session : Nat \X Nat,
           fences : [Cells -> [phase : Stages, request : Request]], read : Read \cup {None}]
Call == [job : {"propose", "progress", "query"}, b : Bindings \cup {None}, cut : Cut,
         step : {"reading", "sent", "query", "receipt"}, at : Cells \cup {None},
         op : Ops \cup {None}, receipt : Journal \cup {None}, read : Read]

ASSUME RecoveryAssumption ==
    /\ CellOf \in [Ops -> Cells] /\ "outbox" \notin Bindings
    /\ None \notin Bindings \cup Cells \cup Ops \cup Journal
    /\ None \notin {"Prepare", "Authorize", "NotExecuted"}
    /\ None \notin Stored /\ None \notin Call /\ None \notin Read
    /\ {MaxRuntime, MaxHostBoot, MaxEpoch, MaxSession} \subseteq Nat \ {0}
    /\ MaxFailures \in Nat

VARIABLES
    runtime,     \* boot of the runtime
    epoch,       \* [Cells -> epoch]
    row,         \* [Cells \X epochs -> state of the Fence message in the outbox]
    producer,    \* the host's evidence producer: host boot, session, runtime
    reg,         \* registration and baseline: host boot, session, runtime
    binding,     \* [Bindings -> None or the stored binding]
    owner,       \* host-recovery-owner: None or a binding
    last,        \* host-recovery-last: None or a binding
    recovered,   \* history: the boots of the runtime in which a binding completed
    work,        \* [Ops -> sent, outcome, outbox rows of its two messages]
    worker,      \* the call that holds the host's serial lock, or None
    failures,    \* calls that failed or came too late
    wire,        \* fence requests the host has not received
    command,     \* [Ops -> None or the message of it the host has not received]
    host,        \* external: boot, epochs, fence requests it answered
    native       \* external: [Ops -> state in the host's delivery journal]

platform == <<runtime, epoch, row, producer, reg, owner, last, recovered, work>>
peer == <<host, native, command>>
vars == <<platform, binding, worker, failures, wire, peer>>

(* Before the restart the dispatcher had sent Prepare, or had it answered and *)
(* sent Authorize.                                                            *)
Init ==
    /\ runtime = 1 /\ epoch = [c \in Cells |-> 1]
    /\ row = [x \in Cells \X (1..MaxEpoch) |-> "None"]
    /\ producer = [boot |-> 1, session |-> 1, runtime |-> 1]
    /\ reg = producer
    /\ binding = [b \in Bindings |-> None] /\ owner = None /\ last = None
    /\ recovered = {}
    /\ worker = None /\ failures = 0 /\ wire = {}
    /\ command \in [Ops -> {"Prepare", "Authorize"}]
    /\ host = [boot |-> 1, epoch |-> [c \in Cells |-> 1], answered |-> {}]
    /\ native = [o \in Ops |-> IF command[o] = "Prepare" THEN "Absent" ELSE "Prepared"]
    /\ work = [o \in Ops |->
         [sent |-> FALSE, outcome |-> None,
          prepare |-> IF command[o] = "Prepare" THEN "EmitEntered" ELSE "Delivered",
          authorize |-> IF command[o] = "Prepare" THEN "None" ELSE "EmitEntered"]]

-----------------------------------------------------------------------------
(* The boots of both sides, and the rest of the platform.                     *)
Invalidated(cs) ==
    /\ \A c \in cs : epoch[c] < MaxEpoch
    /\ epoch' = [c \in Cells |-> IF c \in cs THEN epoch[c] + 1 ELSE epoch[c]]
    /\ row' = [x \in DOMAIN row |->
                 IF x[1] \in cs /\ x[2] = epoch'[x[1]] THEN "New" ELSE row[x]]

(* Booting blocks every cell with an origin that names the boot it ended.     *)
RestartRuntime ==
    /\ runtime < MaxRuntime /\ Invalidated(Cells)
    /\ runtime' = runtime + 1 /\ worker' = None
    /\ UNCHANGED <<producer, reg, owner, last, recovered, work, binding, wire, peer, failures>>

Invalidate(c) ==
    /\ runtime > 1 /\ Invalidated({c})
    /\ UNCHANGED <<runtime, producer, reg, owner, last, recovered, work, binding,
                   worker, wire, peer, failures>>

(* The host is the same and the restart block of every cell ends the boot its *)
(* session was of.                                                            *)
RuntimeOnly == host.boot = producer.boot /\ producer.runtime = runtime - 1

(* The host's first contact in a boot of either side.  Unless the runtime     *)
(* alone was restarted every cell is invalidated; so it is when the machine   *)
(* of the runtime booted, whose clock has another name.                       *)
OpenProducer ==
    /\ [boot |-> host.boot, runtime |-> runtime] #
         [boot |-> producer.boot, runtime |-> producer.runtime]
    /\ producer.session < MaxSession
    /\ producer' = [boot |-> host.boot, session |-> producer.session + 1,
                    runtime |-> runtime]
    /\ \/ RuntimeOnly /\ UNCHANGED <<epoch, row>>
       \/ Invalidated(Cells)
    /\ UNCHANGED <<runtime, reg, owner, last, recovered, work, binding, worker, wire, peer,
                   failures>>

(* The host is re-admitted and linked at the cells' epochs: a new baseline.   *)
Relink ==
    /\ producer.runtime = runtime /\ producer.boot = host.boot
    /\ reg # producer /\ host.epoch = epoch
    /\ reg' = producer
    /\ UNCHANGED <<runtime, epoch, row, producer, owner, last, recovered, work, binding,
                   worker, wire, peer, failures>>

HostRestarts ==
    /\ host.boot < MaxHostBoot
    /\ host' = [host EXCEPT !.boot = @ + 1]
    /\ UNCHANGED <<platform, binding, worker, wire, native, command, failures>>

-----------------------------------------------------------------------------
(* The cut of the platform a binding is about.                                *)
(* The last completed recovery carries continuity over the boot it was in.    *)
Anchor ==
    IF last # None /\ binding[last].phase = "RecoveryOnly"
       /\ binding[last].cut.runtime # runtime
       /\ binding[last].cut.reg = reg /\ binding[last].cut.producer.boot = producer.boot
    THEN last ELSE None

PreviousBoot ==
    IF Anchor # None THEN binding[Anchor].cut.runtime ELSE reg.runtime

Entered(o) ==
    {m \in {"prepare", "authorize"} : work[o][m] \in {"EmitEntered", "Delivered"}}

Context ==
    [runtime |-> runtime, epoch |-> epoch, reg |-> reg, producer |-> producer,
     previous |-> PreviousBoot, messages |-> [o \in Ops |-> Entered(o)]]

(* A slip for the mutation runs: any restart block will do.                   *)
OriginsAny == runtime > 1

(* The restart block of every cell ends the boot continuity reaches to.       *)
Origins == runtime > 1 /\ PreviousBoot = runtime - 1

SameIdentity ==
    /\ reg.boot = producer.boot
    /\ producer.session # reg.session

NoBlocker == producer.runtime = runtime /\ SameIdentity /\ Origins

(* A slip for the mutation runs: the cells are not looked at again.           *)
CurrentBoot(k) ==
    k.runtime = runtime /\ producer.runtime = runtime /\ k.producer = producer /\ k.reg = reg

Current(k) ==
    /\ k.runtime = runtime
    /\ producer.runtime = runtime /\ k.producer = producer
    /\ k.epoch = epoch
    /\ k.reg = reg

ApprovedCurrent(b) == binding[b].approved /\ Current(binding[b].cut) /\ owner = b

(* The configuration and the snapshots of a read speak of one state of the    *)
(* registered boot.                                                           *)
ReadAgrees(k, r) == r.boot = k.reg.boot /\ r.snapshot = r.configuration

(* The host is not ahead of the cut; after the fence it is exactly at it.     *)
WithinCut(k, r, fenced) ==
    \A c \in Cells : /\ r.snapshot[c] <= k.epoch[c]
                     /\ fenced => r.snapshot[c] = k.epoch[c]

ValidRead(k, r, fenced) == r.fresh /\ ReadAgrees(k, r) /\ WithinCut(k, r, fenced)

SameSession(b, r) == r.session = binding[b].session

Attention(x) == [x EXCEPT !.phase = "Attention"]

-----------------------------------------------------------------------------
(* The worker: one call at a time holds the host's lock.  A call is either    *)
(* proposing, driving a binding or querying a command.                        *)
Session == <<runtime, host.boot>>

Connected(job, b, k) ==
    [job |-> job, b |-> b, cut |-> k, step |-> "reading", at |-> None, op |-> None,
     receipt |-> None,
     read |-> [session |-> Session, boot |-> host.boot, fresh |-> TRUE,
               configuration |-> host.epoch, snapshot |-> [c \in Cells |-> 0]]]

StartPropose ==
    /\ worker = None /\ NoBlocker
    /\ \E b \in Bindings : binding[b] = None
    /\ worker' = Connected("propose", None, Context)
    /\ UNCHANGED <<platform, binding, wire, peer, failures>>

(* The connection is refused when the runtime booted since the cut.           *)
StartProgress(b) ==
    /\ worker = None /\ binding[b] # None
    /\ binding[b].phase \in {"Fencing", "RecoveryOnly"} /\ binding[b].cut.runtime = runtime
    /\ worker' = Connected("progress", b, binding[b].cut)
    /\ UNCHANGED <<platform, binding, wire, peer, failures>>

StartQuery(b, o) ==
    /\ worker = None /\ binding[b] # None
    /\ binding[b].phase = "RecoveryOnly" /\ binding[b].cut.runtime = runtime
    /\ worker' = [Connected("query", b, binding[b].cut) EXCEPT !.op = o]
    /\ UNCHANGED <<platform, binding, wire, peer, failures>>

(* The configuration is read first, then a snapshot of each cell.             *)
ReadSnapshot(c) ==
    /\ worker # None
    /\ worker.step = "reading" /\ worker.read.snapshot[c] = 0
    /\ worker.read.session = Session
    /\ worker' = [worker EXCEPT !.read.snapshot[c] = host.epoch[c]]
    /\ UNCHANGED <<platform, binding, wire, peer, failures>>

ReadDone ==
    /\ worker # None
    /\ worker.step = "reading" /\ \A c \in Cells : worker.read.snapshot[c] # 0

(* More than 100 ms pass before the writer looks at the read.                 *)
ReadAges ==
    /\ ReadDone /\ worker.read.fresh
    /\ failures < MaxFailures /\ failures' = failures + 1
    /\ worker' = [worker EXCEPT !.read.fresh = FALSE]
    /\ UNCHANGED <<platform, binding, wire, peer>>

(* A call fails or times out: what it sent may still arrive.                  *)
GiveUp ==
    /\ worker # None /\ failures < MaxFailures
    /\ failures' = failures + 1 /\ worker' = None
    /\ UNCHANGED <<platform, binding, wire, peer>>

(* The host booted: the session of the call is gone.                          *)
SessionLost ==
    /\ worker # None
    /\ worker.read.session # Session /\ ~ReadDone
    /\ worker' = None
    /\ UNCHANGED <<platform, binding, wire, peer, failures>>

Reading(w) == [w EXCEPT !.step = "reading", !.at = None,
                        !.read = Connected(w.job, w.b, w.cut).read]

-----------------------------------------------------------------------------
(* The writer's handlers.                                                     *)
(* A pending Fence message of the same cell and epoch is taken over.          *)
FenceTasks(b, k) ==
    [c \in Cells |->
       [phase |-> "Pending",
        request |-> IF row[<<c, k.epoch[c]>>] \in {"New", "EmitEntered"}
                      THEN <<"outbox", c, k.epoch[c]>> ELSE <<b, c, k.epoch[c]>>]]

ProposeHostRecovery(b) ==
    /\ ReadDone /\ worker.job = "propose" /\ binding[b] = None
    /\ NoBlocker /\ Context = worker.cut /\ ValidRead(worker.cut, worker.read, FALSE)
    /\ binding' = [binding EXCEPT ![b] =
         [phase |-> "Proposed", cut |-> worker.cut, approved |-> FALSE,
          session |-> worker.read.session, fences |-> FenceTasks(b, worker.cut),
          read |-> None]]
    /\ worker' = None
    /\ UNCHANGED <<platform, wire, peer, failures>>

ProposalRefused ==
    /\ ReadDone /\ worker.job = "propose"
    /\ ~(NoBlocker /\ Context = worker.cut /\ ValidRead(worker.cut, worker.read, FALSE))
    /\ worker' = None
    /\ UNCHANGED <<platform, binding, wire, peer, failures>>

(* Another binding of this boot is under way.                                 *)
OwnerBusy(b) ==
    /\ owner # None
    /\ owner # b /\ binding[owner].cut.runtime = runtime
    /\ binding[owner].phase \in {"Fencing", "RecoveryOnly"}

(* Approving holds the serial lock; a binding in Attention may be approved    *)
(* again while its cut stands.                                                *)
ApproveHostRecovery(b) ==
    /\ worker = None /\ binding[b] # None
    /\ Current(binding[b].cut) /\ ~OwnerBusy(b)
    /\ owner' = b
    /\ binding' = [binding EXCEPT ![b].phase = "Fencing", ![b].approved = TRUE]
    /\ UNCHANGED <<runtime, epoch, row, producer, reg, last, recovered, work, worker,
                   wire, peer, failures>>

Row(request) == <<request[2], request[3]>>
Taken(request) == request[1] = "outbox"

Enter(request) ==
    IF Taken(request) /\ row[Row(request)] = "New"
    THEN [row EXCEPT ![Row(request)] = "EmitEntered"] ELSE row

Complete(request) ==
    IF Taken(request) THEN [row EXCEPT ![Row(request)] = "Delivered"] ELSE row

Unacknowledged(b) == {c \in Cells : binding[b].fences[c].phase # "Acknowledged"}

(* The exact request is on record before the fence is sent.                   *)
PlanFence(c) ==
    LET b == worker.b
        request == binding[b].fences[c].request IN
    /\ ReadDone /\ worker.job = "progress"
    /\ binding[b].phase = "Fencing" /\ c \in Unacknowledged(b)
    /\ IF ApprovedCurrent(b) /\ ValidRead(binding[b].cut, worker.read, FALSE)
          /\ SameSession(b, worker.read)
       THEN /\ row' = Enter(request)
            /\ binding' = [binding EXCEPT ![b].fences[c].phase = "SendEntered"]
            /\ wire' = wire \cup {request}
            /\ worker' = [worker EXCEPT !.step = "sent", !.at = c]
       ELSE /\ binding' = [binding EXCEPT ![b] = Attention(@)]
            /\ worker' = None
            /\ UNCHANGED <<row, wire>>
    /\ UNCHANGED <<runtime, epoch, producer, reg, owner, last, recovered, work, peer, failures>>

(* A correlated answer stays a fact, but a binding that lost its cut is in    *)
(* Attention from then on.                                                    *)
RecordFence ==
    LET b == worker.b
        c == worker.at
        request == binding[b].fences[c].request
        noted == [binding[b] EXCEPT !.fences[c].phase = "Acknowledged"] IN
    /\ worker # None
    /\ worker.step = "sent" /\ worker.job = "progress"
    /\ request \in host.answered
    /\ IF host.boot = binding[b].cut.reg.boot
       THEN /\ row' = Complete(request)
            /\ IF ApprovedCurrent(b)
               THEN /\ binding' = [binding EXCEPT ![b] = noted]
                    /\ worker' = Reading(worker)
               ELSE /\ binding' = [binding EXCEPT ![b] = Attention(noted)]
                    /\ worker' = None
       ELSE worker' = None /\ UNCHANGED <<row, binding>>
    /\ UNCHANGED <<runtime, epoch, producer, reg, owner, last, recovered, work, wire, peer, failures>>

AllFenced(b) == Unacknowledged(b) = {}

Confirmed(b, r) ==
    ApprovedCurrent(b) /\ SameSession(b, r) /\ ValidRead(binding[b].cut, r, TRUE)

CommitHostRecovery ==
    LET b == worker.b IN
    /\ ReadDone /\ worker.job = "progress"
    /\ binding[b].phase = "Fencing" /\ AllFenced(b)
    /\ IF Confirmed(b, worker.read)
       THEN /\ binding' = [binding EXCEPT ![b].phase = "RecoveryOnly",
                                          ![b].read = worker.read]
            /\ last' = b /\ recovered' = recovered \cup {runtime}
       ELSE /\ binding' = [binding EXCEPT ![b] = [Attention(@) EXCEPT !.read = worker.read]]
            /\ UNCHANGED <<last, recovered>>
    /\ worker' = None
    /\ UNCHANGED <<runtime, epoch, row, producer, reg, owner, work, wire, peer, failures>>

(* A driving call on a RecoveryOnly binding, and the first and last step of a *)
(* query, look at the host again.                                             *)
RefreshHostRecovery ==
    LET b == worker.b IN
    /\ ReadDone /\ worker.job \in {"progress", "query"}
    /\ binding[b].phase = "RecoveryOnly"
    /\ IF Confirmed(b, worker.read)
       THEN /\ binding' = [binding EXCEPT ![b].read = worker.read]
            /\ worker' = IF worker.job = "query" /\ worker.receipt = None
                           THEN [worker EXCEPT !.step = "query"] ELSE None
       ELSE /\ binding' = [binding EXCEPT ![b] = [Attention(@) EXCEPT !.read = worker.read]]
            /\ worker' = None
    /\ UNCHANGED <<platform, wire, peer, failures>>

-----------------------------------------------------------------------------
(* The receipts of commands entered before the restart.                       *)
PlanQuery ==
    /\ worker # None
    /\ worker.step = "query"
    /\ worker' = IF binding[worker.b].phase = "RecoveryOnly" /\ ApprovedCurrent(worker.b)
                    /\ ValidRead(binding[worker.b].cut, binding[worker.b].read, TRUE)
                    /\ worker.cut.messages[worker.op] # {}
                 THEN [worker EXCEPT !.step = "receipt"] ELSE None
    /\ UNCHANGED <<platform, binding, wire, peer, failures>>

(* The host answers with the newest entry of its journal, or not at all.      *)
FetchReceipt ==
    /\ worker # None
    /\ worker.step = "receipt" /\ worker.receipt = None
    /\ worker.read.session = Session
    /\ worker' = LET w == [worker EXCEPT !.receipt = native[worker.op]] IN
                 IF w.receipt = "Absent" THEN Reading(w) ELSE w
    /\ UNCHANGED <<platform, binding, wire, peer, failures>>

MessageOf(o, receipt, messages) ==
    IF receipt # "Prepared" /\ "authorize" \in messages THEN "authorize" ELSE "prepare"

OutcomeOf(o, receipt) ==
    IF receipt = "VoidedBeforeSend" /\ work[o].outcome = None
      THEN "NotExecuted" ELSE work[o].outcome

RecordReceipt ==
    LET b == worker.b
        o == worker.op
        m == MessageOf(o, worker.receipt, worker.cut.messages[o]) IN
    /\ worker # None
    /\ worker.step = "receipt" /\ worker.receipt # None
    /\ binding[b].phase \in {"RecoveryOnly", "Attention"} /\ m \in worker.cut.messages[o]
    /\ work' = [work EXCEPT ![o].outcome = OutcomeOf(o, worker.receipt),
                            ![o].sent = @ \/ worker.receipt \in {"SendEntered", "NativeAccepted"},
                            ![o].prepare = IF m = "prepare" THEN "Delivered" ELSE @,
                            ![o].authorize = IF m = "authorize" THEN "Delivered" ELSE @]
    /\ binding' = [binding EXCEPT ![b] = IF ApprovedCurrent(b) THEN @ ELSE Attention(@)]
    /\ worker' = IF binding'[b].phase = "RecoveryOnly" THEN Reading(worker) ELSE None
    /\ UNCHANGED <<runtime, epoch, row, producer, reg, owner, last, recovered, wire, peer, failures>>

-----------------------------------------------------------------------------
(* The host: it refuses what a fence has overtaken, an older fence too, and   *)
(* voids what it had prepared; a request it answered is answered again.       *)
HostFences(request) ==
    LET c == request[2]  e == request[3] IN
    /\ request \in wire
    /\ wire' = wire \ {request}
    /\ host' = IF host.epoch[c] <= e
                 THEN [host EXCEPT !.epoch[c] = e, !.answered = @ \cup {request}] ELSE host
    /\ native' = [o \in Ops |-> IF CellOf[o] = c /\ native[o] = "Prepared" /\ host.epoch[c] < e
                                  THEN "VoidedBeforeSend" ELSE native[o]]
    /\ UNCHANGED <<platform, binding, worker, command, failures>>

HostReceives(o) ==
    /\ command[o] # None
    /\ command' = [command EXCEPT ![o] = None]
    /\ native' = [native EXCEPT ![o] =
         IF host.epoch[CellOf[o]] > 1 THEN @
         ELSE IF command[o] = "Prepare" THEN "Prepared" ELSE "SendEntered"]
    /\ UNCHANGED <<platform, binding, worker, wire, host, failures>>

HostAccepts(o) ==
    /\ native[o] = "SendEntered"
    /\ native' = [native EXCEPT ![o] = "NativeAccepted"]
    /\ UNCHANGED <<platform, binding, worker, wire, host, command, failures>>

-----------------------------------------------------------------------------
Writes ==
    \/ \E b \in Bindings : ProposeHostRecovery(b)
    \/ ProposalRefused
    \/ \E c \in Cells : PlanFence(c)
    \/ RecordFence
    \/ CommitHostRecovery
    \/ RefreshHostRecovery
    \/ PlanQuery
    \/ FetchReceipt
    \/ RecordReceipt

Next ==
    \/ RestartRuntime
    \/ \E c \in Cells : Invalidate(c)
    \/ OpenProducer
    \/ Relink
    \/ HostRestarts
    \/ StartPropose
    \/ \E b \in Bindings : StartProgress(b)
    \/ \E b \in Bindings, o \in Ops : StartQuery(b, o)
    \/ \E c \in Cells : ReadSnapshot(c)
    \/ ReadAges
    \/ GiveUp
    \/ SessionLost
    \/ \E b \in Bindings : ApproveHostRecovery(b)
    \/ Writes
    \/ \E r \in wire : HostFences(r)
    \/ \E o \in Ops : HostReceives(o)
    \/ \E o \in Ops : HostAccepts(o)

Spec == Init /\ [][Next]_vars

-----------------------------------------------------------------------------
(* Types of the state.  A RecoveryOnly binding has a read and every fence     *)
(* answered (what `read` of a binding insists on), the owner and the last     *)
(* completed recovery are stored bindings.                                    *)
TypeOK ==
    /\ runtime \in 1..MaxRuntime /\ epoch \in [Cells -> 1..MaxEpoch]
    /\ row \in [Cells \X (1..MaxEpoch) -> Marks]
    /\ producer \in Link /\ reg \in Link
    /\ binding \in [Bindings -> Stored \cup {None}]
    /\ \A b \in Bindings : binding[b] # None /\ binding[b].phase = "RecoveryOnly" =>
         binding[b].read # None /\ Unacknowledged(b) = {}
    /\ {owner, last} \subseteq Bindings \cup {None}
    /\ \A b \in {owner, last} \ {None} : binding[b] # None /\ binding[b].approved
    /\ recovered \subseteq 1..runtime
    /\ work \in [Ops -> [sent : BOOLEAN, outcome : {"NotExecuted", None},
                         prepare : Marks, authorize : Marks]]
    /\ worker \in Call \cup {None} /\ failures \in 0..MaxFailures
    /\ wire \subseteq Request
    /\ command \in [Ops -> {"Prepare", "Authorize", None}]
    /\ host \in [boot : 1..MaxHostBoot, epoch : [Cells -> 1..MaxEpoch],
                  answered : SUBSET Request]
    /\ native \in [Ops -> Journal]

UnderWay == {b \in Bindings : /\ binding[b] # None
                              /\ binding[b].cut.runtime = runtime
                              /\ binding[b].phase \in {"Fencing", "RecoveryOnly"}}

(* approve_host_recovery: one recovery of the host is under way in a boot,    *)
(* and it is the owner's.                                                     *)
OneRecovery == UnderWay \subseteq {owner}

(* commit_host_recovery: when a binding becomes RecoveryOnly the host of the  *)
(* registered boot stands at the epoch every cell has at that moment, however *)
(* late the answers and the read that led there were.                         *)
PromotedHostIsFenced ==
    [][\A b \in Bindings :
         /\ binding[b] # None
         /\ binding[b].phase = "Fencing"
         /\ binding'[b].phase = "RecoveryOnly"
         /\ host.boot = reg.boot
         => host.epoch = epoch]_vars

(* context::build: continuity is never carried over a boot nobody recovered   *)
(* the host in: between the boot that linked it and the boot of a RecoveryOnly *)
(* binding, every boot completed a recovery.                                  *)
EveryBootIsAccounted ==
    \A b \in Bindings :
        binding[b] # None =>
            (binding[b].phase = "RecoveryOnly" =>
               (binding[b].cut.reg.runtime + 1)..binding[b].cut.runtime \subseteq recovered)

(* fences::enter and complete: a Fence message marked New was never sent      *)
(* under its id, one marked Delivered was applied by the host.                *)
RowTellsTheTruth ==
    \A x \in DOMAIN row :
        /\ row[x] = "New" => <<"outbox", x[1], x[2]>> \notin wire \cup host.answered
        /\ row[x] = "Delivered" => host.epoch[x[1]] >= x[2]

(* record_host_recovery_receipt: a command concluded NotExecuted never was    *)
(* and never will be sent to the device, late messages included; one marked   *)
(* sent was.                                                                  *)
ReceiptsAreTrue ==
    \A o \in Ops :
        /\ work[o].outcome = "NotExecuted" => native[o] = "VoidedBeforeSend"
        /\ work[o].sent => native[o] \in {"SendEntered", "NativeAccepted"}

(* What a recovery keeps, however late its answers and reads arrive: one is   *)
(* under way, its boots are accounted for, its rows and receipts are true.    *)
RecoveryIsSound ==
    TypeOK /\ OneRecovery /\ EveryBootIsAccounted /\ RowTellsTheTruth /\ ReceiptsAreTrue
=============================================================================
