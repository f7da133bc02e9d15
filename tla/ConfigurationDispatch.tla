------------------------ MODULE ConfigurationDispatch ------------------------
(* How a prepared change reaches its hosts, and how the platform applies it.   *)
(* A release manager opens a task per host for one preparation attempt; each   *)
(* host's coordinator inspects the host, has the task bound to what it saw,    *)
(* enters the send, and looks the request up again when no answer came.  The   *)
(* platform applies the change when every host's accepted context is proved by *)
(* a read made moments ago.  The host is external: it answers a request once,  *)
(* keeps the receipt, and refuses a request made for another state of it.      *)
EXTENDS ProcessChange

VARIABLES
    reg,      \* reg[h]: generation of h the platform has registered
    acks,     \* fence acknowledgements <<host, epoch, generation>>
    task,     \* task[<<c, a, h>>]: configuration task of an attempt, or None
    reads,    \* observations recorded moments ago by this incarnation
    host,     \* host[h]: generation, epoch, accepted context, fence receipts yet
              \* to be recorded, the cells it reports (external)
    receipt,  \* receipt[<<c, a, h>>]: what the host answered, or None (external)
    wire,     \* requests sent and not lost
    worker    \* worker[h]: where h's coordinator is

dispatchVars == <<reg, acks, task, reads, host, receipt, wire, worker>>
vars == <<changeVars, dispatchVars>>

Tasks == Changes \X (1..MaxAttempt) \X Hosts
ChangeOf(k) == k[1]
AttemptOf(k) == k[2]
HostOf(k) == k[3]

Context == [config : Configs, task : Tasks]
Contexts == Context \cup {None}
Receipt == [status : {"applied", "not_applied"}, gen : 1..MaxGen]
Receipts == Receipt \cup {None}

(* A host's cells have the definition, envelope and environment the tasks name *)
(* and the blocks of the change, no more and no fewer of them, or they do not. *)
CellsSeen == {"as_named", "other"}

Observations == [gen : 1..MaxGen, epoch : 1..MaxEpoch, context : Contexts,
                 cells : CellsSeen, receipt : Receipts]
Issues == {"transport_unavailable", "authorization_changed", "receipt_missing",
           "host_generation_changed", "observation_mismatch", None}
TaskRecord ==
    [phase : {"awaiting", "prepared", "send_entered"}, gen : 1..MaxGen,
     boot : 1..MaxBoot, epoch : 1..MaxEpoch, expected : Configs \cup {None},
     receipt : Receipts, seen : Observations \cup {None}, issue : Issues,
     disputed : BOOLEAN]

ASSUME DispatchAssumption ==
    /\ None \notin Context /\ None \notin Receipt
    /\ None \notin Observations /\ None \notin TaskRecord

Idle == [at |-> "idle", task |-> None, seen |-> None, retry |-> FALSE]

Init ==
    /\ InitChange
    /\ reg = [h \in Hosts |-> 1]
    /\ acks = {}
    /\ task = [k \in Tasks |-> None]
    /\ reads = {}
    /\ host = [h \in Hosts |->
                [gen |-> 1, epoch |-> 1, context |-> None, fenced |-> {}, cells |-> "as_named"]]
    /\ receipt = [k \in Tasks |-> None]
    /\ wire = {}
    /\ worker = [h \in Hosts |-> Idle]

(* What the host reports of itself and of request k.                           *)
Observation(k) ==
    LET h == HostOf(k) IN
    [gen |-> host[h].gen, epoch |-> host[h].epoch, context |-> host[h].context,
     cells |-> host[h].cells, receipt |-> receipt[k]]

(* The host's claim that the accepted context is request k's.                  *)
ContextMatches(k, o) ==
    /\ o.receipt # None
    /\ o.receipt.status = "applied" /\ o.receipt.gen = o.gen
    /\ o.epoch = task[k].epoch
    /\ o.context # None
    /\ o.context = [config |-> change[ChangeOf(k)].after, task |-> k]

-----------------------------------------------------------------------------

(* Nothing of the group is open, and every host has answered the preparation's *)
(* fence in its registered generation.                                         *)
Barrier(c) ==
    /\ \A r \in Runs : ~Live(r)
    /\ \A h \in Hosts : <<h, change[c].prep.epoch, reg[h]>> \in acks

CurrentChange(k) ==
    LET c == change[ChangeOf(k)] IN
    /\ c.state = "staged"
    /\ c.prep # None
    /\ c.prep.attempt = AttemptOf(k)
    /\ c.prep.boot = boot /\ task[k].boot = boot
    /\ Current(ChangeOf(k))
    /\ group.epoch = c.prep.epoch

GenerationMatches(k) == reg[HostOf(k)] = task[k].gen

SendAuthorized(k) == CurrentChange(k) /\ GenerationMatches(k) /\ Barrier(ChangeOf(k))

(* A slip for the mutation runs: earlier attempts are not looked at. *)
OpenSendForgotten(c, a) == FALSE

(* A send of an earlier attempt whose outcome is open or disputed.             *)
OpenSend(c, a) ==
    \E k \in Tasks :
        /\ ChangeOf(k) = c /\ AttemptOf(k) # a
        /\ task[k] # None
        /\ task[k].phase = "send_entered"
        /\ task[k].receipt = None \/ task[k].disputed
NewTask(c) == [h \in Hosts |->
    [phase |-> "awaiting", gen |-> reg[h], boot |-> boot, epoch |-> group.epoch,
     expected |-> None, receipt |-> None, seen |-> None, issue |-> None,
     disputed |-> FALSE]]

(* Opens the missing tasks of the attempt; existing ones only change sender.   *)
AuthorizeHostConfiguration(c) ==
    /\ change[c] # None
    /\ change[c].state = "staged"
    /\ Current(c)
    /\ change[c].prep # None
    /\ change[c].prep.boot = boot
    /\ Barrier(c)
    /\ ~OpenSend(c, change[c].prep.attempt)
    /\ LET missing == {h \in Hosts : task[<<c, change[c].prep.attempt, h>>] = None} IN
       /\ missing # {}
       /\ group.epoch = change[c].prep.epoch
       /\ task' = [k \in Tasks |->
                    IF ChangeOf(k) = c /\ AttemptOf(k) = change[c].prep.attempt
                          /\ HostOf(k) \in missing
                    THEN NewTask(c)[HostOf(k)] ELSE task[k]]
    /\ UNCHANGED <<changeVars, reg, acks, reads, host, receipt, wire, worker>>

(* The tasks a coordinator is handed: the current attempt's, and older sends   *)
(* whose outcome is still open.                                                *)
Handed(k) ==
    /\ task[k] # None
    /\ ~task[k].disputed
    /\ \/ /\ change[ChangeOf(k)].state = "staged"
          /\ change[ChangeOf(k)].prep.attempt = AttemptOf(k)
       \/ task[k].phase = "send_entered" /\ task[k].receipt = None
    /\ task[k].receipt # None => task[k].receipt.status # "not_applied"

Working(h, at, k, seen, retry) ==
    worker' = [worker EXCEPT ![h] =
                 [at |-> at, task |-> k, seen |-> seen, retry |-> retry]]
Rest(h) == worker' = [worker EXCEPT ![h] = Idle]

Issue(k, issue) ==
    task' = [task EXCEPT ![k].issue = issue]

-----------------------------------------------------------------------------
(* The coordinator picks a task up: it reads the host first unless the task is *)
(* bound and was never sent.                                                   *)
PickTask(k) ==
    LET h == HostOf(k) IN
    /\ worker[h].at = "idle"
    /\ Handed(k)
    /\ CASE task[k].phase = "awaiting" -> Working(h, "bind", k, Observation(k), FALSE)
         [] task[k].phase = "prepared" -> Working(h, "enter", k, None, FALSE)
         [] task[k].phase = "send_entered" -> Working(h, "record", k, Observation(k), FALSE)
    /\ UNCHANGED <<changeVars, reg, acks, task, reads, host, receipt, wire>>

(* The host could not be read or opened. *)
TransportFails(k) ==
    LET h == HostOf(k) IN
    /\ \/ worker[h].at = "idle" /\ Handed(k) /\ task[k].phase # "prepared"
       \/ worker[h].at = "enter" /\ worker[h].task = k
    /\ Issue(k, "transport_unavailable")
    /\ Rest(h)
    /\ UNCHANGED <<changeVars, reg, acks, reads, host, receipt, wire>>

Bindable(k, o) ==
    /\ o.gen = task[k].gen
    /\ o.epoch = task[k].epoch
    /\ o.cells = "as_named"
    /\ o.context # None => o.context.config \in
           {change[ChangeOf(k)].before, change[ChangeOf(k)].after}

BindHostConfiguration(h) ==
    LET k == worker[h].task
        o == worker[h].seen IN
    /\ worker[h].at = "bind"
    /\ IF SendAuthorized(k) /\ (task[k].phase # "awaiting" \/ Bindable(k, o))
       THEN /\ task' = IF task[k].phase # "awaiting" THEN task
                       ELSE [task EXCEPT ![k].phase = "prepared", ![k].issue = None,
                               ![k].expected = IF o.context = None THEN None
                                               ELSE o.context.config]
            /\ Working(h, "enter", k, None, FALSE)
       ELSE Issue(k, "authorization_changed") /\ Rest(h)
    /\ UNCHANGED <<changeVars, reg, acks, reads, host, receipt, wire>>

(* The request is sent again only after a lookup in the same host generation   *)
(* found no receipt of it.                                                     *)
RetryMissing(k) ==
    /\ task[k].phase = "send_entered"
    /\ task[k].issue = "receipt_missing"
    /\ task[k].seen # None
    /\ task[k].seen.receipt = None /\ task[k].seen.gen = task[k].gen

EnterHostConfigurationSend(h) ==
    LET k == worker[h].task
        retry == worker[h].retry IN
    /\ worker[h].at = "enter"
    /\ IF task[k].phase = "send_entered" /\ ~retry
       THEN Rest(h) /\ UNCHANGED <<task, wire>>
       ELSE IF /\ SendAuthorized(k)
               /\ ~task[k].disputed /\ task[k].receipt = None
               /\ retry => RetryMissing(k)
       THEN /\ task' = [task EXCEPT ![k].phase = "send_entered", ![k].issue = None]
            /\ wire' = wire \cup {k}
            /\ Working(h, "sent", k, None, FALSE)
       ELSE /\ Issue(k, "authorization_changed")
            /\ Rest(h)
            /\ UNCHANGED wire
    /\ UNCHANGED <<changeVars, reg, acks, reads, host, receipt>>

(* The call that carries the request fails or times out; the request may still *)
(* arrive.                                                                     *)
CallFails(h) ==
    /\ worker[h].at = "sent"
    /\ Issue(worker[h].task, "transport_unavailable")
    /\ Rest(h)
    /\ UNCHANGED <<changeVars, reg, acks, reads, host, receipt, wire>>

(* A reply to the send reaches the coordinator. *)
Answered(h) ==
    LET k == worker[h].task IN
    /\ worker[h].at = "sent"
    /\ receipt[k] # None
    /\ Working(h, "record", k, Observation(k), FALSE)
    /\ UNCHANGED <<changeVars, reg, acks, task, reads, host, receipt, wire>>

(* An observation contradicts the receipt that is kept, or reports request k's *)
(* context without a receipt.                                                  *)
Contradicts(k, o) ==
    \/ task[k].receipt # None /\ o.receipt # task[k].receipt
    \/ /\ o.receipt = None
       /\ o.context # None
       /\ o.context.task = k

KeptReceipt(k, o) == IF task[k].receipt # None THEN task[k].receipt ELSE o.receipt

IssueOf(k, o) ==
    CASE o.gen # task[k].gen -> "host_generation_changed"
      [] o.gen = task[k].gen /\ o.receipt = None ->
            IF o.epoch = task[k].epoch /\ o.cells = "as_named"
               /\ (IF o.context = None THEN None ELSE o.context.config) = task[k].expected
            THEN "receipt_missing" ELSE "observation_mismatch"
      [] OTHER -> IF o.receipt.status = "applied" /\ ~ContextMatches(k, o)
                  THEN "observation_mismatch" ELSE None

RecordHostConfiguration(h) ==
    LET k == worker[h].task
        o == worker[h].seen
        disputed == task[k].disputed \/ Contradicts(k, o)
        issue == IF Contradicts(k, o) THEN "observation_mismatch"
                 ELSE IF disputed THEN task[k].issue ELSE IssueOf(k, o)
        kept == KeptReceipt(k, o) IN
    /\ worker[h].at = "record"
    /\ task' = [task EXCEPT ![k].disputed = disputed, ![k].issue = issue,
                            ![k].receipt = kept, ![k].seen = o]
    /\ reads' = {x \in reads : x[1] # k} \cup {<<k, o>>}
    /\ IF kept = None /\ ~disputed /\ issue = "receipt_missing"
       THEN Working(h, "enter", k, None, TRUE)
       ELSE Rest(h)
    /\ UNCHANGED <<changeVars, reg, acks, host, receipt, wire>>

(* Three seconds pass since a read; one still with the coordinator is refused. *)
ExpireRead(h) ==
    /\ \/ /\ worker[h].at \in {"bind", "record"}
          /\ Rest(h)
          /\ UNCHANGED reads
       \/ /\ \E x \in reads : HostOf(x[1]) = h
          /\ reads' = {x \in reads : HostOf(x[1]) # h}
          /\ UNCHANGED worker
    /\ UNCHANGED <<changeVars, reg, acks, task, host, receipt, wire>>

-----------------------------------------------------------------------------
ReceiptProved(k) ==
    /\ task[k] # None
    /\ CurrentChange(k)
    /\ task[k].phase = "send_entered"
    /\ ~task[k].disputed /\ task[k].issue = None
    /\ GenerationMatches(k)
    /\ task[k].receipt # None
    /\ task[k].receipt.status = "applied"
    /\ ContextMatches(k, task[k].seen)
    /\ task[k].seen.cells = "as_named"

ProvedHosts(c) ==
    {h \in Hosts :
        LET k == <<c, change[c].prep.attempt, h>> IN
        ReceiptProved(k) /\ <<k, task[k].seen>> \in reads}

(* Every host of the impact accepted this attempt's context and said so again  *)
(* within the last three seconds.                                              *)
Proofs(c) ==
    /\ Current(c)
    /\ change[c].prep # None
    /\ Barrier(c)
    /\ ProvedHosts(c) = Hosts

(* What the change's page shows: the hosts that acknowledged this preparation, *)
(* and everything that still stands in the way of applying it.                 *)

Acknowledged(k) ==
    /\ task[k] # None
    /\ task[k].receipt # None
    /\ task[k].receipt.status = "applied"
    /\ ~task[k].disputed /\ task[k].issue = None
    /\ GenerationMatches(k)
    /\ ContextMatches(k, task[k].seen)
    /\ CurrentChange(k)

Stale(c) == change[c].prep.boot # boot \/ change[c].prep.epoch # group.epoch

Blockers(c) ==
    {b \in {"review", "run", "preparation", "fence", "host"} :
        CASE b = "review" -> ~ReviewHolds(c, change[c].before)
          [] b = "run" -> \E r \in Runs : Live(r)
          [] b = "preparation" -> IF change[c].prep = None THEN TRUE ELSE Stale(c)
          [] b = "fence" -> IF change[c].prep = None THEN FALSE
                            ELSE \E h \in Hosts :
                                <<h, change[c].prep.epoch, reg[h]>> \notin acks
          [] b = "host" -> IF change[c].prep = None THEN TRUE
                           ELSE \E h \in Hosts :
                               ~Acknowledged(<<c, change[c].prep.attempt, h>>)}

PrepareApply(c) ==
    /\ change[c] # None
    /\ change[c].state = "staged"
    /\ Proofs(c)
    /\ Preflight(c, "apply", change[c].rev)
    /\ UNCHANGED <<boot, group, change, approved, run, fences, dispatchVars>>

(* Freezes the configuration of every run, selects the new one and revokes     *)
(* what was granted under the old.                                             *)
CommitApply(t) ==
    LET c == t.change IN
    /\ t \in tickets /\ t.action = "apply"
    /\ AtRevision(c, "staged", t.rev)
    /\ Revise(c)
    /\ group.epoch < MaxEpoch
    /\ CheckPrepared(t)
    /\ Proofs(c)
    /\ run' = [r \in Runs |-> BindRun(r)]
    /\ group' = [Invalidated(group, c) EXCEPT !.config = change[c].after, !.selection = c]
    /\ fences' = FencesOwed
    /\ Recorded(c, "applied")
    /\ tickets' = tickets \ {t}
    /\ UNCHANGED <<boot, approved, dispatchVars>>

-----------------------------------------------------------------------------
(* The host (external) *)

(* A fence message reaches the host: it moves to the message's epoch and keeps *)
(* a receipt of its generation.  A message of an epoch it has passed is stale  *)
(* and gets none.                                                              *)
HostFences(h, e) ==
    /\ e \in fences[h]
    /\ host[h].epoch <= e
    /\ <<e, host[h].gen>> \notin host[h].fenced
    /\ host' = [host EXCEPT ![h].epoch = e, ![h].fenced = @ \cup {<<e, host[h].gen>>}]
    /\ UNCHANGED <<changeVars, reg, acks, task, reads, receipt, wire, worker>>

(* The platform records the receipt of a fence, given in the generation it has *)
(* registered.                                                                 *)
AcknowledgeFence(h, e) ==
    /\ e \in fences[h]
    /\ <<e, reg[h]>> \in host[h].fenced
    /\ acks' = acks \cup {<<h, e, reg[h]>>}
    /\ fences' = [fences EXCEPT ![h] = @ \ {e}]
    /\ host' = [host EXCEPT ![h].fenced = {x \in @ : x[1] # e}]
    /\ UNCHANGED <<boot, group, change, approved, tickets, run,
                   reg, task, reads, receipt, wire, worker>>

(* The first arrival of a request: a host still in the state the request names *)
(* accepts it, or not when its equipment moves.                                *)
HostApplies(k) ==
    LET h == HostOf(k)
        context == IF host[h].context = None THEN None ELSE host[h].context.config IN
    /\ k \in wire
    /\ receipt[k] = None
    /\ task[k].gen = host[h].gen
    /\ \E status \in {"applied", "not_applied"} :
        /\ status = "applied" => task[k].epoch = host[h].epoch /\ task[k].expected = context
        /\ receipt' = [receipt EXCEPT ![k] = [status |-> status, gen |-> host[h].gen]]
        /\ host' = IF status = "applied"
                   THEN [host EXCEPT ![h].context =
                           [config |-> change[ChangeOf(k)].after, task |-> k]]
                   ELSE host
    /\ UNCHANGED <<changeVars, reg, acks, task, reads, wire, worker>>

(* The host's cells are changed by hand, or a block is lost, or put right.     *)
HostCellsChange(h) ==
    /\ \E cells \in CellsSeen \ {host[h].cells} : host' = [host EXCEPT ![h].cells = cells]
    /\ UNCHANGED <<changeVars, reg, acks, task, reads, receipt, wire, worker>>

LoseRequest(k) ==
    /\ k \in wire
    /\ wire' = wire \ {k}
    /\ UNCHANGED <<changeVars, reg, acks, task, reads, host, receipt, worker>>

(* A restarted host keeps its journal: epoch, context and receipts.            *)
HostRestarts(h) ==
    /\ host[h].gen < MaxGen
    /\ host' = [host EXCEPT ![h].gen = @ + 1]
    /\ UNCHANGED <<changeVars, reg, acks, task, reads, receipt, wire, worker>>

(* The new generation is registered once it stands at the group's epoch.       *)
LinkHost(h) ==
    /\ reg[h] # host[h].gen
    /\ reg' = [reg EXCEPT ![h] = host[h].gen]
    /\ host' = [host EXCEPT ![h].epoch = group.epoch]
    /\ UNCHANGED <<changeVars, acks, task, reads, receipt, wire, worker>>

(* Everything the runtime held in memory is gone, and its cells are blocked.   *)
RuntimeRestarts ==
    /\ boot < MaxBoot
    /\ group.epoch < MaxEpoch
    /\ boot' = boot + 1
    /\ group' = Invalidated(group, "restart")
    /\ fences' = FencesOwed
    /\ tickets' = {}
    /\ reads' = {}
    /\ worker' = [h \in Hosts |-> Idle]
    /\ UNCHANGED <<change, approved, run, reg, acks, task, host, receipt, wire>>

-----------------------------------------------------------------------------
Handling(c) ==
    /\ \/ PrepareChange(c) \/ ReviewImpact(c) \/ PrepareStage(c)
       \/ BeginPreparation(c) \/ Qualify(c) \/ SuspendQualification(c)
       \/ WithdrawReview(c)
    /\ UNCHANGED dispatchVars

Verified(t) ==
    /\ CommitChange(t) \/ CommitStage(t) \/ DropTicket(t)
    /\ UNCHANGED dispatchVars

Running(r) == (StartRun(r) \/ FinishRun(r)) /\ UNCHANGED dispatchVars

Coordinator(h) ==
    \/ BindHostConfiguration(h) \/ EnterHostConfigurationSend(h)
    \/ Answered(h) \/ RecordHostConfiguration(h)

Next ==
    \/ \E c \in Changes :
        Handling(c) \/ AuthorizeHostConfiguration(c) \/ PrepareApply(c)
    \/ \E t \in tickets : Verified(t) \/ CommitApply(t)
    \/ \E r \in Runs : Running(r)
    \/ \E k \in Tasks : PickTask(k) \/ TransportFails(k) \/ HostApplies(k) \/ LoseRequest(k)
    \/ \E h \in Hosts :
        \/ Coordinator(h) \/ CallFails(h) \/ ExpireRead(h)
        \/ HostRestarts(h) \/ LinkHost(h) \/ HostCellsChange(h)
        \/ \E e \in fences[h] : HostFences(h, e) \/ AcknowledgeFence(h, e)
    \/ RuntimeRestarts

Spec == Init /\ [][Next]_vars

-----------------------------------------------------------------------------
(* Every variable has the shape of the stored record, in-memory table or       *)
(* external host it stands for.                                                *)
TypeOK ==
    /\ boot \in 1..MaxBoot
    /\ group.config \in Configs /\ group.epoch \in 1..MaxEpoch
    /\ group.blocks \subseteq Changes \cup {"restart"}
    /\ group.selection \in Changes \cup {None}
    /\ \A c \in Changes : change[c] # None =>
        /\ change[c].state \in {"proposed", "reviewed", "staged", "applied", "qualified"}
        /\ change[c].rev \in 1..MaxRev
        /\ {change[c].before, change[c].after} \subseteq Configs
        /\ change[c].prep \in Attempts \cup {None}
        /\ change[c].state \in {"proposed", "reviewed"} => change[c].prep = None
        /\ Applied(c) => change[c].prep # None
    /\ approved \subseteq Changes
    /\ \A r \in Runs : run[r] # None => run[r].origin \in Configs
    /\ \A h \in Hosts :
        /\ fences[h] \subseteq 1..group.epoch
        /\ reg[h] <= host[h].gen /\ host[h].gen \in 1..MaxGen
        /\ host[h].epoch <= group.epoch
        /\ host[h].context \in Contexts
        /\ host[h].cells \in CellsSeen
        /\ host[h].fenced \subseteq (1..MaxEpoch) \X (1..MaxGen)
        /\ worker[h].seen \in Observations \cup {None}
    /\ \A k \in Tasks : task[k] # None =>
        /\ task[k].phase \in {"awaiting", "prepared", "send_entered"}
        /\ task[k].issue \in Issues
        /\ task[k].receipt \in Receipts
        /\ receipt[k] # None => task[k].phase = "send_entered"

(* Once a change is applied, and until the next one starts configuring, every  *)
(* host holds exactly the context of the configuration the platform selected,  *)
(* whatever requests of earlier attempts arrive late (process_apply proofs).   *)
HostsFollowSelection ==
    /\ group.selection # None
    /\ \A d \in Changes :
        (change[d] # None /\ change[d].state = "staged") => change[d].prep = None
    => \A h \in Hosts :
        host[h].context # None /\ host[h].context.config = group.config

(* A run that has not ended never has a host that was given another            *)
(* configuration than the run's: the barrier before the tasks, and the blocks  *)
(* of the change after it, keep the two apart.                                 *)
RunMatchesItsHosts ==
    \A r \in Runs : Live(r) =>
        \A h \in Hosts :
            IF host[h].context = None THEN run[r].origin = Start
            ELSE host[h].context.config = run[r].origin

(* Every run, legacy or bound, finished or not, is read under the              *)
(* configuration it was started under, however many changes were applied since *)
(* (run_configuration: bind, read).                                            *)
RunReadsItsConfiguration ==
    \A r \in Runs : run[r] # None => RunConfiguration(r) = run[r].origin

(* A revalidation never forks the lineage: when it is the selection, no other  *)
(* applied change selected the same configuration                              *)
(* (revalidation_root_available).                                              *)
LineageIsNotForked ==
    \A c \in Changes :
        Applied(c) /\ Mode[c] = "revalidate" /\ group.selection = c =>
            \A d \in Changes \ {c} : Applied(d) => change[d].after # group.config

(* No two preparation attempts of a change have a send to the same host whose  *)
(* outcome is open: the later attempt is sent only when the earlier is settled *)
(* (authorize_host_configuration, enter_host_configuration_send).              *)
OneOpenSend ==
    \A j, k \in Tasks :
        /\ ChangeOf(j) = ChangeOf(k) /\ AttemptOf(j) < AttemptOf(k)
        /\ task[j] # None /\ task[k] # None
        => ~(task[j].phase = "send_entered" /\ task[j].receipt = None)

(* A host that keeps its receipts is never marked disputed, in whatever order  *)
(* lookups, late answers and retries are recorded                              *)
(* (record_host_configuration_observation).                                    *)
FaithfulHostIsUndisputed ==
    \A k \in Tasks : task[k] # None => ~task[k].disputed

(* A staged change whose page names no blocker lacks nothing but fresh reads   *)
(* to be applied, and hosts whose cells are still the ones the tasks name: the *)
(* page and the apply check, two separate pieces of code, agree on everything  *)
(* but the cells (process_change detail, process_apply proofs).                *)
BlockersAreComplete ==
    \A c \in Changes :
        IF change[c] = None THEN TRUE
        ELSE IF change[c].state # "staged" \/ Blockers(c) # {} THEN TRUE
        ELSE /\ Current(c) /\ Barrier(c)
             /\ \A h \in Hosts :
                    LET k == <<c, change[c].prep.attempt, h>> IN
                    ReceiptProved(k) \/ task[k].seen.cells # "as_named"

(* All of the above. *)
ChangeIsSound ==
    /\ TypeOK
    /\ HostsFollowSelection /\ RunMatchesItsHosts /\ RunReadsItsConfiguration
    /\ LineageIsNotForked
    /\ OneOpenSend /\ FaithfulHostIsUndisputed /\ BlockersAreComplete
=============================================================================
