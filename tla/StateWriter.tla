----------------------------- MODULE StateWriter -----------------------------
(* The state-writer thread over the store: two bounded lanes, a burst limit   *)
(* that lets normal commands through a stream of control commands, clients    *)
(* that lose replies and send a request again, and a runtime that stops,      *)
(* faults and starts again.                                                   *)
EXTENDS StateStore

CONSTANTS
  Clients,
  ControlOps,                            \* the commands of Priority::Control
  ControlLimit, NormalLimit, Capacity,   \* 8, 24 and 32 in the code
  BurstLimit,                            \* 8 in the code
  Tickets                                \* tells the unfinished sends of a client apart

Task == [client : Clients, ticket : 1..Tickets, key : Keys, body : Body]

\* What the abstract ledger knows of a file.
Cut == [done : [Keys -> Body \cup {None}], parts : [Runs -> Nat]]

ASSUME WriterConstants ==
  /\ None \notin Task /\ None \notin Cut
  /\ None \notin {"ok", "conflict", "rejected"}
  /\ ControlOps \subseteq Ops
  /\ {ControlLimit, NormalLimit, Capacity, BurstLimit} \subseteq Nat \ {0}
  /\ Tickets \in Nat \ {0}
  /\ Capacity = ControlLimit + NormalLimit

VARIABLES
  status,    \* "down", "running" or "draining"
  control, normal,   \* the two lanes
  executing, \* the task taken from a lane, or None
  verdict,   \* the result of the executing task once it is processed, or None
  burst,     \* control tasks taken since the last normal one
  waiting,   \* waiting[c]: the ticket of the send c awaits a reply to; 0 for none
  told       \* the successful answers clients received, with their generation

queueVars == <<status, control, normal, executing, verdict, burst>>
clientVars == <<waiting, told>>
vars == <<storeVars, queueVars, clientVars>>

Priority(b) == IF b.op \in ControlOps THEN "control" ELSE "normal"

Init ==
  /\ StoreInit
  /\ status = "down"
  /\ control = << >> /\ normal = << >>
  /\ executing = None /\ verdict = None
  /\ burst = 0
  /\ waiting = [c \in Clients |-> 0]
  /\ told = {}

----------------------------------------------------------------------------
Executes(p) == IF executing # None /\ Priority(executing.body) = p THEN 1 ELSE 0

Total == Len(control) + Len(normal) + (IF executing # None THEN 1 ELSE 0)

\* The executing task still counts in its lane.
LaneFull(p) ==
  IF p = "control" THEN Len(control) + Executes("control") >= ControlLimit
                   ELSE Len(normal) + Executes("normal") >= NormalLimit

\* The tickets of c's tasks that are queued or executing, whether c waits or not.
Unfinished(c) ==
  {t.ticket : t \in {u \in Range(control) \cup Range(normal)
                         \cup ({executing} \ {None}) : u.client = c}}

\* A client sends a request, again or with a key it used before.  One that is
\* refused (Busy, Unavailable) leaves nothing behind.
Enqueue(c, k, b) ==
  /\ waiting[c] = 0
  /\ status = "running"
  /\ Total < Capacity /\ ~LaneFull(Priority(b))
  /\ Unfinished(c) # 1..Tickets
  /\ LET ticket == CHOOSE n \in 1..Tickets : n \notin Unfinished(c)
         task == [client |-> c, ticket |-> ticket, key |-> k, body |-> b]
     IN /\ IF Priority(b) = "control"
           THEN control' = Append(control, task) /\ UNCHANGED normal
           ELSE normal' = Append(normal, task) /\ UNCHANGED control
        /\ waiting' = [waiting EXCEPT ![c] = ticket]
  /\ UNCHANGED <<storeVars, status, executing, verdict, burst, told>>

\* Dropping the receiver never cancels an admitted task.
GiveUp(c) ==
  /\ waiting[c] # 0
  /\ waiting' = [waiting EXCEPT ![c] = 0]
  /\ UNCHANGED <<storeVars, queueVars, told>>

\* A slip for the mutation runs: control tasks always go first.
ControlNextAlways == control # << >>

\* Control first, until BurstLimit of them have kept a normal task waiting.
ControlNext == control # << >> /\ (burst < BurstLimit \/ normal = << >>)

Take ==
  /\ status # "down"
  /\ executing = None
  /\ control # << >> \/ normal # << >>
  /\ IF ControlNext
     THEN /\ executing' = Head(control)
          /\ control' = Tail(control)
          /\ burst' = IF burst < BurstLimit THEN burst + 1 ELSE burst
          /\ UNCHANGED normal
     ELSE /\ executing' = Head(normal)
          /\ normal' = Tail(normal)
          /\ burst' = 0
          /\ UNCHANGED control
  /\ UNCHANGED <<storeVars, clientVars, status, verdict>>

Process ==
  /\ executing # None
  /\ verdict = None
  /\ disk' = Transacted(disk, executing.key, executing.body)
  /\ verdict' = Verdict(disk, executing.key, executing.body)
  /\ UNCHANGED <<backup, owner, boots, restores, clientVars,
                 status, control, normal, executing, burst>>

\* The reply reaches the client if it still waits for this send.
Reply ==
  /\ verdict # None
  /\ LET c == executing.client
         heard == waiting[c] = executing.ticket
     IN /\ waiting' = IF heard THEN [waiting EXCEPT ![c] = 0] ELSE waiting
        /\ told' = IF heard /\ verdict = "ok"
                   THEN told \cup {[key |-> executing.key, body |-> executing.body,
                                    gen |-> disk.gen]}
                   ELSE told
  /\ executing' = None
  /\ verdict' = None
  /\ UNCHANGED <<storeVars, status, control, normal, burst>>

----------------------------------------------------------------------------
\* Application start: the lock, then the start transaction.
Start ==
  /\ status = "down"
  /\ owner = None
  /\ boots < MaxBoots
  /\ disk.live \subseteq LiveRuns(disk)   \* or live_runs fails, and the start with it
  /\ disk' = Booted(disk)
  /\ owner' = "runtime"
  /\ boots' = boots + 1
  /\ status' = "running"
  /\ burst' = 0
  /\ UNCHANGED <<backup, restores, control, normal, executing, verdict, clientVars>>

Close ==
  /\ status = "running"
  /\ status' = "draining"
  /\ UNCHANGED <<storeVars, control, normal, executing, verdict, burst, clientVars>>

\* The exit guard of the thread: what is queued is dropped with its senders,
\* and the repository is closed with the processor.
Exit ==
  /\ status' = "down"
  /\ owner' = None
  /\ control' = << >> /\ normal' = << >>
  /\ executing' = None /\ verdict' = None
  /\ waiting' = [c \in Clients |-> 0]
  /\ UNCHANGED <<disk, backup, boots, restores, burst, told>>

Drained ==
  /\ status = "draining"
  /\ control = << >> /\ normal = << >> /\ executing = None
  /\ Exit

\* A panic of the processor or the death of the process, between any two steps.
Fault ==
  /\ status # "down"
  /\ Exit

Maintenance ==
  /\ Backup \/ RestoreRename \/ RestoreRotate \/ RestoreDies
  /\ UNCHANGED <<queueVars, clientVars>>

Next ==
  \/ \E c \in Clients, k \in Keys, b \in Body : Enqueue(c, k, b)
  \/ \E c \in Clients : GiveUp(c)
  \/ Take \/ Process \/ Reply
  \/ Start \/ Close \/ Drained \/ Fault
  \/ Maintenance

Spec == Init /\ [][Next]_vars

\* The writer's loop is never blocked on anything but its queue.
WriterRuns == WF_vars(Take) /\ WF_vars(Process) /\ WF_vars(Reply)

----------------------------------------------------------------------------
TypeOK ==
  /\ disk \in Disk
  /\ owner \in {None, "runtime", "restore"}
  /\ status \in {"down", "running", "draining"}
  /\ (status # "down") = (owner = "runtime")
  /\ control \in Seq(Task) /\ normal \in Seq(Task)
  /\ executing \in Task \cup {None}
  /\ verdict \in {None, "ok", "conflict", "rejected"}
  /\ burst \in 0..BurstLimit
  /\ waiting \in [Clients -> 0..Tickets]

\* A part begins once for each request that asked for it, through lost replies,
\* repeated sends, crashes between commit and reply, and restores
\* (requests.rs prior/remember inside the handler's transaction).
Asking(d, r) == {k \in Keys : d.saved[k] = [op |-> "part", run |-> r]}

PartsAreRequested ==
  \A r \in Runs : disk.runs[r].parts = Cardinality(Asking(disk, r))

\* Replaying the control journal arrives at the rows the store holds, from a
\* store an older revision wrote as well (control_journal.rs seeds it).
Entries(d, r) == {i \in DOMAIN d.log : d.log[i].run = r}

Replayed(d, r, row) ==
  \/ Entries(d, r) = {} /\ row = Absent
  \/ \E i \in Entries(d, r) : (\A j \in Entries(d, r) : j <= i) /\ row = d.log[i].row

JournalReplays ==
  disk.seeded => \A r \in Runs : Replayed(disk, r, disk.runs[r])

\* While a runtime serves, the live-run set hot paths read is the set a scan of
\* the runs would give (run_index.rs record and rebuild).
LiveIndexIsExact == owner = "runtime" => disk.live = LiveRuns(disk)

\* From the second start on, no run executes for a runtime that is gone: a crash,
\* a stop or a restore leaves none behind, and the first runtime with an index
\* leaves those of the revision before it (invalidate_cell at Engine::open).
ExecutesHere == \A r \in Runs : disk.runs[r].state = "executing" => disk.runs[r].session = boots

RunsAreRecovered == owner = "runtime" /\ boots > 1 => ExecutesHere

\* No restore dies between its two writes once somebody was answered: the
\* generation of the copy would then stand for two lineages.
MidwayUntold == owner = "restore" /\ owner' = None /\ UNCHANGED disk => told = {}

\* An answer a client was given under the present generation is still in the
\* store: the generation identifies one ledger lineage (STORE_RESTORE.md).
AnsweredIsInTheStore ==
  owner # "restore" =>
    \A t \in told : t.gen = disk.gen => disk.saved[t.key] = t.body

\* However many normal commands are queued or executing, a control command is
\* turned away only by control commands (writer.rs enqueue).
ControlLaneReserved ==
  Len(control) + Executes("control") < ControlLimit => Total < Capacity

\* What the store keeps through retries, crashes, backups and restores: the
\* six above.
StoreIsSound ==
  /\ TypeOK
  /\ PartsAreRequested /\ JournalReplays /\ LiveIndexIsExact /\ RunsAreRecovered
  /\ AnsweredIsInTheStore /\ ControlLaneReserved

\* run_index.rs says of the index at a start: "a ledger written by a revision
\* that did not keep the index, or kept it differently, is corrected before
\* use".  Then every run that executes while a runtime serves is its own.
IndexIsCorrectedBeforeUse == owner = "runtime" => ExecutesHere

\* A task the writer accepted is executed in the end, a normal one in a stream
\* of control commands too, unless the writer goes down (the burst limit).
AcceptedIsTaken ==
  \A c \in Clients, n \in 1..Tickets :
    (\E i \in DOMAIN normal : normal[i].client = c /\ normal[i].ticket = n)
      ~> ((\A i \in DOMAIN normal : normal[i].client # c \/ normal[i].ticket # n)
          \/ status = "down")

\* The ledger the store offers its clients: the answers of the present lineage,
\* and the cuts of the live file and of the copy.
Begun(d) == [r \in Runs |-> d.runs[r].parts]

Heard ==
  IF owner = "restore" THEN {}
  ELSE {<<t.key, t.body>> : t \in {u \in told : u.gen = disk.gen}}

Kept == IF backup = None THEN None ELSE [done |-> backup.saved, parts |-> Begun(backup)]

Ledger == INSTANCE RequestLedger WITH
  done  <- disk.saved,
  parts <- Begun(disk),
  told  <- Heard,
  copy  <- Kept

\* The store and its writer offer exactly the request ledger: one body for each
\* key, performed once, answered the same for the life of the lineage.
ImplementsLedger == Ledger!LedgerSpec
=============================================================================
