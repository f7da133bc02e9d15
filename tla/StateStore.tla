------------------------------ MODULE StateStore ------------------------------
(* The platform's durable store: entity rows with revisions, the results     *)
(* saved per request key, the control journal kept by the unit of work, the  *)
(* index of live runs and the store generation, as one transaction changes   *)
(* them, and the offline backup and restore of the whole file.               *)
EXTENDS Naturals, Sequences, FiniteSets, SequencesExt

CONSTANTS
  Keys,          \* request keys of one client namespace and method
  Runs,          \* the runs the requests are about, all of one cell
  None,
  OldRuns,       \* runs a revision without journal and index left behind
  MaxRestores, MaxBoots

Ops == {"create", "part", "end"}
Body == [op : Ops, run : Runs]

\* A run row: its state, its revision, the parts begun in it, and the start of
\* the runtime whose executor session it executes in (0: none, or a runtime
\* before the first one here).  A run is prepared until its first part.
Row == [state : {"absent", "prepared", "executing", "recovery", "ended"},
        rev : Nat, parts : Nat, session : 0..MaxBoots]
Absent == [state |-> "absent", rev |-> 0, parts |-> 0, session |-> 0]

\* The database file: run rows, saved requests, the journal and whether it was
\* seeded, the live-run index and the store generation.
Disk ==
  [runs : [Runs -> Row], saved : [Keys -> Body \cup {None}],
   seeded : BOOLEAN, log : Seq([run : Runs, row : Row]),
   live : SUBSET Runs, gen : 0..MaxRestores]

ASSUME StoreConstants ==
  /\ IsFiniteSet(Keys) /\ IsFiniteSet(Runs)
  /\ None \notin Body /\ None \notin Disk
  /\ None \notin {"runtime", "restore"}
  /\ OldRuns \subseteq Runs
  /\ MaxRestores \in Nat /\ MaxBoots \in Nat

VARIABLES
  disk,     \* the database file
  backup,   \* the last backup file, or None
  owner,    \* who holds the writer lock: None, "runtime" or "restore"
  boots,    \* runtime starts so far
  restores  \* restores begun so far; names the generation a restore makes

storeVars == <<disk, backup, owner, boots, restores>>

\* A store an older revision wrote: entities, but no journal and no index.
StoreInit ==
  /\ \E old \in [OldRuns -> {"prepared", "executing", "ended"}] :
       disk = [runs |-> [r \in Runs |->
                           IF r \in OldRuns THEN [Absent EXCEPT !.state = old[r], !.rev = 1]
                           ELSE Absent],
               saved |-> [k \in Keys |-> None],
               seeded |-> FALSE,
               log |-> << >>,
               live |-> {},
               gen |-> 0]
  /\ backup = None
  /\ owner = None
  /\ boots = 0
  /\ restores = 0

----------------------------------------------------------------------------
(* The unit of work: Journaled over one SQLite transaction.                  *)

Live(row) == row.state \in {"prepared", "executing", "recovery"}

\* put: the row moves to the next revision; the live-run set follows it.
Put(d, r, row) ==
  [d EXCEPT !.runs[r] = [row EXCEPT !.rev = d.runs[r].rev + 1],
            !.live = IF Live(row) THEN @ \cup {r} ELSE @ \ {r}]

\* The control events of a transaction: each changed run once, as it was left,
\* and, in the first transaction ever journaled, every run there is.
Entry(d, r) == [run |-> r, row |-> d.runs[r]]

Changed(old, new) == {r \in Runs : new.runs[r] # old.runs[r]}

Finished(old, new) ==
  LET seeds == IF old.seeded THEN {} ELSE {r \in Runs : old.runs[r] # Absent}
      rows  == SetToSeq(Changed(old, new) \cup seeds)
  IN [new EXCEPT !.log = @ \o [i \in 1..Len(rows) |-> Entry(new, rows[i])],
                 !.seeded = TRUE]

\* The run executes in an executor session of this runtime.
ExecutesNow(row) == row.state = "executing" /\ row.session = boots

\* What the handlers require of the run before they write it: a part needs the
\* executor of this runtime; a run that executes ends by its last part, one
\* that does not is abandoned.
Legal(d, b) ==
  LET row == d.runs[b.run]
  IN CASE b.op = "create" -> row.state = "absent"
       [] b.op = "part"   -> row.state = "prepared" \/ ExecutesNow(row)
       [] b.op = "end"    -> row.state \in {"prepared", "recovery"} \/ ExecutesNow(row)

Performed(d, b) ==
  LET row == d.runs[b.run]
  IN Put(d, b.run,
         CASE b.op = "create" -> [row EXCEPT !.state = "prepared"]
           [] b.op = "part"   -> [row EXCEPT !.state = "executing", !.parts = @ + 1,
                                             !.session = boots]
           [] b.op = "end"    -> [row EXCEPT !.state = "ended", !.session = 0])

\* prior: the saved request answers the same body and refuses another.
Prior(d, k, b) ==
  CASE d.saved[k] = None -> "none"
    [] d.saved[k] = b    -> "same"
    [] OTHER             -> "conflict"

\* The rows, the journal entries and the saved request commit together.
Committed(d, k, b) ==
  Finished(d, [Performed(d, b) EXCEPT !.saved[k] = b])

\* A handler's answer to body b under key k.  A refusal changes nothing, and
\* is not saved.
Verdict(d, k, b) ==
  CASE Prior(d, k, b) = "conflict"                  -> "conflict"
    [] Prior(d, k, b) = "none" /\ ~Legal(d, b)      -> "rejected"
    [] OTHER                                        -> "ok"

\* A slip for the mutation runs: the saved answer is looked up after the work.
TransactedAgain(d, k, b) ==
  IF Prior(d, k, b) # "conflict" /\ Legal(d, b) THEN Committed(d, k, b) ELSE d

Transacted(d, k, b) ==
  IF Prior(d, k, b) = "none" /\ Legal(d, b) THEN Committed(d, k, b) ELSE d

----------------------------------------------------------------------------
(* The processes that open the store.                                        *)

LiveRuns(d) == {r \in Runs : Live(d.runs[r])}

\* invalidate_cell at a start: the runs the stored index names lose their
\* session, whatever other runs there are.
Invalidated(d) ==
  [d EXCEPT !.runs = [r \in Runs |->
     IF r \in d.live /\ d.runs[r].state \in {"prepared", "executing"}
     THEN [d.runs[r] EXCEPT !.state = "recovery", !.session = 0, !.rev = @ + 1]
     ELSE d.runs[r]]]

\* A slip for the mutation runs: the index is left as the file had it.
BootedUnindexed(d) == Finished(d, Invalidated(d))

\* The start transaction: the runs are invalidated, and only then is the index
\* of live runs rebuilt from the runs themselves.
Booted(d) ==
  LET new == Invalidated(d)
  IN Finished(d, [new EXCEPT !.live = LiveRuns(new)])

\* rx-platformd backup: holds the lock for the copy, so it never runs beside
\* a runtime.  A destination must be new: here the last copy made.
Backup ==
  /\ owner = None
  /\ boots > 0
  /\ backup' = disk
  /\ UNCHANGED <<disk, owner, boots, restores>>

\* rx-platformd restore, to the rename: the copy is verified, no runtime holds
\* the lock, and the file is replaced.  No runtime is started meanwhile (an
\* operator's command on a stopped installation), which `owner` stands for.
RestoreRename ==
  /\ owner = None
  /\ backup # None
  /\ restores < MaxRestores
  /\ disk' = backup
  /\ owner' = "restore"
  /\ restores' = restores + 1
  /\ UNCHANGED <<backup, boots>>

\* restore_store: a fresh generation, in a transaction of its own.
Rotated(d) == [d EXCEPT !.gen = restores]

RestoreRotate ==
  /\ owner = "restore"
  /\ disk' = Rotated(disk)
  /\ owner' = None
  /\ UNCHANGED <<backup, boots, restores>>

\* The restore command dies after the rename and before the rotation.
RestoreDies ==
  /\ owner = "restore"
  /\ owner' = None
  /\ UNCHANGED <<disk, backup, boots, restores>>
=============================================================================
