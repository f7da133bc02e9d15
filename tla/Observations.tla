---------------------------- MODULE Observations ----------------------------
(***************************************************************************)
(* What a cell knows of its sources, and the runs that depend on it.  A    *)
(* host reads sources and reports cuts of readings; the engine stores the  *)
(* newest reading of each source, notices contradicted evidence, disputes  *)
(* and changed source generations, and revokes the cells that depend on    *)
(* them.  A watchdog revokes runs whose maintained condition has aged out. *)
(*                                                                         *)
(* Source: crates/rx-application/src/engine/{observation,admission,        *)
(* invalidation}.rs, crates/rx-domain/src/condition.rs and                 *)
(* crates/rx-host-client/src/observation.rs.                               *)
(*                                                                         *)
(* Abstractions.  One host serves all sources.  Conditions are the shape   *)
(* All of Any of "the source reads true": both groups, nested.  Schema and *)
(* unit mismatches make a report invalid and are left out.  A host read    *)
(* (ingest_host_read) is a report that covers every source of the cell;    *)
(* its link checks belong to HostLink.  Readings may be repeated, delayed  *)
(* and reordered.  Of a start, only the checks of start_conditions are     *)
(* here (RunStart has the rest).  The clock is the machine's: a restarted  *)
(* process reads on in it and finds the stored readings as old as they     *)
(* are; after a reboot it has another name and starts again.               *)
(***************************************************************************)
EXTENDS Naturals, FiniteSets, FiniteSetsExt

CONSTANTS
    Cells, Sources,
    Nil,
    Specs,        \* [Cells -> SUBSET Sources]: fact_specs
    Closure,      \* [Cells -> SUBSET Cells]: affected_cells
    Start,        \* [Cells -> SUBSET SUBSET Sources]: start_conditions
    Maintained,   \* [Cells -> SUBSET SUBSET Sources]: maintained_conditions
    Kinds,        \* the qualities and values a reading may have
    MaxAge, MaxUncertainty,
    MaxGap,       \* watchdog period and the time the writer may be busy
    MaxTime, MaxReadings, MaxConflicts, MaxGeneration, MaxBoots, MaxEpoch

\* A reading as the host issues it.
Reading ==
    [id : 1 .. MaxReadings, source : Sources, generation : 0 .. MaxGeneration,
     clock : 0 .. MaxBoots, at : 0 .. MaxTime, uncertainty : 0 .. MaxUncertainty,
     good : BOOLEAN, disputed : BOOLEAN, value : BOOLEAN]

ASSUME ConfigurationAssumption ==
    /\ Specs \in [Cells -> SUBSET Sources]
    /\ \A c \in Cells :
          /\ c \in Closure[c]
          /\ \A d \in Closure[c] : Closure[d] = Closure[c]
          /\ {} \notin Start[c] \cup Maintained[c] /\ Start[c] # {}
          /\ UNION (Start[c] \cup Maintained[c]) \subseteq Specs[c]
    /\ Nil \notin Reading
    /\ {MaxAge, MaxUncertainty, MaxGap, MaxTime, MaxReadings, MaxGeneration,
        MaxBoots, MaxEpoch} \subseteq Nat

VARIABLES
    now, clock,   \* the time since the machine booted and the clock's name
    lastCheck,    \* when the watchdog last looked
    generation,   \* [Sources -> Nat]: what the device really is (external)
    sessions,     \* [Cells -> [Sources -> Nat]]: registered source_sessions
    sent,         \* readings the host has issued (external)
    db,           \* facts, evidence, incidents, runs, blocks and epochs
    begun         \* history: when a run started, and what was known then

vars == <<now, clock, lastCheck, generation, sessions, sent, db, begun>>

RunState == {"Prepared", "Arming", "Executing", "RecoveryRequired"}

-----------------------------------------------------------------------------
(* condition.rs.                                                            *)

Unknown == [verdict |-> "Unknown", until |-> Nil]

\* The reading may be used at time t.
Usable(f, c, t) ==
    /\ f.good /\ ~f.disputed
    /\ f.generation = sessions[c][f.source]
    /\ f.clock = clock /\ f.at <= t
    /\ (t - f.at) + f.uncertainty <= MaxAge

ValidUntil(f) == f.at + MaxAge - f.uncertainty

Leaf(d, c, s, t) ==
    LET f == d.fact[c][s] IN
    IF f = Nil \/ ~Usable(f, c, t) THEN Unknown
    ELSE IF f.value THEN [verdict |-> "Pass", until |-> ValidUntil(f)]
    ELSE [verdict |-> "Fail", until |-> Nil]

Verdicts(results) == {r.verdict : r \in results}

\* A slip for the mutation runs: every passing child limits the group.
AnyOfShortest(results) ==
    CASE "Pass" \in Verdicts(results) ->
            [verdict |-> "Pass",
             until |-> Min({r.until : r \in {p \in results : p.verdict = "Pass"}})]
      [] OTHER -> Unknown

\* The passing child that lasts longest supports the group.
AnyOf(results) ==
    CASE "Pass" \in Verdicts(results) ->
            [verdict |-> "Pass",
             until |-> Max({r.until : r \in {p \in results : p.verdict = "Pass"}})]
      [] "Pass" \notin Verdicts(results) /\ "Unknown" \in Verdicts(results) -> Unknown
      [] Verdicts(results) = {"Fail"} -> [verdict |-> "Fail", until |-> Nil]

AllOf(results) ==
    CASE "Fail" \in Verdicts(results) -> [verdict |-> "Fail", until |-> Nil]
      [] "Fail" \notin Verdicts(results) /\ "Unknown" \in Verdicts(results) -> Unknown
      [] Verdicts(results) = {"Pass"} ->
            [verdict |-> "Pass", until |-> Min({r.until : r \in results})]

\* evaluate_raw: the conditions of cell c with what store d holds, at time t.
Evaluate(d, c, conditions, t) ==
    AllOf({AnyOf({Leaf(d, c, s, t) : s \in clause}) : clause \in conditions})

Passes(d, c, conditions, t) == Evaluate(d, c, conditions, t).verdict = "Pass"

-----------------------------------------------------------------------------
(* Revocation.                                                              *)

\* What is stopped with the cells.
Group(cells) == UNION {Closure[c] : c \in cells}

\* invalidate_closure of each of the cells, every cell once.
Revoked(d, cells, reason) ==
    [d EXCEPT
        !.run = [c \in Cells |-> IF c \in Group(cells) THEN "RecoveryRequired" ELSE @[c]],
        !.blocks = [c \in Cells |-> IF c \in Group(cells) THEN @[c] \cup {reason} ELSE @[c]],
        !.epoch = [c \in Cells |-> IF c \in Group(cells) THEN @[c] + 1 ELSE @[c]]]

\* A slip for the mutation runs: only cells that must maintain the source.
DependentsMaintaining(s) == {c \in Cells : s \in UNION Maintained[c]}

Dependents(s) == {c \in Cells : s \in Specs[c]}

Active(d, c) == d.run[c] \in {"Arming", "Executing"}

\* A slip for the mutation runs: an unknown condition is not a lost one.
MaintainedLostFailed(d, c) ==
    /\ Maintained[c] # {} /\ Active(d, c)
    /\ Evaluate(d, c, Maintained[c], now).verdict = "Fail"

MaintainedLost(d, c) ==
    Maintained[c] # {} /\ Active(d, c) /\ ~Passes(d, c, Maintained[c], now)

-----------------------------------------------------------------------------
(* record_fact: what becomes of reading r, reported for cell c, on store d. *)

\* One identity, two contents: recorded and revoked once per content.
Contradicts(d, r) == d.evidence[r.id] \notin {Nil, r}

ChangedGeneration(c, r) == sessions[c][r.source] # r.generation \/ r.clock # clock

\* Duplicate and Historical: the stored fact stays.
PassedOver(d, c, r) ==
    LET old == d.fact[c][r.source] IN
    /\ old # Nil
    /\ \/ old.id = r.id
       \/ ~ChangedGeneration(c, r) /\ old.clock = r.clock /\ old.at > r.at

\* The reading becomes the cell's fact; of another generation, unusable.
Kept(d, c, r) == ~Contradicts(d, r) /\ ~PassedOver(d, c, r)

AsFact(c, r) == IF ChangedGeneration(c, r) THEN [r EXCEPT !.good = FALSE] ELSE r

Loss(c, r) == <<c, r.source, r.generation, r.clock, sessions[c][r.source]>>

AlreadyDisputed(d, c, r) ==
    LET old == d.fact[c][r.source] IN
    old # Nil /\ old.disputed /\ old.generation = r.generation

\* Why the cells that depend on the source stop: once per contradicting
\* content, per generation lost and per dispute that is not on record.
Conflicting(d, c, r) ==
    \/ Contradicts(d, r) /\ r \notin d.incidents
    \/ Kept(d, c, r) /\ ~ChangedGeneration(c, r) /\ r.disputed /\ ~AlreadyDisputed(d, c, r)

Losing(d, c, r) == Kept(d, c, r) /\ ChangedGeneration(c, r) /\ Loss(c, r) \notin d.losses

Reason(d, c, r) == IF Conflicting(d, c, r) THEN "IntegrityConflict" ELSE "DeviceRestart"

\* record_fact for every reading of the batch.  The batch names each source
\* and each identity once, so no reading is judged by another one's effect:
\* one step stands for the loop.
Recorded(d, c, batch) ==
    LET noted    == {r \in batch : ~Contradicts(d, r)}
        kept     == {r \in batch : Kept(d, c, r)}
        stops    == {r \in batch : Conflicting(d, c, r) \/ Losing(d, c, r)}
        stopping(x) == {r \in stops : x \in Group(Dependents(r.source))}
    IN  [d EXCEPT
            !.evidence = [i \in 1 .. MaxReadings |->
                             IF \E r \in noted : r.id = i
                               THEN CHOOSE r \in noted : r.id = i ELSE @[i]],
            !.fact[c] = [s \in Sources |->
                             IF \E r \in kept : r.source = s
                               THEN AsFact(c, CHOOSE r \in kept : r.source = s) ELSE @[s]],
            !.incidents = @ \cup (batch \ noted),
            !.losses = @ \cup {Loss(c, r) : r \in {q \in kept : ChangedGeneration(c, q)}},
            !.run = [x \in Cells |-> IF stopping(x) # {} THEN "RecoveryRequired" ELSE @[x]],
            !.blocks = [x \in Cells |-> @[x] \cup {Reason(d, c, r) : r \in stopping(x)}],
            !.epoch = [x \in Cells |-> @[x] + Cardinality(stopping(x))]]

LostRevoked(d, c, batch) ==
    IF MaintainedLost(d, c)
      THEN Revoked(d, UNION {Dependents(r.source) : r \in batch}, "ConditionLost")
      ELSE d

\* accept_facts: the whole cut is recorded, then judged.
AcceptFacts(d, c, batch) ==
    LostRevoked(Recorded(d, c, batch), c, batch)

-----------------------------------------------------------------------------
Init ==
    /\ now = 0 /\ clock = 0 /\ lastCheck = 0
    /\ generation = [s \in Sources |-> 0]
    /\ sessions = [c \in Cells |-> [s \in Sources |-> 0]]
    /\ sent = {}
    /\ db = [fact |-> [c \in Cells |-> [s \in Sources |-> Nil]],
             evidence |-> [i \in 1 .. MaxReadings |-> Nil],
             incidents |-> {}, losses |-> {},
             run |-> [c \in Cells |-> "Prepared"],
             blocks |-> [c \in Cells |-> {}],
             epoch |-> [c \in Cells |-> 0]]
    /\ begun = [c \in Cells |-> Nil]

Issued == {r.id : r \in sent}

\* The host reads a source (external).
Acquire(s, kind, u) ==
    /\ Cardinality(Issued) < MaxReadings
    /\ sent' = sent \cup
          {[id |-> Cardinality(Issued) + 1, source |-> s,
            generation |-> generation[s], clock |-> clock, at |-> now,
            uncertainty |-> u, good |-> kind # "bad", disputed |-> kind = "disputed",
            value |-> kind # "no"]}
    /\ UNCHANGED <<now, clock, lastCheck, generation, sessions, db, begun>>

\* The host gives an identity a second content (external).
Contradict(r) ==
    /\ Cardinality(sent) < Cardinality(Issued) + MaxConflicts
    /\ sent' = sent \cup {[r EXCEPT !.value = ~@]}
    /\ UNCHANGED <<now, clock, lastCheck, generation, sessions, db, begun>>

\* The device behind a source restarts (external).
DeviceRestart(s) ==
    /\ generation[s] < MaxGeneration
    /\ generation' = [generation EXCEPT ![s] = @ + 1]
    /\ UNCHANGED <<now, clock, lastCheck, sessions, sent, db, begun>>

Batches(c) ==
    {b \in SUBSET {r \in sent : r.source \in Specs[c]} :
        /\ b # {}
        /\ \A q, r \in b : q.source = r.source \/ q.id = r.id => q = r}

Report(c, batch) ==
    /\ db' = AcceptFacts(db, c, batch)
    /\ \A d \in Cells : db'.epoch[d] <= MaxEpoch
    /\ UNCHANGED <<now, clock, lastCheck, generation, sessions, sent, begun>>

\* check_maintained_conditions.
CheckMaintained ==
    /\ db' = Revoked(db, {c \in Cells : MaintainedLost(db, c)}, "ConditionLost")
    /\ lastCheck' = now
    /\ UNCHANGED <<now, clock, generation, sessions, sent, begun>>

\* The runtime stops itself rather than leave the watchdog unanswered longer.
Tick ==
    /\ now < MaxTime /\ now - lastCheck < MaxGap
    /\ now' = now + 1
    /\ UNCHANGED <<clock, lastCheck, generation, sessions, sent, db, begun>>

\* The process was started again: the machine's clock ran on.
ProcessRestart == lastCheck' = now /\ UNCHANGED <<now, clock>>

\* The machine was: its clock has another name (the kernel's boot id).
MachineReboot == clock < MaxBoots /\ clock' = clock + 1 /\ now' = 0 /\ lastCheck' = 0

\* A stop, a crash or a watchdog that gave up, and the runtime start after it.
Restart ==
    /\ \A c \in Cells : db.epoch[c] < MaxEpoch
    /\ ProcessRestart \/ MachineReboot
    /\ db' = Revoked(db, Cells, "RuntimeRestart")
    /\ UNCHANGED <<generation, sessions, sent, begun>>

\* start_run, and the last Arm acknowledgment that creates the mandate.
RequestStart(c) ==
    /\ db.run[c] = "Prepared" /\ db.blocks[c] = {} /\ db.epoch[c] < MaxEpoch
    /\ Passes(db, c, Start[c], now)
    /\ db' = [db EXCEPT !.run[c] = "Arming"]
    /\ UNCHANGED <<now, clock, lastCheck, generation, sessions, sent, begun>>

Incidents(d, c) ==
    [conflicts |-> {r \in d.incidents : r.source \in Specs[c]},
     losses    |-> {l \in d.losses : l[2] \in Specs[c]},
     disputed  |-> {s \in Specs[c] : /\ d.fact[c][s] # Nil /\ d.fact[c][s].disputed
                                     /\ d.fact[c][s].generation = sessions[c][s]}]

CommitStart(c) ==
    /\ db.run[c] = "Arming" /\ db.blocks[c] = {}
    /\ Passes(db, c, Start[c], now)
    /\ db' = [db EXCEPT !.run[c] = "Executing"]
    /\ begun' = [begun EXCEPT ![c] = [at |-> now, known |-> Incidents(db, c)]]
    /\ UNCHANGED <<now, clock, lastCheck, generation, sessions, sent>>

\* Readmission of the host with the sources as they are now, requalification
\* of the cell and a new run (HostLink, QualificationActivation).
Readmit(c) ==
    /\ db.run[c] = "RecoveryRequired"
    /\ sessions' = [sessions EXCEPT ![c] = generation]
    /\ db' = [db EXCEPT !.run[c] = "Prepared", !.blocks[c] = {}]
    /\ UNCHANGED <<now, clock, lastCheck, generation, sent, begun>>

Next ==
    \/ \E s \in Sources, k \in Kinds, u \in 0 .. MaxUncertainty : Acquire(s, k, u)
    \/ \E r \in sent : Contradict(r)
    \/ \E s \in Sources : DeviceRestart(s)
    \/ \E c \in Cells : \E b \in Batches(c) : Report(c, b)
    \/ CheckMaintained
    \/ Tick
    \/ Restart
    \/ \E c \in Cells : RequestStart(c) \/ CommitStart(c) \/ Readmit(c)

Spec == Init /\ [][Next]_vars

-----------------------------------------------------------------------------
Losses == Cells \X Sources \X (0 .. MaxGeneration) \X (0 .. MaxBoots) \X (0 .. MaxGeneration)

Store ==
    [fact : [Cells -> [Sources -> Reading \cup {Nil}]],
     evidence : [1 .. MaxReadings -> Reading \cup {Nil}],
     incidents : SUBSET Reading, losses : SUBSET Losses,
     run : [Cells -> RunState],
     blocks : [Cells -> SUBSET {"IntegrityConflict", "DeviceRestart", "ConditionLost",
                                "RuntimeRestart"}],
     epoch : [Cells -> Nat]]

Beginning ==
    [at : Nat, known : [conflicts : SUBSET Reading, losses : SUBSET Losses,
                        disputed : SUBSET Sources]]

\* Types: evidence and incidents are readings the host issued, and the
\* watchdog's last look is never ahead of the clock.
TypeOK ==
    /\ now \in 0 .. MaxTime /\ clock \in 0 .. MaxBoots /\ lastCheck \in 0 .. now
    /\ generation \in [Sources -> 0 .. MaxGeneration]
    /\ sessions \in [Cells -> [Sources -> 0 .. MaxGeneration]]
    /\ sent \subseteq Reading
    /\ db \in Store
    /\ \A i \in 1 .. MaxReadings : db.evidence[i] \in sent \cup {Nil}
    /\ db.incidents \subseteq sent
    /\ begun \in [Cells -> Beginning \cup {Nil}]

\* A run does not outlive what its maintained condition rests on by more
\* than one watchdog gap: at some moment since the last check the condition
\* passed on readings that were then fresh, of the registered generation and
\* undisputed, or the run started.  Neither silence nor a repeated or late
\* reading prolongs it.
RunsOnLivingFacts ==
    \A c \in Cells :
        db.run[c] = "Executing" /\ Maintained[c] # {} =>
            \E t \in lastCheck .. now :
                Passes(db, c, Maintained[c], t) \/ t = begun[c].at

\* A reading from before a reboot, of the registered generation, was kept for
\* the source: the loss it recorded is not recorded again.
Shadowed(c, s) ==
    LET g == sessions[c][s] IN
    \E k \in (0 .. MaxBoots) \ {clock} : <<c, s, g, k, g>> \in db.losses

\* A run never executes past a contradiction or a lost generation of a source
\* its cell lists, whichever cell it was reported for, nor past a dispute that
\* was not on record when it started.  One dispute escapes: where a reading
\* from before a reboot has been kept before, a disputed one is kept again without
\* revoking anything, and the next dispute counts as already on record
\* (already_disputed does not compare clocks).
RunOutlivesNoIncident ==
    \A c \in Cells :
        db.run[c] = "Executing" =>
            /\ Incidents(db, c).conflicts = begun[c].known.conflicts
            /\ Incidents(db, c).losses = begun[c].known.losses
            /\ \A s \in Incidents(db, c).disputed \ begun[c].known.disputed : Shadowed(c, s)

\* A cut reported again at once, its reply having been lost, finds nothing
\* left to do: no epoch moves and no cell is revoked a second time.
RepeatedReportIsIdle ==
    \A c \in Cells : \A b \in Batches(c) :
        LET once == AcceptFacts(db, c, b) IN AcceptFacts(once, c, b) = once

\* valid_until of an evaluation is the exact moment the verdict expires if
\* nothing more is reported.
ValidUntilIsExact ==
    \A c \in Cells :
        LET e == Evaluate(db, c, Maintained[c], now) IN
        Maintained[c] # {} /\ e.verdict = "Pass" =>
            \A t \in now .. now + MaxAge + MaxUncertainty + 1 :
                Passes(db, c, Maintained[c], t) <=> t <= e.until

\* What a run rests on is alive: the two about passing conditions, whatever
\* is reported late, twice or not at all.
FactsAreAlive == RunsOnLivingFacts /\ ValidUntilIsExact

\* A report that contradicts, restarts or disputes a source ends the runs
\* that know it, and only once.
IncidentsEndRuns == TypeOK /\ RunOutlivesNoIncident /\ RepeatedReportIsIdle

\* A lapsed condition stops the run unless fresh readings arrive first.
LapseIsNoticed ==
    \A c \in {d \in Cells : Maintained[d] # {}} :
        db.run[c] = "Executing" /\ ~Passes(db, c, Maintained[c], now)
            ~> \/ db.run[c] # "Executing"
               \/ Passes(db, c, Maintained[c], now)
=============================================================================
