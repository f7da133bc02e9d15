----------------------------- MODULE WriterProofs -----------------------------
(* The store and its writer keep what they promise, for any number of        *)
(* clients, keys, runs, restores and restarts and any size of the lanes, and *)
(* offer their clients the abstract request ledger.                          *)
EXTENDS StateWriter, FiniteSetTheorems, SequenceTheorems, TLAPS

----------------------------------------------------------------------------
(* The inductive invariant.                                                  *)

\* What one database file keeps, the live one and the copy.
FileSound(d) ==
  /\ \A r \in Runs : d.runs[r].parts = Cardinality(Asking(d, r))
  /\ d.seeded => \A r \in Runs : Replayed(d, r, d.runs[r])
  /\ ~d.seeded => d.log = << >>

\* The live-run index of a file names its live runs.
Indexed(d) == d.live = LiveRuns(d)

\* Every run of a file that executes does so in the n-th runtime.
Recovered(d, n) ==
  \A r \in Runs : d.runs[r].state = "executing" => d.runs[r].session = n

\* The copy and the counters of lineages and starts.
LineageType ==
  /\ backup \in Disk \cup {None}
  /\ restores \in 0..MaxRestores
  /\ boots \in 0..MaxBoots
  /\ told \subseteq [key : Keys, body : Body, gen : 0..MaxRestores]

\* A generation is not used before the restore that makes it, and between the
\* two writes of a restore nobody has heard of the new one.
LineageKept ==
  /\ disk.gen <= restores
  /\ backup # None => backup.gen <= restores
  /\ \A t \in told : t.gen <= restores
  /\ owner = "restore" => disk.gen < restores /\ \A t \in told : t.gen < restores

\* Each lane holds tasks of its priority, and no more than its limit.
Lane(s, p) == s \in Seq(Task) /\ \A i \in DOMAIN s : Priority(s[i].body) = p

LanesKept ==
  /\ Lane(control, "control") /\ Lane(normal, "normal")
  /\ Len(control) + Executes("control") <= ControlLimit
  /\ Len(normal) + Executes("normal") <= NormalLimit

\* A task executes only in a runtime that is up; a good verdict is in the store.
VerdictKept ==
  /\ status = "down" => executing = None
  /\ verdict # None => executing # None
  /\ verdict = "ok" => disk.saved[executing.key] = executing.body

WriterInv ==
  /\ TypeOK /\ LineageType
  /\ FileSound(disk) /\ (backup # None => FileSound(backup))
  /\ LiveIndexIsExact /\ AnsweredIsInTheStore
  /\ LineageKept /\ LanesKept /\ VerdictKept

\* A start leaves its file indexed, and a copy is made after a start: the next
\* start finds every live run in the index, of a restored file too.
IndexKept ==
  /\ boots > 0 => Indexed(disk)
  /\ backup # None => boots > 0 /\ Indexed(backup)
  /\ owner = "runtime" => boots > 0
  /\ RunsAreRecovered

----------------------------------------------------------------------------
(* The operators of the store.                                               *)

\* Any finite set of runs can be listed: the rows of a journal entry batch.
LEMMA ListedRuns ==
  ASSUME NEW S, S \subseteq Runs
  PROVE  /\ SetToSeq(S) \in Seq(S)
         /\ \A r \in S : \E i \in 1..Len(SetToSeq(S)) : SetToSeq(S)[i] = r
         /\ \A i, j \in 1..Len(SetToSeq(S)) : SetToSeq(S)[i] = SetToSeq(S)[j] => i = j
<1> DEFINE n == Cardinality(S)
<1>1. IsFiniteSet(S) /\ n \in Nat
  BY StoreConstants, FS_Subset, FS_CardinalityType
<1>2. PICK g : g \in Bijection(1..n, S)
  BY <1>1, FS_CardinalityType DEF ExistsBijection
<1>3. g \in [1..n -> S] /\ IsInjective(g)
  BY <1>2 DEF Bijection, Injection, IsInjective
<1>4. SetToSeq(S) \in [1..n -> S] /\ IsInjective(SetToSeq(S))
  BY <1>3 DEF SetToSeq
<1>5. SetToSeq(S) \in Seq(S) /\ Len(SetToSeq(S)) = n
  BY <1>1, <1>4, IsASeq, LenProperties
<1>6. SetToSeq(S) \in Surjection(1..n, S)
  <2>1. SetToSeq(S) \in Injection(1..n, S)
    BY <1>4 DEF Injection, IsInjective
  <2>2. Cardinality(1..n) = n
    BY <1>1, FS_Interval
  <2> QED BY <1>1, <2>1, <2>2, FS_Injection
<1> QED BY <1>4, <1>5, <1>6 DEF Surjection, IsInjective

\* Where the elements of a concatenation come from.
LEMMA Concatenated ==
  ASSUME NEW E, NEW s \in Seq(E), NEW t \in Seq(E)
  PROVE  /\ s \o t \in Seq(E)
         /\ \A i \in DOMAIN s : i \in DOMAIN (s \o t) /\ (s \o t)[i] = s[i]
         /\ \A i \in 1..Len(t) : Len(s) + i \in DOMAIN (s \o t) /\ (s \o t)[Len(s) + i] = t[i]
         /\ \A j \in DOMAIN (s \o t) :
              j \in DOMAIN s \/ \E i \in 1..Len(t) : j = Len(s) + i
<1>1. /\ s \o t \in Seq(E) /\ Len(s \o t) = Len(s) + Len(t)
      /\ Len(s) \in Nat /\ Len(t) \in Nat
      /\ DOMAIN s = 1..Len(s) /\ DOMAIN (s \o t) = 1..Len(s \o t)
  BY ConcatProperties, LenProperties
<1>2. \A i \in 1..(Len(s) + Len(t)) :
        (s \o t)[i] = IF i <= Len(s) THEN s[i] ELSE t[i - Len(s)]
  BY ConcatProperties
<1>3. ASSUME NEW i \in DOMAIN s
      PROVE  i \in DOMAIN (s \o t) /\ (s \o t)[i] = s[i]
  BY <1>1, <1>2
<1>4. ASSUME NEW i \in 1..Len(t)
      PROVE  Len(s) + i \in DOMAIN (s \o t) /\ (s \o t)[Len(s) + i] = t[i]
  <2>1. /\ Len(s) + i \in 1..(Len(s) + Len(t)) /\ ~(Len(s) + i <= Len(s))
        /\ (Len(s) + i) - Len(s) = i
    BY <1>1
  <2> QED BY <1>1, <1>2, <2>1
<1>5. ASSUME NEW j \in DOMAIN (s \o t), j \notin DOMAIN s
      PROVE  \E i \in 1..Len(t) : j = Len(s) + i
  <2>1. j - Len(s) \in 1..Len(t) /\ j = Len(s) + (j - Len(s))
    BY <1>1, <1>5
  <2> QED BY <2>1
<1> QED BY <1>1, <1>3, <1>4, <1>5

\* finish_transaction: the journal gains the changed rows as they were left, and
\* replaying it arrives at them, whether it was seeded before or is now.
LEMMA FinishedFile ==
  ASSUME NEW old \in Disk, NEW new \in Disk, new.log = old.log,
         old.seeded => \A r \in Runs : Replayed(old, r, old.runs[r]),
         ~old.seeded => old.log = << >>
  PROVE  /\ Finished(old, new) \in Disk
         /\ Finished(old, new).runs = new.runs
         /\ Finished(old, new).saved = new.saved
         /\ Finished(old, new).live = new.live
         /\ Finished(old, new).gen = new.gen
         /\ Finished(old, new).seeded
         /\ \A r \in Runs : Replayed(Finished(old, new), r, new.runs[r])
<1> DEFINE seeds == IF old.seeded THEN {} ELSE {r \in Runs : old.runs[r] # Absent}
           S == Changed(old, new) \cup seeds
           rows == SetToSeq(S)
           more == [i \in 1..Len(rows) |-> Entry(new, rows[i])]
           E == [run : Runs, row : Row]
           d == Finished(old, new)
<1>1. /\ S \subseteq Runs
      /\ \A r \in Runs : new.runs[r] # old.runs[r] => r \in S
      /\ \A r \in Runs : ~old.seeded /\ old.runs[r] # Absent => r \in S
  BY DEF Changed
<1> HIDE DEF seeds, S
<1>2. /\ rows \in Seq(S) /\ Len(rows) \in Nat
      /\ \A i \in 1..Len(rows) : rows[i] \in S
      /\ \A r \in S : \E i \in 1..Len(rows) : rows[i] = r
      /\ \A i, j \in 1..Len(rows) : rows[i] = rows[j] => i = j
  <2>1. /\ rows \in Seq(S)
        /\ \A r \in S : \E i \in 1..Len(rows) : rows[i] = r
        /\ \A i, j \in 1..Len(rows) : rows[i] = rows[j] => i = j
    BY <1>1, ListedRuns
  <2> QED BY <2>1, LenProperties, ElementOfSeq
<1> HIDE DEF rows
<1>3. /\ more \in Seq(E) /\ Len(more) = Len(rows)
      /\ \A i \in 1..Len(rows) : more[i].run = rows[i] /\ more[i].row = new.runs[rows[i]]
  <2>1. \A i \in 1..Len(rows) : Entry(new, rows[i]) \in E
    BY <1>1, <1>2 DEF Entry, Disk
  <2>2. more \in [1..Len(rows) -> E]
    BY <2>1
  <2>3. more \in Seq(E) /\ Len(more) = Len(rows)
    BY <1>2, <2>2, SeqDef, LenProperties
  <2> QED BY <2>3 DEF Entry
<1> HIDE DEF more
<1>4. /\ old.log \in Seq(E) /\ Len(old.log) \in Nat
      /\ DOMAIN old.log = 1..Len(old.log)
  BY LenProperties DEF Disk
<1>5. /\ old.log \o more \in Seq(E)
      /\ \A i \in DOMAIN old.log :
           i \in DOMAIN (old.log \o more) /\ (old.log \o more)[i] = old.log[i]
      /\ \A i \in 1..Len(rows) : /\ Len(old.log) + i \in DOMAIN (old.log \o more)
                                /\ (old.log \o more)[Len(old.log) + i] = more[i]
      /\ \A j \in DOMAIN (old.log \o more) :
           j \in DOMAIN old.log \/ \E i \in 1..Len(rows) : j = Len(old.log) + i
  <2> HIDE DEF E
  <2>1. /\ old.log \o more \in Seq(E)
        /\ \A i \in DOMAIN old.log :
             i \in DOMAIN (old.log \o more) /\ (old.log \o more)[i] = old.log[i]
        /\ \A i \in 1..Len(more) : /\ Len(old.log) + i \in DOMAIN (old.log \o more)
                                  /\ (old.log \o more)[Len(old.log) + i] = more[i]
        /\ \A j \in DOMAIN (old.log \o more) :
             j \in DOMAIN old.log \/ \E i \in 1..Len(more) : j = Len(old.log) + i
    BY <1>3, <1>4, Concatenated, Zenon
  <2> QED BY <2>1, <1>3
<1>6. d = [new EXCEPT !.log = old.log \o more, !.seeded = TRUE]
  BY DEF Finished, more, rows, S, seeds
<1>7. /\ d \in Disk /\ d.runs = new.runs /\ d.saved = new.saved /\ d.live = new.live
      /\ d.gen = new.gen /\ d.seeded = TRUE /\ d.log = old.log \o more
  BY <1>5, <1>6 DEF Disk
<1>8. ASSUME NEW r \in Runs PROVE Replayed(d, r, new.runs[r])
  <2> DEFINE n == Len(old.log)
  <2>1. /\ \A i \in Entries(old, r) : i \in Entries(d, r) /\ d.log[i] = old.log[i]
        /\ \A k \in 1..Len(rows) : rows[k] = r =>
             n + k \in Entries(d, r) /\ d.log[n + k].row = new.runs[r]
        /\ \A j \in Entries(d, r) :
             j \in Entries(old, r) \/ \E k \in 1..Len(rows) : j = n + k /\ rows[k] = r
    BY <1>3, <1>5, <1>7 DEF Entries
  <2>2. CASE r \in S
    <3>1. PICK k \in 1..Len(rows) : rows[k] = r
      BY <2>2, <1>2
    <3>2. n + k \in Entries(d, r) /\ d.log[n + k].row = new.runs[r]
      BY <2>1, <3>1
    <3>3. ASSUME NEW j \in Entries(d, r) PROVE j <= n + k
      <4>1. CASE j \in Entries(old, r)
        BY <1>4, <1>2, <4>1 DEF Entries
      <4>2. CASE \E i \in 1..Len(rows) : j = n + i /\ rows[i] = r
        <5>1. PICK i \in 1..Len(rows) : j = n + i /\ rows[i] = r
          BY <4>2
        <5>2. i = k
          BY <1>2, <3>1, <5>1
        <5> QED BY <1>4, <5>1, <5>2
      <4> QED BY <2>1, <4>1, <4>2
    <3> QED BY <3>2, <3>3 DEF Replayed
  <2>3. CASE r \notin S
    <3>1. \A i : i \in Entries(d, r) <=> i \in Entries(old, r)
      <4>1. \A k \in 1..Len(rows) : rows[k] # r
        BY <1>2, <2>3
      <4>2. \A j \in Entries(d, r) : j \in Entries(old, r)
        BY <2>1, <4>1
      <4>3. \A j \in Entries(old, r) : j \in Entries(d, r)
        BY <2>1
      <4> QED BY <4>2, <4>3
    <3>2. new.runs[r] = old.runs[r] /\ (~old.seeded => old.runs[r] = Absent)
      BY <1>1, <2>3
    <3>3. \A i \in Entries(old, r) : d.log[i] = old.log[i]
      BY <2>1
    <3>4. CASE old.seeded
      BY <3>1, <3>2, <3>3, <3>4 DEF Replayed
    <3>5. CASE ~old.seeded
      <4>1. Entries(old, r) = {}
        BY <3>5, <1>4, EmptySeq DEF Entries
      <4> QED BY <4>1, <3>1, <3>2, <3>5 DEF Replayed
    <3> QED BY <3>4, <3>5
  <2> QED BY <2>2, <2>3
<1> QED BY <1>7, <1>8

\* What a handler writes: one row, its parts if a part begins, and the index.
LEMMA PerformedFile ==
  ASSUME NEW d \in Disk, NEW b \in Body, boots \in 0..MaxBoots
  PROVE  /\ Performed(d, b) \in Disk
         /\ Performed(d, b).saved = d.saved
         /\ Performed(d, b).log = d.log
         /\ Performed(d, b).gen = d.gen
         /\ \A r \in Runs : Performed(d, b).runs[r].parts =
              IF b.op = "part" /\ b.run = r THEN d.runs[r].parts + 1 ELSE d.runs[r].parts
         /\ Legal(d, b) /\ Indexed(d) => Indexed(Performed(d, b))
         /\ Recovered(d, boots) => Recovered(Performed(d, b), boots)
<1> DEFINE row == d.runs[b.run]
           new == CASE b.op = "create" -> [row EXCEPT !.state = "prepared"]
                    [] b.op = "part"   -> [row EXCEPT !.state = "executing", !.parts = @ + 1,
                                                      !.session = boots]
                    [] b.op = "end"    -> [row EXCEPT !.state = "ended", !.session = 0]
           put == [new EXCEPT !.rev = row.rev + 1]
           live == IF Live(new) THEN d.live \cup {b.run} ELSE d.live \ {b.run}
           p == Performed(d, b)
<1>1. b.run \in Runs /\ b.op \in {"create", "part", "end"}
  BY DEF Body, Ops
<1>2. row \in Row
  BY <1>1 DEF Disk
<1>3. /\ new \in Row
      /\ new.parts = IF b.op = "part" THEN row.parts + 1 ELSE row.parts
      /\ new.state = "executing" => new.session = boots
  <2>0. 0 \in 0..MaxBoots
    BY StoreConstants
  <2>1. CASE b.op = "create"
    BY <1>2, <2>1 DEF Row
  <2>2. CASE b.op = "part"
    <3>1. new = [row EXCEPT !.state = "executing", !.parts = @ + 1, !.session = boots]
      BY <2>2
    <3>2. row.parts + 1 \in Nat
      BY <1>2 DEF Row
    <3> QED BY <1>2, <2>2, <3>1, <3>2 DEF Row
  <2>3. CASE b.op = "end"
    BY <1>2, <2>0, <2>3 DEF Row
  <2> QED BY <1>1, <2>1, <2>2, <2>3
<1> HIDE DEF new
<1>4. /\ put \in Row /\ put.parts = new.parts /\ put.state = new.state
      /\ put.session = new.session
  BY <1>2, <1>3 DEF Row
<1> HIDE DEF put
<1>5. p = [d EXCEPT !.runs = [d.runs EXCEPT ![b.run] = put], !.live = live]
  <2>1. p = Put(d, b.run, new)
    BY DEF Performed, new
  <2> QED BY <2>1 DEF Put, put, Disk
<1> HIDE DEF live
<1>6. live \in SUBSET Runs
  BY <1>1 DEF live, Disk
<1>7. /\ p \in Disk /\ p.saved = d.saved /\ p.log = d.log /\ p.gen = d.gen
      /\ p.runs = [d.runs EXCEPT ![b.run] = put] /\ p.live = live
  <2> DEFINE runs == [d.runs EXCEPT ![b.run] = put]
  <2>1. runs \in [Runs -> Row]
    BY <1>1, <1>4 DEF Disk
  <2> HIDE DEF runs
  <2>2. p = [d EXCEPT !.runs = runs, !.live = live]
    BY <1>5 DEF runs
  <2>3. /\ p \in Disk /\ p.saved = d.saved /\ p.log = d.log /\ p.gen = d.gen
        /\ p.runs = runs /\ p.live = live
    BY <1>6, <2>1, <2>2 DEF Disk
  <2> QED BY <2>3 DEF runs
<1>8. \A r \in Runs : p.runs[r] = IF r = b.run THEN put ELSE d.runs[r]
  BY <1>7 DEF Disk
<1>9. ASSUME Legal(d, b), Indexed(d)
      PROVE  Indexed(p)
  BY <1>1, <1>3, <1>4, <1>7, <1>8, <1>9 DEF live, LiveRuns, Indexed, Live
<1>10. ASSUME Recovered(d, boots)
       PROVE  Recovered(p, boots)
  BY <1>3, <1>4, <1>8, <1>10 DEF Recovered
<1> QED BY <1>3, <1>4, <1>7, <1>8, <1>9, <1>10

\* A request that commits: its effect, its journal entries and its saved answer,
\* together; the parts of a run are still those that were asked for.
LEMMA CommittedFile ==
  ASSUME NEW d \in Disk, NEW k \in Keys, NEW b \in Body,
         FileSound(d), d.saved[k] = None, Legal(d, b), boots \in 0..MaxBoots
  PROVE  /\ Committed(d, k, b) \in Disk
         /\ FileSound(Committed(d, k, b))
         /\ Committed(d, k, b).saved = [d.saved EXCEPT ![k] = b]
         /\ Committed(d, k, b).gen = d.gen
         /\ \A r \in Runs : Committed(d, k, b).runs[r].parts =
              IF b.op = "part" /\ b.run = r THEN d.runs[r].parts + 1 ELSE d.runs[r].parts
         /\ Indexed(d) => Indexed(Committed(d, k, b))
         /\ Recovered(d, boots) => Recovered(Committed(d, k, b), boots)
<1> DEFINE p == Performed(d, b)
           saved == [d.saved EXCEPT ![k] = b]
           q == [p EXCEPT !.saved = saved]
           c == Committed(d, k, b)
<1>1. /\ p \in Disk /\ p.saved = d.saved /\ p.log = d.log /\ p.gen = d.gen
      /\ \A r \in Runs : p.runs[r].parts =
           IF b.op = "part" /\ b.run = r THEN d.runs[r].parts + 1 ELSE d.runs[r].parts
      /\ Indexed(d) => Indexed(p)
      /\ Recovered(d, boots) => Recovered(p, boots)
  BY PerformedFile
<1> HIDE DEF p
<1>2. saved \in [Keys -> Body \cup {None}]
  BY DEF Disk
<1> HIDE DEF saved
<1>3. /\ q \in Disk /\ q.saved = saved /\ q.log = d.log /\ q.gen = d.gen
      /\ q.runs = p.runs /\ q.live = p.live
  BY <1>1, <1>2 DEF Disk
<1>4. c = Finished(d, q)
  <2>1. q = [p EXCEPT !.saved[k] = b]
    BY <1>1 DEF saved, Disk
  <2> QED BY <2>1 DEF Committed, p
<1> HIDE DEF q
<1>5. /\ c \in Disk /\ c.runs = q.runs /\ c.saved = q.saved /\ c.live = q.live
      /\ c.gen = q.gen /\ c.seeded /\ \A r \in Runs : Replayed(c, r, q.runs[r])
  BY <1>3, <1>4, FinishedFile DEF FileSound
<1> HIDE DEF c
<1>6. /\ c.saved = saved /\ c.gen = d.gen
      /\ \A r \in Runs : c.runs[r].parts =
           IF b.op = "part" /\ b.run = r THEN d.runs[r].parts + 1 ELSE d.runs[r].parts
      /\ Indexed(d) => Indexed(c)
      /\ Recovered(d, boots) => Recovered(c, boots)
  BY <1>1, <1>3, <1>5 DEF LiveRuns, Indexed, Recovered
<1>7. ASSUME NEW r \in Runs
      PROVE  c.runs[r].parts = Cardinality(Asking(c, r))
  <2>1. IsFiniteSet(Asking(d, r)) /\ k \notin Asking(d, r)
    BY StoreConstants, FS_Subset DEF Asking, Body, Ops
  <2>2. d.runs[r].parts = Cardinality(Asking(d, r))
    BY DEF FileSound
  <2>3. b = [op |-> b.op, run |-> b.run]
    BY DEF Body
  <2>4. CASE b.op = "part" /\ b.run = r
    <3>1. Asking(c, r) = Asking(d, r) \cup {k}
      BY <1>6, <2>3, <2>4 DEF Asking, saved, Disk
    <3>2. Cardinality(Asking(d, r) \cup {k}) = Cardinality(Asking(d, r)) + 1
      BY <2>1, FS_AddElement
    <3> QED BY <1>6, <2>2, <2>4, <3>1, <3>2
  <2>5. CASE ~(b.op = "part" /\ b.run = r)
    <3>1. b # [op |-> "part", run |-> r]
      BY <2>5
    <3>2. Asking(c, r) = Asking(d, r)
      BY <1>6, <2>1, <3>1 DEF Asking, saved, Disk
    <3> QED BY <1>6, <2>2, <2>5, <3>2
  <2> QED BY <2>4, <2>5
<1>8. FileSound(c)
  BY <1>5, <1>7 DEF FileSound
<1> QED BY <1>5, <1>6, <1>8 DEF c, saved

\* The start transaction takes the runs its index names out of their sessions
\* and rebuilds the index; no part begins and no answer changes.  A run that was
\* executing is left so only where the index had lost it.
LEMMA BootedFile ==
  ASSUME NEW d \in Disk, FileSound(d)
  PROVE  /\ Booted(d) \in Disk
         /\ FileSound(Booted(d))
         /\ Booted(d).saved = d.saved
         /\ Booted(d).gen = d.gen
         /\ \A r \in Runs : Booted(d).runs[r].parts = d.runs[r].parts
         /\ Indexed(Booted(d))
         /\ Indexed(d) => \A r \in Runs : Booted(d).runs[r].state # "executing"
<1> DEFINE runs == [r \in Runs |->
                      IF r \in d.live /\ d.runs[r].state \in {"prepared", "executing"}
                      THEN [d.runs[r] EXCEPT !.state = "recovery", !.session = 0, !.rev = @ + 1]
                      ELSE d.runs[r]]
           new == Invalidated(d)
           q == [new EXCEPT !.live = LiveRuns(new)]
           c == Booted(d)
<1>1. /\ runs \in [Runs -> Row]
      /\ \A r \in Runs : runs[r].parts = d.runs[r].parts
      /\ \A r \in d.live : runs[r].state # "executing"
      /\ \A r \in Runs : runs[r].state = "executing" => d.runs[r].state = "executing"
  <2>0. d.live \subseteq Runs /\ 0 \in 0..MaxBoots
    BY StoreConstants DEF Disk
  <2>1. ASSUME NEW r \in Runs
        PROVE  /\ runs[r] \in Row
               /\ runs[r].parts = d.runs[r].parts
               /\ r \in d.live => runs[r].state # "executing"
               /\ runs[r].state = "executing" => d.runs[r].state = "executing"
    <3>1. d.runs[r] \in Row
      BY DEF Disk
    <3>2. CASE r \in d.live /\ d.runs[r].state \in {"prepared", "executing"}
      <4>1. runs[r] = [d.runs[r] EXCEPT !.state = "recovery", !.session = 0, !.rev = @ + 1]
        BY <3>2
      <4>2. d.runs[r].rev + 1 \in Nat
        BY <3>1 DEF Row
      <4>3. /\ runs[r].state = "recovery" /\ runs[r].session = 0
            /\ runs[r].rev = d.runs[r].rev + 1 /\ runs[r].parts = d.runs[r].parts
            /\ runs[r] = [state |-> runs[r].state, rev |-> runs[r].rev,
                          parts |-> runs[r].parts, session |-> runs[r].session]
        BY <3>1, <4>1 DEF Row
      <4>4. d.runs[r].parts \in Nat
        BY <3>1 DEF Row
      <4> HIDE DEF runs
      <4> QED BY <2>0, <4>2, <4>3, <4>4 DEF Row
    <3>3. CASE ~(r \in d.live /\ d.runs[r].state \in {"prepared", "executing"})
      BY <3>1, <3>3
    <3> QED BY <3>2, <3>3
  <2> QED BY <2>0, <2>1
<1>2. new = [d EXCEPT !.runs = runs]
  BY DEF Invalidated
<1> HIDE DEF runs, new
<1>3. /\ new \in Disk /\ new.saved = d.saved /\ new.log = d.log /\ new.gen = d.gen
      /\ new.runs = runs
  BY <1>1, <1>2 DEF Disk
<1>4. /\ q \in Disk /\ q.saved = d.saved /\ q.log = d.log /\ q.gen = d.gen
      /\ q.runs = runs /\ q.live = LiveRuns(new)
  <2>1. LiveRuns(new) \in SUBSET Runs
    BY DEF LiveRuns
  <2> QED BY <1>3, <2>1 DEF Disk
<1>5. c = Finished(d, q)
  BY DEF Booted, new
<1> HIDE DEF q
<1>6. /\ c \in Disk /\ c.runs = q.runs /\ c.saved = q.saved /\ c.live = q.live
      /\ c.gen = q.gen /\ c.seeded /\ \A r \in Runs : Replayed(c, r, q.runs[r])
  BY <1>4, <1>5, FinishedFile DEF FileSound
<1> HIDE DEF c
<1>7. \A r \in Runs : Asking(c, r) = Asking(d, r)
  BY <1>4, <1>6 DEF Asking
<1>8. FileSound(c)
  BY <1>1, <1>4, <1>6, <1>7 DEF FileSound
<1>9. Indexed(c)
  BY <1>3, <1>4, <1>6 DEF LiveRuns, Indexed
<1>10. ASSUME Indexed(d), NEW r \in Runs, c.runs[r].state = "executing"
       PROVE  FALSE
  <2>1. r \in d.live
    BY <1>1, <1>4, <1>6, <1>10 DEF Indexed, LiveRuns, Live
  <2> QED BY <1>1, <1>4, <1>6, <1>10, <2>1
<1> QED BY <1>1, <1>4, <1>6, <1>8, <1>9, <1>10 DEF c

\* restore_store changes nothing but the generation.
LEMMA RotatedFile ==
  ASSUME NEW d \in Disk, FileSound(d), restores \in 0..MaxRestores
  PROVE  /\ Rotated(d) \in Disk
         /\ FileSound(Rotated(d))
         /\ Rotated(d).saved = d.saved
         /\ Rotated(d).runs = d.runs
         /\ Rotated(d).live = d.live
         /\ Rotated(d).gen = restores
<1> DEFINE c == Rotated(d)
<1>1. /\ c \in Disk /\ c.saved = d.saved /\ c.runs = d.runs /\ c.live = d.live
      /\ c.gen = restores /\ c.log = d.log /\ c.seeded = d.seeded
  BY DEF Rotated, Disk
<1> HIDE DEF c
<1>2. FileSound(c)
  BY <1>1 DEF FileSound, Asking, Replayed, Entries
<1> QED BY <1>1, <1>2 DEF c

----------------------------------------------------------------------------
(* The invariant.                                                            *)

\* A store an older revision wrote has no parts, no requests and no journal.
LEMMA WriterInvInit == Init => WriterInv
<1> SUFFICES ASSUME Init PROVE WriterInv
  OBVIOUS
<1>0. /\ backup = None /\ owner = None /\ boots = 0 /\ restores = 0
      /\ status = "down" /\ control = << >> /\ normal = << >> /\ executing = None
      /\ verdict = None /\ burst = 0 /\ waiting = [c \in Clients |-> 0] /\ told = {}
  BY DEF Init, StoreInit
<1>1. PICK old \in [OldRuns -> {"prepared", "executing", "ended"}] :
        disk = [runs |-> [r \in Runs |->
                            IF r \in OldRuns THEN [Absent EXCEPT !.state = old[r], !.rev = 1]
                            ELSE Absent],
                saved |-> [k \in Keys |-> None],
                seeded |-> FALSE, log |-> << >>, live |-> {}, gen |-> 0]
  BY DEF Init, StoreInit
<1>2. disk.runs \in [Runs -> Row] /\ \A r \in Runs : disk.runs[r].parts = 0
  <2> DEFINE runs == [r \in Runs |-> IF r \in OldRuns
                                     THEN [Absent EXCEPT !.state = old[r], !.rev = 1]
                                     ELSE Absent]
  <2>1. ASSUME NEW r \in Runs PROVE runs[r] \in Row /\ runs[r].parts = 0
    <3>1. Absent \in Row /\ Absent.parts = 0 /\ 0 \in 0..MaxBoots
      BY StoreConstants DEF Absent, Row
    <3>2. CASE r \in OldRuns
      <4>1. old[r] \in {"prepared", "executing", "ended"}
        BY <3>2
      <4>2. runs[r] = [Absent EXCEPT !.state = old[r], !.rev = 1]
        BY <3>2
      <4>3. [Absent EXCEPT !.state = old[r], !.rev = 1] \in Row
        BY <3>1, <4>1 DEF Row
      <4> QED BY <3>1, <4>2, <4>3 DEF Row
    <3>3. CASE r \notin OldRuns
      BY <3>1, <3>3
    <3> QED BY <3>2, <3>3
  <2>2. runs \in [Runs -> Row]
    BY <2>1
  <2>3. disk.runs = runs
    BY <1>1
  <2> HIDE DEF runs
  <2> QED BY <2>1, <2>2, <2>3
<1>3. /\ disk.saved = [k \in Keys |-> None] /\ disk.seeded = FALSE
      /\ disk.log = << >> /\ disk.live = {} /\ disk.gen = 0
      /\ disk = [runs |-> disk.runs, saved |-> disk.saved, seeded |-> disk.seeded,
                 log |-> disk.log, live |-> disk.live, gen |-> disk.gen]
  BY <1>1
<1>4. disk \in Disk
  <2>1. disk.saved \in [Keys -> Body \cup {None}] /\ disk.gen \in 0..MaxRestores
    BY <1>3, StoreConstants
  <2>2. disk.log \in Seq([run : Runs, row : Row])
    BY <1>3, EmptySeq
  <2> QED BY <1>2, <1>3, <2>1, <2>2 DEF Disk
<1>5. FileSound(disk)
  <2>1. \A r \in Runs : Asking(disk, r) = {}
    BY <1>3, StoreConstants DEF Asking, Body, Ops
  <2> QED BY <1>2, <1>3, <2>1, FS_EmptySet DEF FileSound
<1>6. TypeOK
  <2>1. control \in Seq(Task) /\ normal \in Seq(Task)
    BY <1>0, EmptySeq
  <2> QED BY <1>0, <1>4, <2>1, StoreConstants, WriterConstants DEF TypeOK
<1>7. LineageType /\ LineageKept
  BY <1>0, <1>3, StoreConstants DEF LineageType, LineageKept
<1>8. LiveIndexIsExact /\ AnsweredIsInTheStore
  BY <1>0, StoreConstants DEF LiveIndexIsExact, AnsweredIsInTheStore
<1>9. LanesKept
  <2>1. Lane(<< >>, "control") /\ Lane(<< >>, "normal") /\ Len(<< >>) = 0
    BY EmptySeq DEF Lane
  <2> QED BY <1>0, <2>1, WriterConstants DEF LanesKept, Executes
<1>10. VerdictKept
  BY <1>0, WriterConstants DEF VerdictKept
<1> QED BY <1>0, <1>4, <1>5, <1>6, <1>7, <1>8, <1>9, <1>10 DEF WriterInv

\* Steps of the lanes and the clients leave the files and the lineages alone.
LEMMA StoreUntouched ==
  ASSUME WriterInv, UNCHANGED storeVars, UNCHANGED told
  PROVE  /\ LineageType'
         /\ FileSound(disk)' /\ (backup # None => FileSound(backup))'
         /\ LiveIndexIsExact' /\ AnsweredIsInTheStore' /\ LineageKept'
         /\ (disk \in Disk)' /\ (owner \in {None, "runtime", "restore"})'
BY DEF WriterInv, TypeOK, storeVars, LineageType, FileSound, Asking, Replayed, Entries,
       LiveIndexIsExact, LiveRuns, AnsweredIsInTheStore, LineageKept

\* A task joins the lane of its priority.
LEMMA LaneAppended ==
  ASSUME NEW s, NEW p, Lane(s, p), NEW t \in Task, Priority(t.body) = p
  PROVE  Lane(Append(s, t), p) /\ Len(s) \in Nat /\ Len(Append(s, t)) = Len(s) + 1
<1>1. /\ s \in Seq(Task) /\ Len(s) \in Nat /\ DOMAIN s = 1..Len(s)
      /\ \A i \in 1..Len(s) : Priority(s[i].body) = p
  BY LenProperties DEF Lane
<1>2. /\ Append(s, t) \in Seq(Task) /\ Len(Append(s, t)) = Len(s) + 1
      /\ \A i \in 1..Len(s) : Append(s, t)[i] = s[i]
      /\ Append(s, t)[Len(s) + 1] = t
  BY <1>1, AppendProperties
<1>3. DOMAIN Append(s, t) = 1..(Len(s) + 1)
  BY <1>2, LenProperties
<1>4. ASSUME NEW i \in 1..(Len(s) + 1) PROVE Priority(Append(s, t)[i].body) = p
  <2>1. i \in 1..Len(s) \/ i = Len(s) + 1
    BY <1>1
  <2> QED BY <1>1, <1>2, <2>1
<1> QED BY <1>1, <1>2, <1>3, <1>4 DEF Lane

\* The first task of a lane is taken.
LEMMA LaneTaken ==
  ASSUME NEW s, NEW p, Lane(s, p), s # << >>
  PROVE  /\ Head(s) \in Task /\ Priority(Head(s).body) = p
         /\ Lane(Tail(s), p) /\ Len(s) \in Nat /\ Len(Tail(s)) = Len(s) - 1
<1>1. /\ s \in Seq(Task) /\ Len(s) \in Nat \ {0} /\ DOMAIN s = 1..Len(s)
      /\ \A i \in 1..Len(s) : Priority(s[i].body) = p
  BY LenProperties, EmptySeq DEF Lane
<1>2. /\ Head(s) \in Task /\ Tail(s) \in Seq(Task) /\ Len(Tail(s)) = Len(s) - 1
      /\ \A i \in 1..Len(Tail(s)) : Tail(s)[i] = s[i + 1]
  BY <1>1, HeadTailProperties
<1>3. DOMAIN Tail(s) = 1..(Len(s) - 1)
  BY <1>2, LenProperties
<1>4. ASSUME NEW i \in 1..(Len(s) - 1) PROVE Priority(Tail(s)[i].body) = p
  <2>1. i + 1 \in 1..Len(s)
    BY <1>1
  <2> QED BY <1>1, <1>2, <2>1
<1>5. Priority(Head(s).body) = p
  BY <1>1
<1> QED BY <1>1, <1>2, <1>3, <1>4, <1>5 DEF Lane

\* A client sends, or sends again.
LEMMA EnqueueKeeps ==
  ASSUME WriterInv, NEW c \in Clients, NEW k \in Keys, NEW b \in Body, Enqueue(c, k, b)
  PROVE  WriterInv'
<1> DEFINE ticket == CHOOSE n \in 1..Tickets : n \notin Unfinished(c)
           task == [client |-> c, ticket |-> ticket, key |-> k, body |-> b]
<1>1. ticket \in 1..Tickets
  <2>1. \E n \in 1..Tickets : n \notin Unfinished(c)
    <3>1. Unfinished(c) \subseteq 1..Tickets
      <4>1. Range(control) \subseteq Task /\ Range(normal) \subseteq Task
        BY RangeOfSeq DEF WriterInv, TypeOK
      <4>2. \A u \in Range(control) \cup Range(normal) \cup ({executing} \ {None}) :
              u.ticket \in 1..Tickets
        BY <4>1 DEF WriterInv, TypeOK, Task
      <4> QED BY <4>2 DEF Unfinished
    <3> QED BY <3>1 DEF Enqueue
  <2> QED BY <2>1
<1>2. /\ IF Priority(b) = "control"
         THEN control' = Append(control, task) /\ UNCHANGED normal
         ELSE normal' = Append(normal, task) /\ UNCHANGED control
      /\ waiting' = [waiting EXCEPT ![c] = ticket]
      /\ UNCHANGED <<storeVars, status, executing, verdict, burst, told>>
      /\ ~LaneFull(Priority(b))
  BY DEF Enqueue
<1> HIDE DEF ticket
<1>3. task \in Task /\ task.body = b
  BY <1>1 DEF Task
<1> HIDE DEF task
<1>4. TypeOK'
  <2>1. control' \in Seq(Task) /\ normal' \in Seq(Task)
    <3>1. Append(control, task) \in Seq(Task) /\ Append(normal, task) \in Seq(Task)
      BY <1>3, AppendProperties DEF WriterInv, TypeOK
    <3> QED BY <1>2, <3>1 DEF WriterInv, TypeOK
  <2> QED BY <1>1, <1>2, <2>1, StoreUntouched DEF WriterInv, TypeOK, storeVars
<1>5. LanesKept'
  <2>1. Executes("control")' = Executes("control") /\ Executes("normal")' = Executes("normal")
    BY <1>2 DEF Executes
  <2>2. Executes("control") \in {0, 1} /\ Executes("normal") \in {0, 1}
    BY DEF Executes
  <2>3. /\ Lane(control, "control") /\ Lane(normal, "normal")
        /\ Len(control) + Executes("control") <= ControlLimit
        /\ Len(normal) + Executes("normal") <= NormalLimit
    BY DEF WriterInv, LanesKept
  <2>4. ControlLimit \in Nat /\ NormalLimit \in Nat
    BY WriterConstants
  <2>5. CASE Priority(b) = "control"
    <3>1. /\ Lane(Append(control, task), "control") /\ Len(control) \in Nat
          /\ Len(Append(control, task)) = Len(control) + 1
      BY <1>3, <2>3, <2>5, LaneAppended
    <3>2. ~(Len(control) + Executes("control") >= ControlLimit)
      BY <1>2, <2>5 DEF LaneFull
    <3>3. control' = Append(control, task) /\ normal' = normal
      BY <1>2, <2>5
    <3>4. Len(control') + Executes("control")' <= ControlLimit
      BY <2>1, <2>2, <2>4, <3>1, <3>2, <3>3
    <3> QED BY <2>1, <2>3, <3>1, <3>3, <3>4 DEF LanesKept
  <2>6. CASE Priority(b) = "normal"
    <3>1. /\ Lane(Append(normal, task), "normal") /\ Len(normal) \in Nat
          /\ Len(Append(normal, task)) = Len(normal) + 1
      BY <1>3, <2>3, <2>6, LaneAppended
    <3>2. ~(Len(normal) + Executes("normal") >= NormalLimit)
      BY <1>2, <2>6 DEF LaneFull
    <3>3. normal' = Append(normal, task) /\ control' = control
      BY <1>2, <2>6
    <3>4. Len(normal') + Executes("normal")' <= NormalLimit
      BY <2>1, <2>2, <2>4, <3>1, <3>2, <3>3
    <3> QED BY <2>1, <2>3, <3>1, <3>3, <3>4 DEF LanesKept
  <2> QED BY <2>5, <2>6 DEF Priority
<1>6. VerdictKept'
  BY <1>2 DEF WriterInv, VerdictKept, storeVars
<1> QED BY <1>2, <1>4, <1>5, <1>6, StoreUntouched DEF WriterInv

\* A client stops waiting.
LEMMA GiveUpKeeps ==
  ASSUME WriterInv, NEW c \in Clients, GiveUp(c)
  PROVE  WriterInv'
<1>1. /\ waiting' = [waiting EXCEPT ![c] = 0]
      /\ UNCHANGED <<storeVars, queueVars, told>>
  BY DEF GiveUp
<1>2. TypeOK'
  BY <1>1, WriterConstants DEF WriterInv, TypeOK, storeVars, queueVars
<1>3. LanesKept' /\ VerdictKept'
  BY <1>1 DEF WriterInv, LanesKept, VerdictKept, Executes, storeVars, queueVars
<1> QED BY <1>1, <1>2, <1>3, StoreUntouched DEF WriterInv

\* The writer takes the next task; it counts in its lane until it is answered.
LEMMA TakeKeeps ==
  ASSUME WriterInv, Take
  PROVE  WriterInv'
<1>1. /\ status # "down" /\ executing = None
      /\ control # << >> \/ normal # << >>
      /\ UNCHANGED <<storeVars, clientVars, status, verdict>>
  BY DEF Take
<1>2. /\ Lane(control, "control") /\ Lane(normal, "normal")
      /\ Len(control) <= ControlLimit /\ Len(normal) <= NormalLimit
      /\ Len(control) \in Nat /\ Len(normal) \in Nat
      /\ ControlLimit \in Nat /\ NormalLimit \in Nat /\ BurstLimit \in Nat
  <2>1. Len(control) \in Nat /\ Len(normal) \in Nat
    BY LenProperties DEF WriterInv, TypeOK
  <2> QED BY <1>1, <2>1, WriterConstants DEF WriterInv, LanesKept, Executes
<1>3. None \notin Task
  BY WriterConstants
<1>4. verdict = None
  BY <1>1 DEF WriterInv, VerdictKept
<1>5. CASE ControlNext
  <2>1. /\ executing' = Head(control) /\ control' = Tail(control) /\ normal' = normal
        /\ burst' = IF burst < BurstLimit THEN burst + 1 ELSE burst
    BY <1>5 DEF Take
  <2>2. /\ Head(control) \in Task /\ Priority(Head(control).body) = "control"
        /\ Lane(Tail(control), "control") /\ Len(Tail(control)) = Len(control) - 1
    BY <1>2, <1>5, LaneTaken DEF ControlNext
  <2>3. Executes("control")' = 1 /\ Executes("normal")' = 0
    BY <1>3, <2>1, <2>2 DEF Executes
  <2>4. LanesKept'
    BY <1>2, <2>1, <2>2, <2>3 DEF LanesKept
  <2>5. TypeOK'
    BY <1>1, <1>2, <2>1, <2>2 DEF WriterInv, TypeOK, storeVars, clientVars, Lane
  <2>6. VerdictKept'
    BY <1>1, <1>4, WriterConstants DEF VerdictKept
  <2> QED BY <1>1, <2>4, <2>5, <2>6, StoreUntouched DEF WriterInv, clientVars
<1>6. CASE ~ControlNext
  <2>1. /\ executing' = Head(normal) /\ normal' = Tail(normal) /\ control' = control
        /\ burst' = 0
    BY <1>6 DEF Take
  <2>2. /\ Head(normal) \in Task /\ Priority(Head(normal).body) = "normal"
        /\ Lane(Tail(normal), "normal") /\ Len(Tail(normal)) = Len(normal) - 1
    BY <1>1, <1>2, <1>6, LaneTaken DEF ControlNext
  <2>3. Executes("control")' = 0 /\ Executes("normal")' = 1
    BY <1>3, <2>1, <2>2 DEF Executes
  <2>4. LanesKept'
    BY <1>2, <2>1, <2>2, <2>3 DEF LanesKept
  <2>5. TypeOK'
    BY <1>1, <1>2, <2>1, <2>2 DEF WriterInv, TypeOK, storeVars, clientVars, Lane
  <2>6. VerdictKept'
    BY <1>1, <1>4, WriterConstants DEF VerdictKept
  <2> QED BY <1>1, <2>4, <2>5, <2>6, StoreUntouched DEF WriterInv, clientVars
<1> QED BY <1>5, <1>6

\* What the transaction of a task leaves, and its answer.
LEMMA TransactedFile ==
  ASSUME NEW d \in Disk, NEW k \in Keys, NEW b \in Body, FileSound(d),
         boots \in 0..MaxBoots
  PROVE  /\ Verdict(d, k, b) \in {"ok", "conflict", "rejected"}
         /\ Transacted(d, k, b) \in Disk
         /\ FileSound(Transacted(d, k, b))
         /\ Transacted(d, k, b).gen = d.gen
         /\ Verdict(d, k, b) = "ok" => Transacted(d, k, b).saved[k] = b
         /\ \A j \in Keys : d.saved[j] # None => Transacted(d, k, b).saved[j] = d.saved[j]
         /\ Indexed(d) => Indexed(Transacted(d, k, b))
         /\ Recovered(d, boots) => Recovered(Transacted(d, k, b), boots)
<1>p. /\ d.saved[k] = None => Prior(d, k, b) = "none"
      /\ d.saved[k] = b => Prior(d, k, b) = "same"
      /\ d.saved[k] # None /\ d.saved[k] # b => Prior(d, k, b) = "conflict"
  <2>1. b # None
    BY StoreConstants
  <2> QED BY <2>1 DEF Prior
<1>0. Verdict(d, k, b) \in {"ok", "conflict", "rejected"}
  BY DEF Verdict
<1>1. CASE d.saved[k] = None /\ Legal(d, b)
  <2>1. Transacted(d, k, b) = Committed(d, k, b)
    BY <1>1, <1>p DEF Transacted
  <2>2. Committed(d, k, b).saved = [d.saved EXCEPT ![k] = b]
    BY <1>1, CommittedFile
  <2>3. Committed(d, k, b).saved[k] = b
    BY <2>2 DEF Disk
  <2>4. \A j \in Keys : d.saved[j] # None => Committed(d, k, b).saved[j] = d.saved[j]
    BY <1>1, <2>2 DEF Disk
  <2>5. /\ Committed(d, k, b) \in Disk /\ FileSound(Committed(d, k, b))
        /\ Committed(d, k, b).gen = d.gen
        /\ Indexed(d) => Indexed(Committed(d, k, b))
        /\ Recovered(d, boots) => Recovered(Committed(d, k, b), boots)
    <3>1. Committed(d, k, b) \in Disk
      BY <1>1, CommittedFile
    <3>2. FileSound(Committed(d, k, b))
      BY <1>1, CommittedFile
    <3>3. Committed(d, k, b).gen = d.gen
      BY <1>1, CommittedFile
    <3>4. Indexed(d) => Indexed(Committed(d, k, b))
      BY <1>1, CommittedFile
    <3>5. Recovered(d, boots) => Recovered(Committed(d, k, b), boots)
      BY <1>1, CommittedFile
    <3> QED BY <3>1, <3>2, <3>3, <3>4, <3>5
  <2> QED BY <1>0, <2>1, <2>3, <2>4, <2>5
<1>2. CASE ~(d.saved[k] = None /\ Legal(d, b))
  <2>1. Transacted(d, k, b) = d
    BY <1>2, <1>p DEF Transacted
  <2>2. Verdict(d, k, b) = "ok" => d.saved[k] = b
    <3>1. CASE d.saved[k] = None
      <4>1. Verdict(d, k, b) = "rejected"
        BY <1>2, <1>p, <3>1 DEF Verdict
      <4> QED BY <4>1
    <3>2. CASE d.saved[k] # None /\ d.saved[k] # b
      <4>1. Verdict(d, k, b) = "conflict"
        BY <1>p, <3>2 DEF Verdict
      <4> QED BY <4>1
    <3> QED BY <3>1, <3>2
  <2> QED BY <1>0, <2>1, <2>2
<1> QED BY <1>1, <1>2

\* The transaction of a task.
LEMMA ProcessKeeps ==
  ASSUME WriterInv, Process
  PROVE  WriterInv'
<1> DEFINE k == executing.key
           b == executing.body
<1>1. /\ executing # None /\ verdict = None
      /\ disk' = Transacted(disk, k, b) /\ verdict' = Verdict(disk, k, b)
      /\ UNCHANGED <<backup, owner, boots, restores, clientVars,
                     status, control, normal, executing, burst>>
  BY DEF Process
<1>2. executing \in Task /\ k \in Keys /\ b \in Body /\ disk \in Disk /\ FileSound(disk)
  BY <1>1 DEF WriterInv, TypeOK, Task
<1>3. status # "down" /\ owner = "runtime"
  BY <1>1 DEF WriterInv, TypeOK, VerdictKept
<1> DEFINE t == Transacted(disk, k, b)
<1>4. /\ Verdict(disk, k, b) \in {"ok", "conflict", "rejected"}
      /\ t \in Disk /\ FileSound(t) /\ t.gen = disk.gen
      /\ Verdict(disk, k, b) = "ok" => t.saved[k] = b
      /\ \A j \in Keys : disk.saved[j] # None => t.saved[j] = disk.saved[j]
      /\ Indexed(disk) => Indexed(t)
  BY <1>2, TransactedFile DEF WriterInv, LineageType
<1>5. disk' = t
  BY <1>1
<1> HIDE DEF t
<1>6. TypeOK'
  BY <1>1, <1>4, <1>5 DEF WriterInv, TypeOK, clientVars
<1>7. LineageType' /\ LineageKept'
  BY <1>1, <1>4, <1>5 DEF WriterInv, LineageType, LineageKept, clientVars
<1>8. FileSound(disk)' /\ (backup # None => FileSound(backup))'
  BY <1>1, <1>4, <1>5 DEF WriterInv, FileSound, Asking, Replayed, Entries
<1>9. LiveIndexIsExact'
  BY <1>1, <1>3, <1>4, <1>5 DEF WriterInv, LiveIndexIsExact, LiveRuns, Indexed
<1>10. AnsweredIsInTheStore'
  <2>1. \A a \in told : a.gen = disk.gen => disk.saved[a.key] = a.body
    BY <1>3 DEF WriterInv, AnsweredIsInTheStore
  <2>2. \A a \in told : a.key \in Keys /\ a.body # None
    BY StoreConstants DEF WriterInv, LineageType
  <2>3. \A a \in told : a.gen = t.gen => t.saved[a.key] = a.body
    BY <1>4, <2>1, <2>2
  <2> QED BY <1>1, <1>5, <2>3 DEF AnsweredIsInTheStore, clientVars
<1>11. LanesKept'
  BY <1>1 DEF WriterInv, LanesKept, Executes
<1>12. VerdictKept'
  BY <1>1, <1>3, <1>4, <1>5 DEF VerdictKept
<1> QED BY <1>6, <1>7, <1>8, <1>9, <1>10, <1>11, <1>12 DEF WriterInv

\* The answer of a task, heard or not.
LEMMA ReplyKeeps ==
  ASSUME WriterInv, Reply
  PROVE  WriterInv'
<1> DEFINE heard == waiting[executing.client] = executing.ticket
           answer == [key |-> executing.key, body |-> executing.body, gen |-> disk.gen]
<1>1. /\ verdict # None
      /\ waiting' = IF heard THEN [waiting EXCEPT ![executing.client] = 0] ELSE waiting
      /\ told' = IF heard /\ verdict = "ok" THEN told \cup {answer} ELSE told
      /\ executing' = None /\ verdict' = None
      /\ UNCHANGED <<storeVars, status, control, normal, burst>>
  BY DEF Reply
<1>2. /\ executing \in Task /\ executing.client \in Clients /\ executing.key \in Keys
      /\ executing.body \in Body /\ disk \in Disk /\ disk.gen \in 0..MaxRestores
      /\ restores \in 0..MaxRestores /\ owner = "runtime"
      /\ verdict = "ok" => disk.saved[executing.key] = executing.body
  BY <1>1 DEF WriterInv, VerdictKept, TypeOK, LineageType, Task, Disk
<1>3. answer \in [key : Keys, body : Body, gen : 0..MaxRestores]
  BY <1>2
<1>4. told' = told \/ (verdict = "ok" /\ told' = told \cup {answer})
  BY <1>1
<1>5. TypeOK'
  <2>1. waiting' \in [Clients -> 0..Tickets]
    BY <1>1, <1>2, WriterConstants DEF WriterInv, TypeOK
  <2> QED BY <1>1, <2>1 DEF WriterInv, TypeOK, storeVars
<1>6. LineageType'
  BY <1>1, <1>3, <1>4 DEF WriterInv, LineageType, storeVars
<1>7. LineageKept'
  <2>1. \A t \in told' : t.gen <= restores
    BY <1>2, <1>4 DEF WriterInv, LineageKept
  <2> QED BY <1>1, <1>2, <2>1 DEF WriterInv, LineageKept, storeVars
<1>8. FileSound(disk)' /\ (backup # None => FileSound(backup))' /\ LiveIndexIsExact'
  BY <1>1 DEF WriterInv, storeVars, FileSound, Asking, Replayed, Entries,
              LiveIndexIsExact, LiveRuns
<1>9. AnsweredIsInTheStore'
  <2>1. \A t \in told' : t.gen = disk.gen => disk.saved[t.key] = t.body
    BY <1>2, <1>4 DEF WriterInv, AnsweredIsInTheStore
  <2> QED BY <1>1, <2>1 DEF AnsweredIsInTheStore, storeVars
<1>10. LanesKept'
  <2>1. Executes("control")' = 0 /\ Executes("normal")' = 0
    BY <1>1 DEF Executes
  <2>2. Executes("control") \in {0, 1} /\ Executes("normal") \in {0, 1}
    BY DEF Executes
  <2>3. Len(control) \in Nat /\ Len(normal) \in Nat
    BY LenProperties DEF WriterInv, TypeOK
  <2>4. ControlLimit \in Nat /\ NormalLimit \in Nat
    BY WriterConstants
  <2> QED BY <1>1, <2>1, <2>2, <2>3, <2>4 DEF WriterInv, LanesKept
<1>11. VerdictKept'
  BY <1>1, WriterConstants DEF VerdictKept
<1> QED BY <1>5, <1>6, <1>7, <1>8, <1>9, <1>10, <1>11 DEF WriterInv

\* A runtime starts on the store.
LEMMA StartKeeps ==
  ASSUME WriterInv, Start
  PROVE  WriterInv'
<1>1. /\ status = "down" /\ owner = None
      /\ disk' = Booted(disk) /\ owner' = "runtime" /\ status' = "running" /\ burst' = 0
      /\ boots < MaxBoots /\ boots' = boots + 1
      /\ UNCHANGED <<backup, restores, control, normal, executing, verdict, clientVars>>
  BY DEF Start
<1> DEFINE t == Booted(disk)
<1>2. /\ t \in Disk /\ FileSound(t) /\ t.saved = disk.saved /\ t.gen = disk.gen /\ Indexed(t)
  BY BootedFile DEF WriterInv, TypeOK
<1>3. disk' = t
  BY <1>1
<1> HIDE DEF t
<1>4. executing = None /\ verdict = None
  BY <1>1 DEF WriterInv, VerdictKept
<1>5. TypeOK'
  BY <1>1, <1>2, <1>3, WriterConstants DEF WriterInv, TypeOK, clientVars
<1>6. LineageType' /\ LineageKept'
  <2>1. boots + 1 \in 0..MaxBoots
    BY <1>1, StoreConstants DEF WriterInv, LineageType
  <2> QED BY <1>1, <1>2, <1>3, <2>1 DEF WriterInv, LineageType, LineageKept, clientVars
<1>7. FileSound(disk)' /\ (backup # None => FileSound(backup))'
  BY <1>1, <1>2, <1>3 DEF WriterInv, FileSound, Asking, Replayed, Entries
<1>8. LiveIndexIsExact'
  BY <1>2, <1>3 DEF LiveIndexIsExact, LiveRuns, Indexed
<1>9. AnsweredIsInTheStore'
  <2>1. owner # "restore"
    BY <1>1, StoreConstants
  <2> QED BY <1>1, <1>2, <1>3, <2>1 DEF WriterInv, AnsweredIsInTheStore, clientVars
<1>10. LanesKept'
  BY <1>1 DEF WriterInv, LanesKept, Executes
<1>11. VerdictKept'
  BY <1>1, <1>4, WriterConstants DEF VerdictKept
<1> QED BY <1>5, <1>6, <1>7, <1>8, <1>9, <1>10, <1>11 DEF WriterInv

\* The writer takes no more sends.
LEMMA CloseKeeps ==
  ASSUME WriterInv, Close
  PROVE  WriterInv'
<1>1. /\ status = "running" /\ status' = "draining"
      /\ UNCHANGED <<storeVars, control, normal, executing, verdict, burst, clientVars>>
  BY DEF Close
<1>2. TypeOK'
  BY <1>1 DEF WriterInv, TypeOK, storeVars, clientVars
<1>3. LanesKept' /\ VerdictKept'
  BY <1>1 DEF WriterInv, LanesKept, VerdictKept, Executes, storeVars
<1> QED BY <1>1, <1>2, <1>3, StoreUntouched DEF WriterInv, clientVars

\* The runtime ends, in order or not: what was queued or executing is dropped.
LEMMA ExitKeeps ==
  ASSUME WriterInv, status # "down", Exit
  PROVE  WriterInv'
<1>1. /\ status' = "down" /\ owner' = None /\ control' = << >> /\ normal' = << >>
      /\ executing' = None /\ verdict' = None /\ waiting' = [c \in Clients |-> 0]
      /\ UNCHANGED <<disk, backup, boots, restores, burst, told>>
  BY DEF Exit
<1>2. owner = "runtime"
  BY DEF WriterInv, TypeOK
<1>3. TypeOK'
  <2>1. << >> \in Seq(Task)
    BY EmptySeq
  <2>2. [c \in Clients |-> 0] \in [Clients -> 0..Tickets]
    BY WriterConstants
  <2> QED BY <1>1, <2>1, <2>2, StoreConstants DEF WriterInv, TypeOK
<1>4. LineageType' /\ LineageKept'
  BY <1>1, StoreConstants DEF WriterInv, LineageType, LineageKept
<1>5. FileSound(disk)' /\ (backup # None => FileSound(backup))'
  BY <1>1 DEF WriterInv, FileSound, Asking, Replayed, Entries
<1>6. LiveIndexIsExact' /\ AnsweredIsInTheStore'
  BY <1>1, <1>2, StoreConstants DEF WriterInv, LiveIndexIsExact, AnsweredIsInTheStore
<1>7. LanesKept'
  <2>1. Lane(<< >>, "control") /\ Lane(<< >>, "normal") /\ Len(<< >>) = 0
    BY EmptySeq DEF Lane
  <2> QED BY <1>1, <2>1, WriterConstants DEF LanesKept, Executes
<1>8. VerdictKept'
  BY <1>1, WriterConstants DEF VerdictKept
<1> QED BY <1>3, <1>4, <1>5, <1>6, <1>7, <1>8 DEF WriterInv

\* Backup and restore, while no runtime is up.  The generation a restore makes
\* is one no answer carries yet.
LEMMA MaintenanceKeeps ==
  ASSUME WriterInv, Maintenance, MidwayUntold
  PROVE  WriterInv'
<1>1. /\ Backup \/ RestoreRename \/ RestoreRotate \/ RestoreDies
      /\ UNCHANGED <<queueVars, clientVars>>
  BY DEF Maintenance
<1>2. /\ owner # "runtime" /\ status = "down" /\ executing = None /\ verdict = None
  <2>1. owner # "runtime"
    BY <1>1, StoreConstants DEF Backup, RestoreRename, RestoreRotate, RestoreDies
  <2> QED BY <2>1 DEF WriterInv, TypeOK, VerdictKept
<1>3. disk \in Disk /\ disk.gen \in 0..MaxRestores /\ restores \in Nat /\ FileSound(disk)
  BY StoreConstants DEF WriterInv, TypeOK, LineageType, Disk
<1>4. LanesKept' /\ VerdictKept'
  BY <1>1, <1>2, WriterConstants DEF WriterInv, LanesKept, VerdictKept, Executes, queueVars
<1>5. ASSUME disk' \in Disk, owner' \in {None, "restore"}
      PROVE  TypeOK' /\ LiveIndexIsExact'
  BY <1>1, <1>2, <1>5, StoreConstants
     DEF WriterInv, TypeOK, LiveIndexIsExact, queueVars, clientVars
<1>6. CASE Backup
  <2>1. /\ backup' = disk /\ disk' = disk /\ owner' = owner /\ owner = None
        /\ restores' = restores /\ boots' = boots
    BY <1>6 DEF Backup
  <2>2. LineageType' /\ LineageKept' /\ AnsweredIsInTheStore'
    BY <1>1, <1>3, <2>1, StoreConstants
       DEF WriterInv, LineageType, LineageKept, AnsweredIsInTheStore, clientVars
  <2>3. FileSound(disk)' /\ (backup # None => FileSound(backup))'
    BY <1>3, <2>1 DEF FileSound, Asking, Replayed, Entries
  <2> QED BY <1>3, <1>4, <1>5, <2>1, <2>2, <2>3 DEF WriterInv
<1>7. CASE RestoreRename
  <2>1. /\ backup # None /\ restores < MaxRestores /\ disk' = backup /\ owner' = "restore"
        /\ restores' = restores + 1 /\ backup' = backup /\ boots' = boots
    BY <1>7 DEF RestoreRename
  <2>2. backup \in Disk /\ backup.gen \in 0..MaxRestores /\ FileSound(backup)
    BY <2>1 DEF WriterInv, LineageType, Disk
  <2>3. LineageType' /\ LineageKept'
    BY <1>1, <1>3, <2>1, <2>2, StoreConstants
       DEF WriterInv, LineageType, LineageKept, clientVars
  <2>4. AnsweredIsInTheStore'
    BY <2>1 DEF AnsweredIsInTheStore
  <2>5. FileSound(disk)' /\ (backup # None => FileSound(backup))'
    BY <2>1, <2>2 DEF FileSound, Asking, Replayed, Entries
  <2> QED BY <1>4, <1>5, <2>1, <2>2, <2>3, <2>4, <2>5 DEF WriterInv
<1>8. CASE RestoreRotate
  <2>1. /\ owner = "restore" /\ disk' = Rotated(disk) /\ owner' = None
        /\ backup' = backup /\ restores' = restores /\ boots' = boots
    BY <1>8 DEF RestoreRotate
  <2> DEFINE t == Rotated(disk)
  <2>2. t \in Disk /\ FileSound(t) /\ t.gen = restores
    BY <1>3, RotatedFile DEF WriterInv, LineageType
  <2>3. disk' = t
    BY <2>1
  <2> HIDE DEF t
  <2>4. LineageType' /\ LineageKept'
    BY <1>1, <1>3, <2>1, <2>2, <2>3, StoreConstants
       DEF WriterInv, LineageType, LineageKept, clientVars
  <2>5. AnsweredIsInTheStore'
    <3>1. \A a \in told : a.gen < restores /\ a.gen \in Nat
      BY <2>1, StoreConstants DEF WriterInv, LineageKept, LineageType
    <3>2. \A a \in told : a.gen # t.gen
      BY <1>3, <2>2, <3>1
    <3> QED BY <1>1, <2>3, <3>2 DEF AnsweredIsInTheStore, clientVars
  <2>6. FileSound(disk)' /\ (backup # None => FileSound(backup))'
    BY <2>1, <2>2, <2>3 DEF WriterInv, FileSound, Asking, Replayed, Entries
  <2> QED BY <1>4, <1>5, <2>1, <2>2, <2>3, <2>4, <2>5, <2>6 DEF WriterInv
<1>9. CASE RestoreDies
  <2>1. /\ owner = "restore" /\ disk' = disk /\ owner' = None
        /\ backup' = backup /\ restores' = restores /\ boots' = boots
    BY <1>9 DEF RestoreDies
  <2>2. told = {}
    BY <2>1 DEF MidwayUntold
  <2>3. LineageType' /\ LineageKept' /\ AnsweredIsInTheStore'
    BY <1>1, <1>3, <2>1, <2>2, StoreConstants
       DEF WriterInv, LineageType, LineageKept, AnsweredIsInTheStore, clientVars
  <2>4. FileSound(disk)' /\ (backup # None => FileSound(backup))'
    BY <2>1 DEF WriterInv, FileSound, Asking, Replayed, Entries
  <2> QED BY <1>3, <1>4, <1>5, <2>1, <2>3, <2>4 DEF WriterInv
<1> QED BY <1>1, <1>6, <1>7, <1>8, <1>9

\* The invariant is kept by every step.
LEMMA WriterInvStep ==
  ASSUME WriterInv, [Next]_vars, [MidwayUntold]_vars
  PROVE  WriterInv'
<1>1. CASE UNCHANGED vars
  <2>1. UNCHANGED <<storeVars, queueVars, clientVars>>
    BY <1>1 DEF vars
  <2>2. TypeOK' /\ LanesKept' /\ VerdictKept'
    BY <2>1 DEF WriterInv, TypeOK, LanesKept, VerdictKept, Executes,
                storeVars, queueVars, clientVars
  <2> QED BY <2>1, <2>2, StoreUntouched DEF WriterInv, clientVars
<1>2. ASSUME NEW c \in Clients, NEW k \in Keys, NEW b \in Body, Enqueue(c, k, b)
      PROVE  WriterInv'
  BY <1>2, EnqueueKeeps
<1>3. ASSUME NEW c \in Clients, GiveUp(c)
      PROVE  WriterInv'
  BY <1>3, GiveUpKeeps
<1>4. CASE Take
  BY <1>4, TakeKeeps
<1>5. CASE Process
  BY <1>5, ProcessKeeps
<1>6. CASE Reply
  BY <1>6, ReplyKeeps
<1>7. CASE Start
  BY <1>7, StartKeeps
<1>8. CASE Close
  BY <1>8, CloseKeeps
<1>9. CASE Drained \/ Fault
  BY <1>9, ExitKeeps DEF Drained, Fault
<1>10. CASE Maintenance /\ ~UNCHANGED vars
  BY <1>10, MaintenanceKeeps
<1> QED BY <1>1, <1>2, <1>3, <1>4, <1>5, <1>6, <1>7, <1>8, <1>9, <1>10 DEF Next

\* No copy is made before a start, and none is needed by the first one.
LEMMA IndexKeptInit == Init => IndexKept
<1> SUFFICES ASSUME Init PROVE IndexKept
  OBVIOUS
<1>1. backup = None /\ owner = None /\ boots = 0
  BY DEF Init, StoreInit
<1> QED BY <1>1, StoreConstants DEF IndexKept, RunsAreRecovered

\* The index of the file, and of the copy, keeps naming the live runs; a start
\* after the first therefore leaves no run in a session that is gone.
LEMMA IndexKeptStep ==
  ASSUME WriterInv, IndexKept, [Next]_vars
  PROVE  IndexKept'
<1>0. disk \in Disk /\ FileSound(disk) /\ boots \in 0..MaxBoots /\ boots \in Nat
  BY StoreConstants DEF WriterInv, TypeOK, LineageType
<1>1. CASE UNCHANGED storeVars
  BY <1>1 DEF IndexKept, Indexed, LiveRuns, RunsAreRecovered, ExecutesHere, storeVars
<1>2. CASE Process
  <2> DEFINE t == Transacted(disk, executing.key, executing.body)
  <2>1. executing.key \in Keys /\ executing.body \in Body
    BY <1>2 DEF Process, WriterInv, TypeOK, Task
  <2>2. /\ Indexed(disk) => Indexed(t)
        /\ Recovered(disk, boots) => Recovered(t, boots)
    BY <1>0, <2>1, TransactedFile
  <2>3. disk' = t /\ UNCHANGED <<backup, owner, boots>>
    BY <1>2 DEF Process
  <2> HIDE DEF t
  <2>4. (boots > 0 => Indexed(disk))' /\ RunsAreRecovered'
    BY <2>2, <2>3 DEF IndexKept, Indexed, LiveRuns, Recovered, RunsAreRecovered, ExecutesHere
  <2> QED BY <2>3, <2>4 DEF IndexKept, Indexed, LiveRuns
<1>3. CASE Start
  <2> DEFINE t == Booted(disk)
  <2>1. /\ Indexed(t)
        /\ Indexed(disk) => \A r \in Runs : t.runs[r].state # "executing"
    BY <1>0, BootedFile
  <2>2. disk' = t /\ backup' = backup /\ boots' = boots + 1
    BY <1>3 DEF Start
  <2> HIDE DEF t
  <2>3. boots + 1 > 0 /\ (boots + 1 > 1 => boots > 0)
    BY <1>0
  <2>4. RunsAreRecovered'
    BY <2>1, <2>2, <2>3 DEF IndexKept, RunsAreRecovered, ExecutesHere
  <2>5. Indexed(disk)' /\ (backup # None => Indexed(backup))'
    BY <2>1, <2>2 DEF IndexKept, Indexed, LiveRuns
  <2> QED BY <2>2, <2>3, <2>4, <2>5 DEF IndexKept
<1>4. CASE Exit
  BY <1>4, StoreConstants DEF Exit, IndexKept, Indexed, LiveRuns, RunsAreRecovered
<1>5. CASE Backup
  BY <1>5, StoreConstants DEF Backup, IndexKept, Indexed, LiveRuns, RunsAreRecovered
<1>6. CASE RestoreRename
  BY <1>6 DEF RestoreRename, IndexKept, Indexed, LiveRuns, RunsAreRecovered
<1>7. CASE RestoreRotate
  <2>1. Rotated(disk).runs = disk.runs /\ Rotated(disk).live = disk.live
    BY <1>0, RotatedFile DEF WriterInv, LineageType
  <2> QED BY <1>7, <2>1, StoreConstants
          DEF RestoreRotate, IndexKept, Indexed, LiveRuns, RunsAreRecovered
<1>8. CASE RestoreDies
  BY <1>8, StoreConstants DEF RestoreDies, IndexKept, Indexed, LiveRuns, RunsAreRecovered
<1>9. CASE Take \/ Reply \/ Close
  BY <1>1, <1>9 DEF Take, Reply, Close
<1>10. ASSUME NEW c \in Clients, (\E k \in Keys, b \in Body : Enqueue(c, k, b)) \/ GiveUp(c)
       PROVE  UNCHANGED storeVars
  BY <1>10 DEF Enqueue, GiveUp
<1>11. CASE UNCHANGED vars
  BY <1>1, <1>11 DEF vars
<1> QED BY <1>1, <1>2, <1>3, <1>4, <1>5, <1>6, <1>7, <1>8, <1>9, <1>10, <1>11
        DEF Next, Maintenance, Drained, Fault

\* What the invariant says of the lanes: control commands have their places.
LEMMA LanesReserve == WriterInv => ControlLaneReserved
<1> SUFFICES ASSUME WriterInv PROVE ControlLaneReserved
  OBVIOUS
<1>1. /\ Len(control) \in Nat /\ Len(normal) \in Nat
      /\ Len(normal) + Executes("normal") <= NormalLimit
  BY LenProperties DEF WriterInv, TypeOK, LanesKept
<1>2. Executes("control") + Executes("normal") = IF executing # None THEN 1 ELSE 0
  BY DEF Executes, Priority
<1>3. Executes("control") \in {0, 1} /\ Executes("normal") \in {0, 1}
  BY DEF Executes
<1>4. ControlLimit \in Nat /\ NormalLimit \in Nat /\ Capacity = ControlLimit + NormalLimit
  BY WriterConstants
<1>5. Total = Len(control) + Len(normal) + Executes("control") + Executes("normal")
  BY <1>1, <1>2, <1>3 DEF Total
<1> QED BY <1>1, <1>3, <1>4, <1>5 DEF ControlLaneReserved

\* Through lost replies, repeated sends, crashes between commit and reply,
\* backups and restores the store keeps its promises: a part begins once for
\* each request that asked for it, the journal replays to the rows, the index is
\* exact while a runtime serves, no run executes for a runtime that is gone from
\* the second start on, an answer given in the present generation is in
\* the store, and control commands have their places in the queue (requests.rs,
\* control_journal.rs, run_index.rs, maintenance.rs, writer.rs).  A restore that
\* dies between its two writes after somebody was answered is excluded: the
\* generation would then stand for two lineages.
THEOREM StoreIsAlwaysSound == Spec /\ [][MidwayUntold]_vars => []StoreIsSound
<1>1. WriterInv /\ IndexKept => StoreIsSound
  BY LanesReserve DEF WriterInv, IndexKept, StoreIsSound, FileSound, PartsAreRequested, JournalReplays
<1>2. WriterInv /\ [Next]_vars /\ [MidwayUntold]_vars => WriterInv'
  BY WriterInvStep
<1>3. WriterInv /\ IndexKept /\ [Next]_vars => IndexKept'
  BY IndexKeptStep
<1> QED BY <1>1, <1>2, <1>3, WriterInvInit, IndexKeptInit, PTL DEF Spec

----------------------------------------------------------------------------
(* The refinement.                                                           *)

\* What a client of the ledger sees.
Seen == <<disk.saved, Begun(disk), Heard, Kept>>

\* The first store is the first ledger.
LEMMA LedgerStarts == Init => Ledger!LedgerInit
<1> SUFFICES ASSUME Init PROVE Ledger!LedgerInit
  OBVIOUS
<1>1. disk.saved = [k \in Keys |-> None] /\ \A r \in Runs : disk.runs[r].parts = 0
  <2>1. PICK old \in [OldRuns -> {"prepared", "executing", "ended"}] :
          disk = [runs |-> [r \in Runs |->
                              IF r \in OldRuns THEN [Absent EXCEPT !.state = old[r], !.rev = 1]
                              ELSE Absent],
                  saved |-> [k \in Keys |-> None],
                  seeded |-> FALSE, log |-> << >>, live |-> {}, gen |-> 0]
    BY DEF Init, StoreInit
  <2>2. Absent.parts = 0 /\ \A x : [Absent EXCEPT !.state = x, !.rev = 1].parts = 0
    BY DEF Absent
  <2> QED BY <2>1, <2>2
<1>2. Begun(disk) = [r \in Runs |-> 0]
  BY <1>1 DEF Begun
<1>3. Heard = {}
  BY DEF Heard, Init, StoreInit
<1>4. Kept = None
  BY DEF Kept, Init, StoreInit
<1> QED BY <1>1, <1>2, <1>3, <1>4 DEF Ledger!LedgerInit

\* Steps of the lanes and the clients are not seen.
LEMMA UntouchedIsUnseen ==
  ASSUME UNCHANGED storeVars, UNCHANGED told
  PROVE  UNCHANGED Seen
BY DEF storeVars, Seen, Begun, Heard, Kept

\* A transaction performs its request, or answers from the store and is not seen.
LEMMA ProcessPerforms ==
  ASSUME WriterInv, Process
  PROVE  Ledger!LedgerNext \/ UNCHANGED Seen
<1> DEFINE k == executing.key
           b == executing.body
<1>1. /\ executing # None
      /\ disk' = Transacted(disk, k, b)
      /\ UNCHANGED <<backup, owner, told>>
  BY DEF Process, clientVars
<1>2. k \in Keys /\ b \in Body /\ disk \in Disk /\ FileSound(disk)
  BY <1>1 DEF WriterInv, TypeOK, Task
<1>3. Kept' = Kept
  BY <1>1 DEF Kept, Begun
<1> HIDE DEF k, b
<1>4. CASE disk.saved[k] = None /\ Legal(disk, b)
  <2> DEFINE c == Committed(disk, k, b)
  <2>1. disk' = c
    <3>1. b # None
      BY <1>2, StoreConstants
    <3>2. Prior(disk, k, b) = "none"
      BY <1>4, <3>1 DEF Prior
    <3> QED BY <1>1, <1>4, <3>2 DEF Transacted
  <2>2. /\ c.saved = [disk.saved EXCEPT ![k] = b] /\ c.gen = disk.gen
        /\ \A r \in Runs : c.runs[r].parts =
             IF b.op = "part" /\ b.run = r THEN disk.runs[r].parts + 1 ELSE disk.runs[r].parts
    BY <1>2, <1>4, CommittedFile DEF WriterInv, LineageType
  <2> HIDE DEF c
  <2>3. Heard' = Heard
    BY <1>1, <2>1, <2>2 DEF Heard
  <2>4. Begun(disk)' = IF b.op = "part" THEN [Begun(disk) EXCEPT ![b.run] = @ + 1] ELSE Begun(disk)
    BY <1>2, <2>1, <2>2 DEF Begun, Body
  <2>5. Ledger!Perform(k, b)
    BY <1>3, <1>4, <2>1, <2>2, <2>3, <2>4 DEF Ledger!Perform, Ledger!Performed
  <2>6. b \in Ledger!Bodies
    BY <1>2 DEF Ledger!Bodies, Body, Ops
  <2> QED BY <1>2, <2>5, <2>6 DEF Ledger!LedgerNext
<1>5. CASE ~(disk.saved[k] = None /\ Legal(disk, b))
  <2>1. disk' = disk
    <3>1. b # None
      BY <1>2, StoreConstants
    <3> QED BY <1>1, <1>5, <3>1 DEF Transacted, Prior
  <2> QED BY <1>1, <1>3, <2>1 DEF Seen, Heard, Begun
<1> QED BY <1>4, <1>5

\* A reply that is heard tells what the store holds.
LEMMA ReplyTells ==
  ASSUME WriterInv, Reply
  PROVE  Ledger!LedgerNext \/ UNCHANGED Seen
<1> DEFINE k == executing.key
           answer == [key |-> k, body |-> executing.body, gen |-> disk.gen]
<1>1. /\ verdict # None /\ UNCHANGED storeVars
      /\ told' = told \/ (verdict = "ok" /\ told' = told \cup {answer})
  BY DEF Reply
<1>2. CASE told' = told
  BY <1>1, <1>2, UntouchedIsUnseen
<1>3. CASE verdict = "ok" /\ told' = told \cup {answer}
  <2>1. /\ k \in Keys /\ executing.body # None /\ disk.saved[k] = executing.body
        /\ owner = "runtime"
    BY <1>1, <1>3, StoreConstants DEF WriterInv, VerdictKept, TypeOK, Task
  <2>2. Heard' = Heard \cup {<<k, disk.saved[k]>>}
    <3>1. /\ Heard = {<<t.key, t.body>> : t \in {u \in told : u.gen = disk.gen}}
          /\ Heard' = {<<t.key, t.body>> : t \in {u \in told' : u.gen = disk.gen}}
      BY <1>1, <2>1 DEF Heard, storeVars
    <3>2. \A u : u \in told' /\ u.gen = disk.gen <=> (u \in told /\ u.gen = disk.gen) \/ u = answer
      BY <1>3
    <3>3. answer.key = k /\ answer.body = disk.saved[k]
      BY <2>1
    <3> HIDE DEF answer, k
    <3> QED BY <3>1, <3>2, <3>3
  <2>3. Ledger!Tell(k)
    BY <1>1, <2>1, <2>2 DEF Ledger!Tell, storeVars, Begun, Kept
  <2> QED BY <2>1, <2>3 DEF Ledger!LedgerNext
<1> QED BY <1>1, <1>2, <1>3

\* A runtime comes and goes unseen.
LEMMA RuntimeIsUnseen ==
  ASSUME WriterInv, Start \/ (status # "down" /\ Exit)
  PROVE  UNCHANGED Seen
<1>1. disk' \in Disk /\ disk'.saved = disk.saved /\ disk'.gen = disk.gen
      /\ \A r \in Runs : disk'.runs[r].parts = disk.runs[r].parts
  <2>1. disk \in Disk /\ FileSound(disk)
    BY DEF WriterInv, TypeOK
  <2>2. CASE Start
    BY <2>1, <2>2, BootedFile DEF Start
  <2>3. CASE Exit
    BY <2>1, <2>3 DEF Exit
  <2> QED BY <2>2, <2>3
<1>2. owner # "restore" /\ owner' # "restore" /\ UNCHANGED <<backup, told>>
  BY StoreConstants DEF WriterInv, TypeOK, Start, Exit, clientVars
<1>3. Begun(disk)' = Begun(disk) /\ Kept' = Kept
  BY <1>1, <1>2 DEF Begun, Kept
<1>4. Heard' = Heard
  BY <1>1, <1>2 DEF Heard
<1> QED BY <1>1, <1>3, <1>4 DEF Seen

\* A backup copies the cut; a restore rewinds to it with its first write.
LEMMA MaintenanceRewinds ==
  ASSUME WriterInv, Maintenance, MidwayUntold
  PROVE  Ledger!LedgerNext \/ UNCHANGED Seen
<1>1. /\ Backup \/ RestoreRename \/ RestoreRotate \/ RestoreDies
      /\ told' = told
  BY DEF Maintenance, clientVars
<1>2. disk \in Disk /\ disk # None /\ FileSound(disk)
  BY StoreConstants DEF WriterInv, TypeOK
<1>3. CASE Backup
  <2>1. backup' = disk /\ disk' = disk /\ owner' = owner
    BY <1>3 DEF Backup
  <2>2. Kept' = [done |-> disk.saved, parts |-> Begun(disk)]
    BY <1>2, <2>1 DEF Kept, Begun
  <2>3. Heard' = Heard
    BY <1>1, <2>1 DEF Heard
  <2>4. Ledger!Copy
    BY <2>1, <2>2, <2>3 DEF Ledger!Copy, Begun
  <2> QED BY <2>4 DEF Ledger!LedgerNext
<1>4. CASE RestoreRename
  <2>1. backup # None /\ disk' = backup /\ owner' = "restore" /\ backup' = backup
    BY <1>4 DEF RestoreRename
  <2>2. Kept # None
    <3>1. Kept = [done |-> backup.saved, parts |-> Begun(backup)]
      BY <2>1 DEF Kept
    <3>2. backup.saved \in [Keys -> Body \cup {None}] /\ Begun(backup) \in [Runs -> Nat]
      BY <2>1 DEF WriterInv, LineageType, Disk, Row, Begun
    <3> QED BY <3>1, <3>2, WriterConstants DEF Cut
  <2>3. Heard' = {}
    BY <2>1 DEF Heard
  <2>4. Ledger!Rewind
    BY <2>1, <2>2, <2>3 DEF Ledger!Rewind, Kept, Begun
  <2> QED BY <2>4 DEF Ledger!LedgerNext
<1>5. CASE RestoreRotate
  <2>1. owner = "restore" /\ disk' = Rotated(disk) /\ owner' = None /\ backup' = backup
    BY <1>5 DEF RestoreRotate
  <2>2. disk'.saved = disk.saved /\ disk'.runs = disk.runs /\ disk'.gen = restores
    BY <1>2, <2>1, RotatedFile DEF WriterInv, LineageType
  <2>3. \A a \in told : a.gen # restores
    BY <2>1, StoreConstants DEF WriterInv, LineageKept, LineageType
  <2>4. Heard = {} /\ Heard' = {}
    BY <1>1, <2>1, <2>2, <2>3, StoreConstants DEF Heard
  <2> QED BY <2>1, <2>2, <2>4 DEF Seen, Begun, Kept
<1>6. CASE RestoreDies
  <2>1. owner = "restore" /\ disk' = disk /\ owner' = None /\ backup' = backup
    BY <1>6 DEF RestoreDies
  <2>2. told = {}
    BY <2>1 DEF MidwayUntold
  <2>3. Heard = {} /\ Heard' = {}
    BY <1>1, <2>1, <2>2 DEF Heard
  <2> QED BY <2>1, <2>3 DEF Seen, Begun, Kept
<1> QED BY <1>1, <1>3, <1>4, <1>5, <1>6

\* Every step of the store and the writer is one of the ledger, or not seen.
LEMMA LedgerFollows ==
  ASSUME WriterInv, [Next]_vars, [MidwayUntold]_vars
  PROVE  Ledger!LedgerNext \/ UNCHANGED Seen
<1>1. CASE UNCHANGED vars
  BY <1>1, UntouchedIsUnseen DEF vars, clientVars
<1>2. ASSUME NEW c \in Clients, NEW k \in Keys, NEW b \in Body, Enqueue(c, k, b)
      PROVE  UNCHANGED Seen
  BY <1>2, UntouchedIsUnseen DEF Enqueue
<1>3. ASSUME NEW c \in Clients, GiveUp(c)
      PROVE  UNCHANGED Seen
  BY <1>3, UntouchedIsUnseen DEF GiveUp
<1>4. CASE Take \/ Close
  BY <1>4, UntouchedIsUnseen DEF Take, Close, clientVars
<1>5. CASE Process
  BY <1>5, ProcessPerforms
<1>6. CASE Reply
  BY <1>6, ReplyTells
<1>7. CASE Start \/ Drained \/ Fault
  BY <1>7, RuntimeIsUnseen DEF Drained, Fault
<1>8. CASE Maintenance /\ ~UNCHANGED vars
  BY <1>8, MaintenanceRewinds
<1> QED BY <1>1, <1>2, <1>3, <1>4, <1>5, <1>6, <1>7, <1>8 DEF Next

\* The store and its writer offer their clients the request ledger: one body for
\* each key, performed once, answered the same for the life of the lineage,
\* whatever is lost, repeated, crashed or restored (requests.rs, writer.rs,
\* maintenance.rs).  The exception is the same: a restore that dies between its
\* two writes after somebody was answered.
THEOREM WriterImplementsLedger == Spec /\ [][MidwayUntold]_vars => ImplementsLedger
<1>1. WriterInv /\ [Next]_vars /\ [MidwayUntold]_vars => WriterInv'
  BY WriterInvStep
<1>2. WriterInv /\ [Next]_vars /\ [MidwayUntold]_vars
        => [Ledger!LedgerNext]_(Ledger!ledgerVars)
  BY LedgerFollows DEF Seen, Ledger!ledgerVars
<1> QED
  BY <1>1, <1>2, WriterInvInit, LedgerStarts, PTL DEF Spec, ImplementsLedger, Ledger!LedgerSpec
=============================================================================
