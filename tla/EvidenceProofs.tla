--------------------------- MODULE EvidenceProofs ---------------------------
(***************************************************************************)
(* The evidence journal keeps its promises, and implements the append-only *)
(* log, for any number of hosts, journals, identities and records, and for *)
(* batches of any length.                                                  *)
(*                                                                         *)
(* The invariant adds to EvidenceIsSound what a faithful host keeps of its *)
(* own journal, and that what is stored under one of its identities came   *)
(* from such a journal: without that, a late window could meet another     *)
(* content under its identity and put the stream in dispute.  A batch is a *)
(* loop; an argument about it looks at the first record after which the    *)
(* loop invariant Good would fail.                                         *)
(***************************************************************************)
EXTENDS EvidenceJournal, WellFoundedInduction, SequenceTheorems, TLAPS

\* A faithful host writes about its own work, under identities kept for such
\* hosts, and within the numbers there are.
EmittedIsOwn ==
    \A h \in Hosts :
        /\ Len(emitted[h]) <= MaxSeq
        /\ \A n \in 1..Len(emitted[h]) : /\ emitted[h][n].id \in FaithfulIds
                                         /\ WorkHost[emitted[h][n].body] = h

\* An identity of a faithful host stands for one content.
EmittedOnce ==
    \A g \in Faithful, h \in Faithful :
        \A m \in 1..Len(emitted[g]), n \in 1..Len(emitted[h]) :
            emitted[g][m].id = emitted[h][n].id => emitted[g][m] = emitted[h][n]

\* Evidence is stored under its own identity, and evidence stored under an
\* identity of the faithful hosts was written by one of them.
WellStored(f) ==
    /\ \A i \in Ids : f[i] # Nil => f[i].id = i
    /\ \A i \in FaithfulIds : f[i] # Nil =>
           \E h \in Faithful : \E n \in 1..Len(emitted[h]) : emitted[h][n] = f[i]

EvidenceInv ==
    TypeOK /\ EvidenceIsSound /\ EmittedIsOwn /\ EmittedOnce /\ WellStored(stored)

-----------------------------------------------------------------------------
(* The loop over a batch.                                                   *)

\* A set of numbers that is not empty has a least one.
LEMMA LeastNumber ==
  ASSUME NEW T, T \subseteq Nat, T # {}
  PROVE  \E n \in T : \A m \in T : n <= m
<1>1. PICK n \in T : \A m \in T : ~(<<m, n>> \in OpToRel(<, Nat))
  BY NatLessThanWellFounded, WFMin
<1>2. ASSUME NEW m \in T PROVE n <= m
  <2>1. n \in Nat /\ m \in Nat
    OBVIOUS
  <2>2. ~(m < n)
    BY <1>1, <2>1 DEF OpToRel
  <2> QED BY <2>1, <2>2
<1> QED BY <1>2

\* The first n records of a batch of host h, from the pending state R on.
Passes(f, n, R, h, batch) ==
    f = [k \in 0..n |-> IF k = 0 THEN R ELSE Ingested(f[k - 1], h, batch[k])]

\* The loop can be run to its end.
LEMMA PassesExist ==
  ASSUME NEW R, NEW h, NEW batch, NEW n \in Nat
  PROVE  \E f : Passes(f, n, R, h, batch)
<1> DEFINE T == {m \in Nat : ~\E f : Passes(f, m, R, h, batch)}
<1> SUFFICES ASSUME T # {} PROVE FALSE
  OBVIOUS
<1>1. PICK m \in T : \A k \in T : m <= k
  BY LeastNumber
<1>2. CASE m = 0
  <2> DEFINE g == [k \in 0..0 |-> R]
  <2>1. g = [k \in 0..0 |-> IF k = 0 THEN R ELSE Ingested(g[k - 1], h, batch[k])]
    OBVIOUS
  <2> QED BY <1>2, <2>1 DEF Passes
<1>3. CASE m # 0
  <2>1. m - 1 \in Nat /\ m \in Nat /\ m - 1 \notin T
    BY <1>1, <1>3
  <2>2. PICK g : Passes(g, m - 1, R, h, batch)
    BY <2>1
  <2> DEFINE f == [k \in 0..m |-> IF k = m THEN Ingested(g[m - 1], h, batch[m]) ELSE g[k]]
  <2>3. ASSUME NEW k \in 0..m
        PROVE  f[k] = IF k = 0 THEN R ELSE Ingested(f[k - 1], h, batch[k])
    <3>1. CASE k = m
      <4>1. m - 1 \in 0..m /\ m - 1 # m /\ f[m - 1] = g[m - 1]
        BY <2>1
      <4> QED BY <3>1, <4>1, <1>3
    <3>2. CASE k # m
      <4>1. k \in 0..(m - 1) /\ f[k] = g[k]
        BY <3>2, <2>1
      <4>2. g[k] = IF k = 0 THEN R ELSE Ingested(g[k - 1], h, batch[k])
        BY <4>1, <2>2 DEF Passes
      <4>3. k # 0 => k - 1 \in 0..m /\ k - 1 # m /\ f[k - 1] = g[k - 1]
        BY <4>1, <2>1
      <4> QED BY <4>1, <4>2, <4>3
    <3> QED BY <3>1, <3>2
  <2>4. f = [k \in 0..m |-> IF k = 0 THEN R ELSE Ingested(f[k - 1], h, batch[k])]
    BY <2>3
  <2>5. Passes(f, m, R, h, batch)
    BY <2>4 DEF Passes
  <2> QED BY <2>5
<1> QED BY <1>2, <1>3

\* What holds before the first record and is kept by every record holds after
\* the last one; Q says for each number of records what holds after them.
LEMMA BatchLoop ==
  ASSUME NEW h, NEW s, NEW first, NEW batch, Len(batch) \in Nat, NEW Q,
         Pending(s, first) \in Q[0],
         \A k \in 1..Len(batch) : \A x \in Q[k - 1] : Ingested(x, h, batch[k]) \in Q[k]
  PROVE  Processed(h, s, first, batch) \in Q[Len(batch)]
<1> DEFINE R == Pending(s, first)
           n == Len(batch)
           Loop(f) == f = [k \in 0..n |-> IF k = 0 THEN R ELSE Ingested(f[k - 1], h, batch[k])]
           f == CHOOSE f : Loop(f)
<1>1. \E g : Passes(g, n, R, h, batch)
  BY PassesExist
<1>2. \E g : Loop(g)
  BY <1>1 DEF Passes
<1>3. Loop(f)
  BY <1>2
<1>4. Processed(h, s, first, batch) = f[n]
  BY DEF Processed
<1> HIDE DEF f
<1>5. f[0] = R /\ \A k \in 1..n : f[k] = Ingested(f[k - 1], h, batch[k])
  BY <1>3
<1> DEFINE T == {k \in 0..n : f[k] \notin Q[k]}
<1>6. T = {}
  <2> SUFFICES ASSUME T # {} PROVE FALSE
    OBVIOUS
  <2>0. T \subseteq Nat
    OBVIOUS
  <2> HIDE DEF T
  <2>1. PICK m \in T : \A k \in T : m <= k
    BY LeastNumber, <2>0
  <2> USE DEF T
  <2>2. m # 0
    BY <2>1, <1>5
  <2>3. m \in 1..n /\ m - 1 \in 0..n /\ m - 1 \notin T
    BY <2>1, <2>2
  <2> QED BY <2>1, <2>3, <1>5
<1> QED BY <1>4, <1>6

-----------------------------------------------------------------------------
(* One record of a batch.                                                   *)

Cursor == [through : 0..MaxSeq, disputed : BOOLEAN]

PendingRecord ==
    [verdict : {"ok", "aborted", "disputed"}, seq : Nat, cursor : Cursor,
     slot : [1..MaxSeq -> Records \cup {Nil}], owner : [Ids -> Hosts \cup {Nil}],
     stored : [Ids -> Records \cup {Nil}], applied : Seq(Records), revoked : SUBSET Hosts]

\* The numbers up to the cursor are stored and applied, once and in order, each
\* under an identity that is the host's and has this content.
Full(b, h) ==
    /\ b.applied = [n \in 1..b.cursor.through |-> b.slot[n]]
    /\ \A n \in b.cursor.through + 1 .. MaxSeq : b.slot[n] = Nil
    /\ \A n \in 1..b.cursor.through :
           /\ b.slot[n] \in Records
           /\ b.owner[b.slot[n].id] = h /\ b.stored[b.slot[n].id] = b.slot[n]

\* The batch has only added to what was committed, and a dispute blocks the host.
Grown(b, s) ==
    /\ cursor[s].through <= b.cursor.through
    /\ \A n \in 1..cursor[s].through : b.slot[n] = slot[s][n]
    /\ \A i \in Ids : owner[i] # Nil => b.owner[i] = owner[i]
    /\ \A i \in Ids : stored[i] # Nil => b.stored[i] = stored[i]
    /\ b.revoked \in {revoked, revoked \cup {s[1]}}
    /\ b.cursor.disputed => s[1] \in b.revoked

\* A faithful host is not disputed, and has what it wrote.
Trusted(b, h) ==
    h \in Faithful =>
        /\ b.verdict # "disputed" /\ ~b.cursor.disputed /\ b.revoked = revoked
        /\ b.cursor.through <= Len(emitted[h])
        /\ \A n \in 1..b.cursor.through : b.slot[n] = emitted[h][n]

\* The pending state after k records of a batch that starts at first.
Good(b, s, first, k) ==
    b.verdict # "aborted" =>
        /\ Full(b, s[1]) /\ Grown(b, s) /\ Trusted(b, s[1]) /\ WellStored(b.stored)
        /\ b.cursor.through <= cursor[s].through + k
        /\ b.verdict = "ok" => b.seq = first - 1 + k /\ b.seq <= b.cursor.through

\* What a host may send under number n.
Sendable(h, n, r) ==
    /\ h \in Faithful => n <= Len(emitted[h]) /\ r = emitted[h][n]
    /\ h \notin Faithful => r.id \notin FaithfulIds

\* A record that is new takes the number after the cursor.
LEMMA ApplyKeeps ==
  ASSUME EmittedIsOwn, EmittedOnce, TypeOK,
         NEW h \in Hosts, NEW s \in Streams, s[1] = h,
         NEW first \in Nat \ {0}, NEW k \in Nat, first + k <= MaxSeq,
         NEW c \in PendingRecord, c.verdict = "ok", c.seq = first + k,
         c.seq = c.cursor.through + 1,
         Full(c, h), Grown(c, s), Trusted(c, h), WellStored(c.stored),
         c.cursor.through <= cursor[s].through + k,
         NEW r \in Records, Sendable(h, first + k, r), c.owner[r.id] = h,
         c.stored[r.id] \in {Nil, r}
  PROVE  Apply(c, h, r) \in PendingRecord /\ Good(Apply(c, h, r), s, first, k + 1)
<1>0. Nil \notin Records /\ MaxSeq \in Nat /\ WorkHost \in [Bodies -> Hosts \cup {Nil}]
  BY EvidenceConstants
<1>1. CASE WorkHost[r.body] \in Hosts \ {h}
  BY <1>1 DEF Apply, PendingRecord, Good
<1>2. CASE WorkHost[r.body] \notin Hosts \ {h}
  <2> DEFINE d == Apply(c, h, r)
             n == c.seq
  <2>1. /\ d.verdict = "ok" /\ d.seq = n /\ d.owner = c.owner
        /\ d.cursor = [through |-> n, disputed |-> c.cursor.disputed]
        /\ d.slot = [c.slot EXCEPT ![n] = r]
        /\ d.stored = [c.stored EXCEPT ![r.id] = r]
        /\ d.applied = Append(c.applied, r)
        /\ d.revoked = IF WorkHost[r.body] = Nil THEN c.revoked \cup {h} ELSE c.revoked
        /\ d = [verdict |-> "ok", seq |-> n, cursor |-> d.cursor, slot |-> d.slot,
                owner |-> d.owner, stored |-> d.stored, applied |-> d.applied,
                revoked |-> d.revoked]
    BY <1>2 DEF Apply, PendingRecord, Cursor
  <2>2. n \in 1..MaxSeq /\ c.cursor.through = n - 1 /\ r.id \in Ids /\ r.body \in Bodies
    BY <1>0 DEF PendingRecord, Cursor, Records
  <2>10. \A m \in 1..n : m \in 1..MaxSeq /\ (m # n => m \in 1..(n - 1))
    BY <1>0, <2>2
  <2>3. d \in PendingRecord
    <3>1. d.cursor \in Cursor
      BY <2>1, <2>2 DEF PendingRecord, Cursor
    <3>2. d.slot \in [1..MaxSeq -> Records \cup {Nil}]
      BY <2>1, <2>2 DEF PendingRecord
    <3>3. d.stored \in [Ids -> Records \cup {Nil}]
      BY <2>1, <2>2 DEF PendingRecord
    <3>4. d.applied \in Seq(Records)
      BY <2>1 DEF PendingRecord
    <3>5. d.owner \in [Ids -> Hosts \cup {Nil}] /\ d.revoked \in SUBSET Hosts /\ n \in Nat
      BY <2>1 DEF PendingRecord
    <3> QED BY <2>1, <3>1, <3>2, <3>3, <3>4, <3>5 DEF PendingRecord
  <2> HIDE DEF d
  <2>4. d.slot \in [1..MaxSeq -> Records \cup {Nil}] /\ d.slot[n] = r
        /\ \A m \in 1..MaxSeq : m # n => d.slot[m] = c.slot[m]
    BY <2>1, <2>2, <2>3 DEF PendingRecord
  <2>5. Full(d, h)
    <3>1. d.applied = [m \in 1..n |-> d.slot[m]]
      <4>1. c.applied \in Seq(Records) /\ c.applied = [m \in 1..(n - 1) |-> c.slot[m]]
        BY <2>2 DEF Full, PendingRecord
      <4>2. Len(c.applied) = n - 1
        BY <4>1, <2>2
      <4>3. d.applied = [m \in 1..n |-> IF m = n THEN r ELSE c.applied[m]]
        BY <2>1, <2>2, <4>1, <4>2
      <4>4. ASSUME NEW m \in 1..n PROVE d.applied[m] = d.slot[m]
        BY <4>1, <4>3, <2>4, <2>10
      <4> QED BY <4>3, <4>4
    <3>2. \A m \in n + 1 .. MaxSeq : d.slot[m] = Nil
      BY <2>2, <2>4 DEF Full
    <3>3. ASSUME NEW m \in 1..n
          PROVE  /\ d.slot[m] \in Records
                 /\ d.owner[d.slot[m].id] = h /\ d.stored[d.slot[m].id] = d.slot[m]
      <4>1. CASE m = n
        BY <4>1, <2>1, <2>2, <2>4 DEF PendingRecord
      <4>2. CASE m # n
        <5>1. m \in 1..(n - 1) /\ d.slot[m] = c.slot[m]
          BY <4>2, <2>10, <2>4
        <5>2. /\ c.slot[m] \in Records
              /\ c.owner[c.slot[m].id] = h /\ c.stored[c.slot[m].id] = c.slot[m]
          BY <5>1, <2>2 DEF Full
        <5>3. c.slot[m].id \in Ids
          BY <5>2 DEF Records
        <5>4. d.stored[c.slot[m].id] = c.slot[m]
          BY <1>0, <2>1, <5>2, <5>3 DEF PendingRecord
        <5> QED BY <5>1, <5>2, <5>4, <2>1
      <4> QED BY <4>1, <4>2
    <3> QED BY <3>1, <3>2, <3>3, <2>1 DEF Full
  <2>6. Grown(d, s)
    <3>1. cursor[s].through \in Nat /\ cursor[s].through <= n - 1
      BY <2>2 DEF Grown, TypeOK
    <3>2. cursor[s].through <= d.cursor.through
      BY <3>1, <2>1, <2>2
    <3>3. \A m \in 1..cursor[s].through : d.slot[m] = slot[s][m]
      <4>1. \A m \in 1..cursor[s].through : m \in 1..n /\ m # n
        BY <3>1, <2>2
      <4> QED BY <4>1, <2>4, <2>10 DEF Grown
    <3>4. \A i \in Ids : owner[i] # Nil => d.owner[i] = owner[i]
      BY <2>1 DEF Grown
    <3>5. \A i \in Ids : stored[i] # Nil => d.stored[i] = stored[i]
      BY <2>1 DEF Grown, PendingRecord
    <3>6. d.revoked \in {revoked, revoked \cup {s[1]}}
      BY <2>1 DEF Grown
    <3>7. d.cursor.disputed => s[1] \in d.revoked
      BY <2>1 DEF Grown
    <3> QED BY <3>2, <3>3, <3>4, <3>5, <3>6, <3>7 DEF Grown
  <2>7. Trusted(d, h)
    <3> SUFFICES ASSUME h \in Faithful PROVE Trusted(d, h)
      BY DEF Trusted
    <3>1. n <= Len(emitted[h]) /\ r = emitted[h][n]
      BY DEF Sendable
    <3>2. WorkHost[r.body] = h /\ h # Nil
      BY <2>2, <3>1, EvidenceConstants DEF EmittedIsOwn, TypeOK
    <3>3. ASSUME NEW m \in 1..n PROVE d.slot[m] = emitted[h][m]
      <4>1. CASE m = n
        BY <4>1, <2>4, <3>1
      <4>2. CASE m # n
        <5>1. m \in 1..c.cursor.through /\ d.slot[m] = c.slot[m]
          BY <4>2, <2>2, <2>4, <2>10
        <5> QED BY <5>1 DEF Trusted
      <4> QED BY <4>1, <4>2
    <3> QED BY <2>1, <3>1, <3>2, <3>3 DEF Trusted
  <2>8. WellStored(d.stored)
    <3>1. \A i \in Ids : d.stored[i] # Nil => d.stored[i].id = i
      BY <2>1, <2>2 DEF WellStored, PendingRecord
    <3>2. ASSUME NEW i \in FaithfulIds, d.stored[i] # Nil
          PROVE  \E g \in Faithful : \E m \in 1..Len(emitted[g]) : emitted[g][m] = d.stored[i]
      <4>1. i \in Ids
        BY EvidenceConstants
      <4>2. CASE i # r.id
        <5>1. d.stored[i] = c.stored[i]
          BY <4>1, <4>2, <2>1 DEF PendingRecord
        <5> QED BY <5>1, <3>2 DEF WellStored
      <4>3. CASE i = r.id
        <5>1. d.stored[i] = r
          BY <4>1, <4>3, <2>1 DEF PendingRecord
        <5>2. h \in Faithful /\ n <= Len(emitted[h]) /\ r = emitted[h][n]
          BY <4>3 DEF Sendable
        <5>3. n \in 1..Len(emitted[h])
          BY <2>2, <5>2 DEF TypeOK
        <5> QED BY <5>1, <5>2, <5>3
      <4> QED BY <4>2, <4>3
    <3> QED BY <3>1, <3>2 DEF WellStored
  <2>9. /\ d.cursor.through <= cursor[s].through + (k + 1)
        /\ d.seq = first - 1 + (k + 1) /\ d.seq <= d.cursor.through
    BY <2>1, <2>2 DEF TypeOK, Grown
  <2> QED BY <2>1, <2>3, <2>5, <2>6, <2>7, <2>8, <2>9 DEF Good, d
<1> QED BY <1>1, <1>2

\* A dispute closes the stream and blocks the host; a faithful host never meets
\* one.
LEMMA DisputeKeeps ==
  ASSUME NEW h \in Hosts, NEW s \in Streams, s[1] = h, h \notin Faithful,
         NEW first \in Nat \ {0}, NEW k \in Nat,
         NEW c \in PendingRecord, c.verdict = "ok",
         Full(c, h), Grown(c, s), WellStored(c.stored), cursor[s].through \in Nat,
         c.cursor.through <= cursor[s].through + k,
         NEW r \in Records
  PROVE  Disputed(c, h, r) \in PendingRecord /\ Good(Disputed(c, h, r), s, first, k + 1)
<1>1. CASE WorkHost[r.body] \in Hosts \ {h}
  BY <1>1 DEF Disputed, PendingRecord, Good
<1>2. CASE WorkHost[r.body] \notin Hosts \ {h}
  <2> DEFINE d == Disputed(c, h, r)
  <2>1. /\ d.verdict = "disputed" /\ d.seq = c.seq /\ d.owner = c.owner
        /\ d.cursor = [through |-> c.cursor.through, disputed |-> TRUE]
        /\ d.slot = c.slot /\ d.stored = c.stored /\ d.applied = c.applied
        /\ d.revoked = c.revoked \cup {h}
        /\ d = [verdict |-> "disputed", seq |-> d.seq, cursor |-> d.cursor, slot |-> d.slot,
                owner |-> d.owner, stored |-> d.stored, applied |-> d.applied,
                revoked |-> d.revoked]
    BY <1>2 DEF Disputed, PendingRecord, Cursor
  <2>2. d.cursor \in Cursor /\ d.revoked \in SUBSET Hosts
    BY <2>1 DEF PendingRecord, Cursor
  <2>3. d \in PendingRecord
    BY <2>1, <2>2 DEF PendingRecord
  <2> HIDE DEF d
  <2>4. Full(d, h)
    BY <2>1 DEF Full
  <2>5. Grown(d, s)
    BY <2>1 DEF Grown
  <2>6. Trusted(d, h) /\ WellStored(d.stored)
    BY <2>1 DEF Trusted
  <2>7. d.cursor.through <= cursor[s].through + (k + 1)
    BY <2>1 DEF PendingRecord, Cursor
  <2> QED BY <2>1, <2>3, <2>4, <2>5, <2>6, <2>7 DEF Good, d
<1> QED BY <1>1, <1>2

\* One record, in a loop that goes on, aborts or commits a dispute.
LEMMA OneRecord ==
  ASSUME EmittedIsOwn, EmittedOnce, TypeOK,
         NEW h \in Hosts, NEW s \in Streams, s[1] = h,
         NEW first \in Nat \ {0}, NEW k \in Nat, first + k <= MaxSeq,
         NEW b \in PendingRecord, Good(b, s, first, k),
         NEW r \in Records, Sendable(h, first + k, r)
  PROVE  Ingested(b, h, r) \in PendingRecord /\ Good(Ingested(b, h, r), s, first, k + 1)
<1>0. Nil \notin Records /\ MaxSeq \in Nat /\ cursor[s].through \in Nat /\ r.id \in Ids
  BY EvidenceConstants DEF TypeOK, Records
<1>1. CASE b.verdict # "ok"
  <2>1. Ingested(b, h, r) = b
    BY <1>1 DEF Ingested
  <2>2. Good(b, s, first, k + 1)
    BY <1>0, <1>1 DEF Good, PendingRecord, Cursor
  <2> QED BY <2>1, <2>2
<1>2. CASE b.verdict = "ok" /\ b.owner[r.id] \notin {Nil, h}
  <2>1. Ingested(b, h, r) = [b EXCEPT !.verdict = "aborted"]
    BY <1>2 DEF Ingested
  <2> QED BY <2>1 DEF PendingRecord, Good
<1>3. CASE b.verdict = "ok" /\ b.owner[r.id] \in {Nil, h}
  <2> DEFINE c == [b EXCEPT !.seq = @ + 1, !.owner[r.id] = h]
  <2>1. Ingested(b, h, r) =
          IF c.seq <= c.cursor.through THEN Replayed(c, h, r) ELSE Advanced(c, h, r)
    BY <1>3 DEF Ingested
  <2>2. /\ c.verdict = "ok" /\ c.seq = b.seq + 1 /\ c.owner = [b.owner EXCEPT ![r.id] = h]
        /\ c.cursor = b.cursor /\ c.slot = b.slot /\ c.stored = b.stored
        /\ c.applied = b.applied /\ c.revoked = b.revoked
    BY <1>3 DEF PendingRecord
  <2>3. [b.owner EXCEPT ![r.id] = h] \in [Ids -> Hosts \cup {Nil}] /\ b.seq + 1 \in Nat
    BY <1>0 DEF PendingRecord
  <2>4. c \in PendingRecord
    BY <2>3 DEF PendingRecord
  <2> HIDE DEF c
  <2>5. /\ Full(b, h) /\ Grown(b, s) /\ Trusted(b, h) /\ WellStored(b.stored)
        /\ b.cursor.through <= cursor[s].through + k
        /\ b.seq = first - 1 + k /\ b.seq <= b.cursor.through
    BY <1>3 DEF Good
  <2>6. c.owner[r.id] = h
    BY <1>0, <2>2 DEF PendingRecord
  <2>7. \A i \in Ids : b.owner[i] # Nil => c.owner[i] = b.owner[i]
    BY <1>0, <1>3, <2>2 DEF PendingRecord
  <2>8. Full(c, h)
    <3>1. ASSUME NEW n \in 1..b.cursor.through PROVE c.owner[b.slot[n].id] = h
      <4>1. b.slot[n] \in Records /\ b.owner[b.slot[n].id] = h
        BY <2>5 DEF Full
      <4> QED BY <4>1, <2>7, EvidenceConstants DEF Records
    <3> QED BY <2>2, <2>5, <3>1 DEF Full
  <2>9. Grown(c, s)
    <3>1. \A i \in Ids : owner[i] # Nil => c.owner[i] = owner[i]
      BY <2>5, <2>7 DEF Grown
    <3> QED BY <2>2, <2>5, <3>1 DEF Grown
  <2>10. Trusted(c, h) /\ WellStored(c.stored)
    BY <2>2, <2>5 DEF Trusted
  <2>11. c.seq = first + k /\ c.cursor.through \in Nat
         /\ c.cursor.through <= cursor[s].through + k /\ c.seq <= c.cursor.through + 1
    BY <2>2, <2>5 DEF PendingRecord, Cursor
  <2>12. CASE c.seq <= c.cursor.through
    <3>1. CASE c.slot[c.seq] = r
      <4>1. Ingested(b, h, r) = c
        BY <2>1, <2>12, <3>1 DEF Replayed
      <4>2. Good(c, s, first, k + 1)
        BY <1>0, <2>2, <2>8, <2>9, <2>10, <2>11, <2>12 DEF Good
      <4> QED BY <4>1, <4>2, <2>4
    <3>2. CASE c.slot[c.seq] # r
      <4>1. h \notin Faithful
        <5>1. c.seq \in 1..c.cursor.through
          BY <2>11, <2>12
        <5> QED BY <5>1, <3>2, <2>10, <2>11 DEF Trusted, Sendable
      <4>2. Ingested(b, h, r) = Disputed(c, h, r)
        BY <2>1, <2>12, <3>2 DEF Replayed
      <4> QED BY <4>1, <4>2, <1>0, <2>2, <2>4, <2>8, <2>9, <2>10, <2>11, DisputeKeeps
    <3> QED BY <3>1, <3>2
  <2>13. CASE ~(c.seq <= c.cursor.through)
    <3>0. c.seq = c.cursor.through + 1
      BY <2>11, <2>13
    <3>1. CASE c.stored[r.id] \in {Nil, r}
      <4>1. Ingested(b, h, r) = Apply(c, h, r)
        BY <2>1, <2>13, <3>1 DEF Advanced
      <4>2. c.verdict = "ok" /\ c.seq = first + k /\ c.cursor.through <= cursor[s].through + k
        BY <2>2, <2>11
      <4>3. Apply(c, h, r) \in PendingRecord /\ Good(Apply(c, h, r), s, first, k + 1)
        BY <4>2, <3>0, <3>1, <2>4, <2>6, <2>8, <2>9, <2>10, ApplyKeeps
      <4> QED BY <4>1, <4>3
    <3>2. CASE c.stored[r.id] \notin {Nil, r}
      <4>1. h \notin Faithful
        <5> SUFFICES ASSUME h \in Faithful PROVE FALSE
          OBVIOUS
        <5>1. first + k <= Len(emitted[h]) /\ r = emitted[h][first + k]
          BY DEF Sendable
        <5>2. first + k \in 1..Len(emitted[h])
          BY <5>1 DEF TypeOK
        <5>3. r.id \in FaithfulIds
          BY <5>1, <5>2 DEF EmittedIsOwn
        <5>4. c.stored[r.id] # Nil /\ c.stored[r.id].id = r.id
          BY <3>2, <1>0, <2>10 DEF WellStored
        <5>5. PICK g \in Faithful : \E n \in 1..Len(emitted[g]) : emitted[g][n] = c.stored[r.id]
          BY <5>3, <5>4, <2>10 DEF WellStored
        <5>6. c.stored[r.id] = r
          BY <5>1, <5>2, <5>4, <5>5 DEF EmittedOnce
        <5> QED BY <5>6, <3>2
      <4>2. Ingested(b, h, r) = Disputed(c, h, r)
        BY <2>1, <2>13, <3>2 DEF Advanced
      <4> QED BY <4>1, <4>2, <1>0, <2>2, <2>4, <2>8, <2>9, <2>10, <2>11, DisputeKeeps
    <3> QED BY <3>1, <3>2
  <2> QED BY <2>12, <2>13
<1> QED BY <1>1, <1>2, <1>3

-----------------------------------------------------------------------------
(* A batch.                                                                 *)

\* What a batch leaves to be committed.
LEMMA BatchKeeps ==
  ASSUME EvidenceInv, NEW h \in Hosts, NEW s \in Streams, s[1] = h,
         NEW first \in Nat \ {0}, NEW batch \in Seq(Records),
         first + Len(batch) - 1 <= MaxSeq, Contiguous(s, first), Undisputed(s),
         \A k \in 1..Len(batch) : Sendable(h, first + k - 1, batch[k])
  PROVE  /\ Processed(h, s, first, batch) \in PendingRecord
         /\ Good(Processed(h, s, first, batch), s, first, Len(batch))
<1> DEFINE Q == [k \in 0..Len(batch) |-> {b \in PendingRecord : Good(b, s, first, k)}]
           R == Pending(s, first)
<1>0. TypeOK /\ EmittedIsOwn /\ EmittedOnce /\ Len(batch) \in Nat /\ MaxSeq \in Nat
  BY EvidenceConstants DEF EvidenceInv
<1>1. R \in PendingRecord
  BY <1>0 DEF Pending, PendingRecord, Cursor, TypeOK
<1>2. Good(R, s, first, 0)
  <2>1. /\ R.verdict = "ok" /\ R.seq = first - 1 /\ R.cursor = cursor[s] /\ R.slot = slot[s]
        /\ R.owner = owner /\ R.stored = stored /\ R.applied = applied[s]
        /\ R.revoked = revoked
    BY DEF Pending
  <2> HIDE DEF R
  <2>2. applied[s] \in Seq(Records) /\ cursor[s].through \in 0..MaxSeq
        /\ slot[s] \in [1..MaxSeq -> Records \cup {Nil}]
    BY <1>0 DEF TypeOK
  <2>3. /\ applied[s] = [n \in 1..cursor[s].through |-> slot[s][n]]
        /\ \A n \in cursor[s].through + 1 .. MaxSeq : slot[s][n] = Nil
    BY DEF EvidenceInv, EvidenceIsSound, CursorIsAppliedPrefix
  <2>4. Len(applied[s]) = cursor[s].through
    BY <2>2, <2>3
  <2>5. ASSUME NEW n \in 1..cursor[s].through
        PROVE  /\ slot[s][n] \in Records
               /\ owner[slot[s][n].id] = h /\ stored[slot[s][n].id] = slot[s][n]
    <3>1. n \in 1..Len(applied[s]) /\ applied[s][n] = slot[s][n]
      BY <2>3, <2>4
    <3>2. applied[s][n] \in Records
      BY <3>1, <2>2
    <3> QED BY <3>1, <3>2 DEF EvidenceInv, EvidenceIsSound, OneContentPerIdentity
  <2>6. Full(R, h)
    BY <2>1, <2>3, <2>5 DEF Full
  <2>7. Grown(R, s)
    BY <2>1, <2>2 DEF Grown, Undisputed
  <2>8. Trusted(R, h)
    <3> SUFFICES ASSUME h \in Faithful PROVE Trusted(R, h)
      BY DEF Trusted
    <3>1. PICK j \in Journals : s = <<h, j>>
      BY DEF Streams
    <3>2. /\ ~cursor[s].disputed /\ cursor[s].through <= Len(emitted[h])
          /\ applied[s] = SubSeq(emitted[h], 1, cursor[s].through)
      BY <3>1 DEF EvidenceInv, EvidenceIsSound, FaithfulIsNeverDisputed
    <3>3. emitted[h] \in Seq(Records)
      BY <1>0 DEF TypeOK
    <3>4. ASSUME NEW n \in 1..cursor[s].through PROVE slot[s][n] = emitted[h][n]
      BY <2>2, <2>3, <3>2, <3>3
    <3> QED BY <2>1, <3>2, <3>4 DEF Trusted
  <2>9. WellStored(R.stored)
    BY <2>1 DEF EvidenceInv
  <2>10. R.seq = first - 1 + 0 /\ R.seq <= R.cursor.through
         /\ R.cursor.through <= cursor[s].through + 0
    BY <2>1, <2>2 DEF Contiguous
  <2> QED BY <2>1, <2>6, <2>7, <2>8, <2>9, <2>10 DEF Good
<1>3. R \in Q[0]
  BY <1>0, <1>1, <1>2
<1>4. ASSUME NEW k \in 1..Len(batch), NEW x \in Q[k - 1]
      PROVE  Ingested(x, h, batch[k]) \in Q[k]
  <2>1. k - 1 \in Nat /\ k - 1 \in 0..Len(batch) /\ k \in 0..Len(batch) /\ (k - 1) + 1 = k
        /\ first + (k - 1) = first + k - 1 /\ first + (k - 1) <= MaxSeq
    BY <1>0
  <2>2. x \in PendingRecord /\ Good(x, s, first, k - 1)
    BY <2>1
  <2>3. batch[k] \in Records /\ Sendable(h, first + (k - 1), batch[k])
    BY <2>1
  <2>4. /\ Ingested(x, h, batch[k]) \in PendingRecord
        /\ Good(Ingested(x, h, batch[k]), s, first, (k - 1) + 1)
    BY <1>0, <2>1, <2>2, <2>3, OneRecord
  <2> QED BY <2>1, <2>4
<1> HIDE DEF Q
<1>5. Processed(h, s, first, batch) \in Q[Len(batch)]
  BY <1>0, <1>3, <1>4, BatchLoop
<1> USE DEF Q
<1> QED BY <1>0, <1>5

\* A batch that is committed keeps the invariant and extends the log of its
\* stream by the records that were new.
LEMMA IngestKeeps ==
  ASSUME EvidenceInv, NEW h \in Hosts, NEW j \in Journals,
         NEW first \in Nat \ {0}, NEW batch \in Seq(Records), Len(batch) <= MaxBatch,
         first + Len(batch) - 1 <= MaxSeq,
         \A k \in 1..Len(batch) : Sendable(h, first + k - 1, batch[k]),
         IngestBatch(h, j, first, batch)
  PROVE  EvidenceInv' /\ Log!Extend(<<h, j>>)
<1> DEFINE s == <<h, j>>
           b == Processed(h, s, first, batch)
<1>0. TypeOK /\ s \in Streams /\ s[1] = h /\ s[2] = j /\ MaxSeq \in Nat /\ Len(batch) \in Nat
      /\ Nil \notin Records
  BY EvidenceConstants DEF EvidenceInv, Streams
<1>1. /\ source[h] \in {Nil, j} /\ Undisputed(s) /\ Contiguous(s, first)
      /\ b.verdict # "aborted"
      /\ source' = [source EXCEPT ![h] = j]
      /\ cursor' = [cursor EXCEPT ![s] = b.cursor]
      /\ slot' = [slot EXCEPT ![s] = b.slot]
      /\ owner' = b.owner /\ stored' = b.stored
      /\ applied' = [applied EXCEPT ![s] = b.applied]
      /\ revoked' = b.revoked
      /\ UNCHANGED <<incident, emitted, producer, sessions>>
  BY DEF IngestBatch
<1>2. b \in PendingRecord /\ Good(b, s, first, Len(batch))
  BY <1>0, <1>1, BatchKeeps
<1> HIDE DEF b, s
<1>3. /\ Full(b, h) /\ Grown(b, s) /\ Trusted(b, h) /\ WellStored(b.stored)
      /\ b.cursor.through <= cursor[s].through + Len(batch)
  BY <1>0, <1>1, <1>2 DEF Good
<1>4. TypeOK'
  <2>1. source' \in [Hosts -> Journals \cup {Nil}]
    BY <1>0, <1>1 DEF TypeOK
  <2>2. cursor' \in [Streams -> [through : 0..MaxSeq, disputed : BOOLEAN]]
    BY <1>0, <1>1, <1>2 DEF TypeOK, PendingRecord, Cursor
  <2>3. slot' \in [Streams -> [1..MaxSeq -> Records \cup {Nil}]]
    BY <1>0, <1>1, <1>2 DEF TypeOK, PendingRecord
  <2>4. applied' \in [Streams -> Seq(Records)]
    BY <1>0, <1>1, <1>2 DEF TypeOK, PendingRecord
  <2>5. owner' \in [Ids -> Hosts \cup {Nil}] /\ stored' \in [Ids -> Records \cup {Nil}]
        /\ revoked' \subseteq Hosts
    BY <1>1, <1>2 DEF PendingRecord
  <2>6. /\ emitted' \in [Hosts -> Seq(Records)]
        /\ producer' \in [Hosts -> [session : 0..MaxSession, journal : Journals \cup {Nil},
                                    negotiated : BOOLEAN]]
        /\ sessions' \in 0..MaxSession /\ incident' \subseteq Streams
    BY <1>0, <1>1 DEF TypeOK
  <2> QED BY <2>1, <2>2, <2>3, <2>4, <2>5, <2>6 DEF TypeOK
<1>5. /\ cursor'[s] = b.cursor /\ slot'[s] = b.slot /\ applied'[s] = b.applied
      /\ source'[h] = j
      /\ \A t \in Streams \ {s} : /\ cursor'[t] = cursor[t] /\ slot'[t] = slot[t]
                                  /\ applied'[t] = applied[t]
      /\ \A g \in Hosts \ {h} : source'[g] = source[g]
  BY <1>0, <1>1 DEF TypeOK
<1>6. CursorIsAppliedPrefix'
  <2> SUFFICES ASSUME NEW t \in Streams
               PROVE  /\ applied'[t] = [n \in 1..cursor'[t].through |-> slot'[t][n]]
                      /\ \A n \in cursor'[t].through + 1 .. MaxSeq : slot'[t][n] = Nil
    BY DEF CursorIsAppliedPrefix
  <2>1. CASE t = s
    BY <2>1, <1>3, <1>5 DEF Full
  <2>2. CASE t # s
    BY <2>2, <1>5 DEF EvidenceInv, EvidenceIsSound, CursorIsAppliedPrefix
  <2> QED BY <2>1, <2>2
<1>7. FaithfulIsNeverDisputed'
  <2> SUFFICES ASSUME NEW g \in Faithful, NEW i \in Journals
               PROVE  /\ ~cursor'[<<g, i>>].disputed /\ g \notin revoked'
                      /\ cursor'[<<g, i>>].through <= Len(emitted[g])
                      /\ applied'[<<g, i>>] = SubSeq(emitted[g], 1, cursor'[<<g, i>>].through)
    BY <1>1 DEF FaithfulIsNeverDisputed
  <2> DEFINE t == <<g, i>>
  <2>0. g \in Hosts /\ t \in Streams /\ t[1] = g /\ emitted[g] \in Seq(Records)
    BY <1>0, EvidenceConstants DEF Streams, TypeOK
  <2>1. /\ ~cursor[t].disputed /\ g \notin revoked /\ cursor[t].through <= Len(emitted[g])
        /\ applied[t] = SubSeq(emitted[g], 1, cursor[t].through)
    BY DEF EvidenceInv, EvidenceIsSound, FaithfulIsNeverDisputed
  <2> HIDE DEF t
  <2>2. g \notin revoked'
    <3>1. CASE g = h
      BY <3>1, <2>1, <1>1, <1>3 DEF Trusted
    <3>2. CASE g # h
      BY <3>2, <2>1, <1>0, <1>1, <1>3 DEF Grown
    <3> QED BY <3>1, <3>2
  <2>3. CASE t # s
    BY <2>0, <2>1, <2>2, <2>3, <1>5 DEF t
  <2>4. CASE t = s
    <3>1. g = h
      BY <2>0, <2>4, <1>0
    <3>2. /\ ~b.cursor.disputed /\ b.cursor.through <= Len(emitted[g])
          /\ \A n \in 1..b.cursor.through : b.slot[n] = emitted[g][n]
      BY <3>1, <1>3 DEF Trusted
    <3>3. b.cursor.through \in Nat
      BY <1>2 DEF PendingRecord, Cursor
    <3>4. b.applied = SubSeq(emitted[g], 1, b.cursor.through)
      <4>1. b.applied = [n \in 1..b.cursor.through |-> emitted[g][n]]
        BY <3>2, <1>3 DEF Full
      <4> QED BY <4>1, <3>2, <3>3, <2>0
    <3> QED BY <3>2, <3>4, <2>2, <2>4, <1>5 DEF t
  <2> QED BY <2>3, <2>4
<1>8. OneContentPerIdentity'
  <2> SUFFICES ASSUME NEW t \in Streams, NEW n \in 1..Len(applied'[t])
               PROVE  /\ owner'[applied'[t][n].id] = t[1]
                      /\ stored'[applied'[t][n].id] = applied'[t][n]
    BY DEF OneContentPerIdentity
  <2>1. CASE t = s
    <3>1. b.cursor.through \in Nat
      BY <1>2 DEF PendingRecord, Cursor
    <3>2. n \in 1..b.cursor.through /\ applied'[t][n] = b.slot[n]
      BY <3>1, <2>1, <1>3, <1>5 DEF Full
    <3> QED BY <3>2, <2>1, <1>0, <1>1, <1>3 DEF Full
  <2>2. CASE t # s
    <3>1. n \in 1..Len(applied[t]) /\ applied'[t][n] = applied[t][n]
      BY <2>2, <1>5
    <3>2. applied[t][n] \in Records
      BY <3>1, <1>0 DEF TypeOK
    <3>3. /\ owner[applied[t][n].id] = t[1] /\ stored[applied[t][n].id] = applied[t][n]
      BY <3>1 DEF EvidenceInv, EvidenceIsSound, OneContentPerIdentity
    <3>4. t[1] # Nil /\ applied[t][n].id \in Ids /\ applied[t][n] # Nil
      BY <3>2, EvidenceConstants DEF Streams, Records
    <3>5. /\ b.owner[applied[t][n].id] = t[1] /\ b.stored[applied[t][n].id] = applied[t][n]
      BY <3>3, <3>4, <1>3 DEF Grown
    <3> QED BY <3>1, <3>5, <1>1
  <2> QED BY <2>1, <2>2
<1>9. ConflictBlocksTheHost'
  <2>1. revoked \subseteq revoked'
    BY <1>1, <1>3 DEF Grown
  <2>2. ASSUME NEW t \in Streams, cursor'[t].disputed \/ t \in incident'
        PROVE  t[1] \in revoked'
    <3>1. CASE t = s /\ cursor'[t].disputed
      BY <3>1, <1>0, <1>1, <1>3, <1>5 DEF Grown
    <3>2. CASE t # s \/ t \in incident
      BY <3>2, <2>1, <2>2, <1>1, <1>5
         DEF EvidenceInv, EvidenceIsSound, ConflictBlocksTheHost
    <3> QED BY <2>2, <3>1, <3>2, <1>1
  <2>3. ASSUME NEW t \in Streams, applied'[t] # <<>> PROVE source'[t[1]] = t[2]
    <3>1. CASE t = s
      BY <3>1, <1>0, <1>5
    <3>2. CASE t # s
      <4>1. source[t[1]] = t[2]
        BY <3>2, <2>3, <1>5 DEF EvidenceInv, EvidenceIsSound, ConflictBlocksTheHost
      <4>2. t[1] \in Hosts /\ t[2] \in Journals /\ t = <<t[1], t[2]>>
        BY DEF Streams
      <4>3. t[1] # h
        <5> SUFFICES ASSUME t[1] = h PROVE FALSE
          OBVIOUS
        <5>1. t[2] = j
          BY <4>1, <4>2, <1>1, EvidenceConstants
        <5> QED BY <5>1, <4>2, <3>2 DEF s
      <4> QED BY <4>1, <4>2, <4>3, <1>5
    <3> QED BY <3>1, <3>2
  <2> QED BY <2>2, <2>3 DEF ConflictBlocksTheHost
<1>10. EmittedIsOwn' /\ EmittedOnce' /\ WellStored(stored)'
  BY <1>1, <1>3 DEF EvidenceInv, EmittedIsOwn, EmittedOnce, WellStored
<1>11. Log!Extend(s)
  <2> DEFINE was == cursor[s].through
             new == b.cursor.through
             suffix == [n \in 1..(new - was) |-> b.slot[was + n]]
  <2>1. was \in Nat /\ new \in 0..MaxSeq /\ was <= new /\ new - was \in 0..MaxBatch
    BY <1>0, <1>2, <1>3, EvidenceConstants DEF TypeOK, PendingRecord, Cursor, Grown
  <2>2. suffix \in Log!Suffixes
    <3>1. ASSUME NEW n \in 1..(new - was) PROVE b.slot[was + n] \in Records
      <4>1. was + n \in 1..new
        BY <2>1
      <4> QED BY <4>1, <1>3 DEF Full
    <3>2. suffix \in [1..(new - was) -> Records]
      BY <3>1
    <3> QED BY <2>1, <3>2 DEF Log!Suffixes
  <2>3. b.applied = applied[s] \o suffix
    <3>1. /\ applied[s] = [n \in 1..was |-> slot[s][n]]
          /\ b.applied = [n \in 1..new |-> b.slot[n]]
      BY <1>0, <1>3 DEF EvidenceInv, EvidenceIsSound, CursorIsAppliedPrefix, Full
    <3>2. \A n \in 1..was : b.slot[n] = slot[s][n]
      BY <1>3 DEF Grown
    <3>3. applied[s] \in Seq(Records) /\ b.applied \in Seq(Records)
      BY <1>0, <1>2 DEF TypeOK, PendingRecord
    <3>4. Len(applied[s]) = was /\ Len(b.applied) = new
      BY <3>1, <3>3, <2>1
    <3>5. suffix \in Seq(Records) /\ Len(suffix) = new - was
      <4>1. \A n \in 1..(new - was) : was + n \in 1..new
        BY <2>1
      <4>2. \A n \in 1..(new - was) : b.slot[was + n] \in Records
        BY <4>1, <1>3 DEF Full
      <4> QED BY <4>2, <2>1
    <3> HIDE DEF suffix
    <3>6. applied[s] \o suffix \in Seq(Records) /\ Len(applied[s] \o suffix) = new
      <4>1. /\ applied[s] \o suffix \in Seq(Records)
            /\ Len(applied[s] \o suffix) = Len(applied[s]) + Len(suffix)
        BY <3>3, <3>5, ConcatProperties
      <4> QED BY <4>1, <3>4, <3>5, <2>1
    <3>7. ASSUME NEW n \in 1..new PROVE (applied[s] \o suffix)[n] = b.applied[n]
      <4>1. CASE n <= was
        <5>1. n \in 1..was
          BY <4>1, <2>1
        <5>2. (applied[s] \o suffix)[n] = applied[s][n]
          BY <5>1, <3>3, <3>4, <3>5
        <5> QED BY <5>1, <5>2, <3>1, <3>2
      <4>2. CASE ~(n <= was)
        <5>1. n - was \in 1..(new - was) /\ was + (n - was) = n
          BY <4>2, <2>1
        <5>2. (applied[s] \o suffix)[n] = suffix[n - was]
          <6>1. n \in 1..(Len(applied[s]) + Len(suffix)) /\ ~(n <= Len(applied[s]))
            BY <4>2, <3>4, <3>5, <2>1
          <6>2. (applied[s] \o suffix)[n] = suffix[n - Len(applied[s])]
            BY <6>1, <3>3, <3>5, ConcatProperties
          <6> QED BY <6>2, <3>4
        <5>3. suffix[n - was] = b.slot[n]
          BY <5>1 DEF suffix
        <5> QED BY <5>2, <5>3, <3>1
      <4> QED BY <4>1, <4>2
    <3> QED BY <3>3, <3>4, <3>6, <3>7, SeqEqual
  <2>4. applied' = [applied EXCEPT ![s] = @ \o suffix]
    BY <2>3, <1>1
  <2> DEFINE thr == [t \in Streams |-> cursor[t].through]
             dis == [t \in Streams |-> cursor[t].disputed]
  <2>5. Len(applied'[s]) = new
    BY <1>2, <1>3, <1>5, <2>1 DEF Full, PendingRecord
  <2>6. thr' = [thr EXCEPT ![s] = Len(applied'[s])]
    BY <2>5, <1>0, <1>5
  <2>7. dis' = [dis EXCEPT ![s] = b.cursor.disputed] /\ b.cursor.disputed \in BOOLEAN
    BY <1>0, <1>2, <1>5 DEF PendingRecord, Cursor
  <2>8. ~dis[s]
    BY <1>0, <1>1 DEF Undisputed
  <2> QED BY <2>2, <2>4, <2>6, <2>7, <2>8 DEF Log!Extend
<1> QED BY <1>4, <1>6, <1>7, <1>8, <1>9, <1>10, <1>11 DEF EvidenceInv, EvidenceIsSound, s

-----------------------------------------------------------------------------
(* The other steps, and the theorems.                                       *)

\* Connecting, negotiating and a change of journal leave what was applied alone.
LEMMA ConnectionKeeps ==
  ASSUME EvidenceInv,
         \/ \E h \in Hosts, j \in Journals : OpenEvidenceProducer(h, j)
         \/ \E h \in Hosts \ Faithful, j \in Journals : JournalChanged(h, j)
         \/ \E h \in Hosts : NegotiateEvidenceCell(h)
         \/ UNCHANGED vars
  PROVE  EvidenceInv' /\ UNCHANGED <<applied, cursor>>
<1>0. TypeOK /\ EvidenceIsSound
  BY DEF EvidenceInv
<1>1. /\ UNCHANGED <<emitted, source, cursor, slot, owner, stored, applied>>
      /\ revoked \subseteq revoked' /\ revoked' \cap Faithful = revoked \cap Faithful
      /\ \A t \in Streams : t \in incident' => t \in incident \/ t[1] \in revoked'
  <2>1. ASSUME NEW h \in Hosts, NEW j \in Journals, OpenEvidenceProducer(h, j) PROVE <1>1!:
    BY <2>1 DEF OpenEvidenceProducer, evidenceVars
  <2>2. ASSUME NEW h \in Hosts \ Faithful, NEW j \in Journals, JournalChanged(h, j)
        PROVE  <1>1!:
    BY <2>2 DEF JournalChanged
  <2>3. ASSUME NEW h \in Hosts, NegotiateEvidenceCell(h) PROVE <1>1!:
    BY <2>3 DEF NegotiateEvidenceCell, evidenceVars
  <2>4. ASSUME UNCHANGED vars PROVE <1>1!:
    BY <2>4 DEF vars
  <2> QED BY <2>1, <2>2, <2>3, <2>4
<1>2. TypeOK'
  <2>1. ASSUME NEW h \in Hosts, NEW j \in Journals, OpenEvidenceProducer(h, j) PROVE TypeOK'
    <3>1. sessions' = sessions + 1 /\ sessions' \in 0..MaxSession
      BY <1>0, <2>1, EvidenceConstants DEF OpenEvidenceProducer, TypeOK
    <3>2. producer' \in [Hosts -> [session : 0..MaxSession, journal : Journals \cup {Nil},
                                   negotiated : BOOLEAN]]
      BY <1>0, <2>1, <3>1 DEF OpenEvidenceProducer, TypeOK
    <3> QED BY <1>0, <1>1, <2>1, <3>1, <3>2 DEF OpenEvidenceProducer, TypeOK, evidenceVars
  <2>2. ASSUME NEW h \in Hosts, NEW j \in Journals, JournalChanged(h, j) PROVE TypeOK'
    BY <1>0, <2>2 DEF JournalChanged, TypeOK, Streams
  <2>3. ASSUME NEW h \in Hosts, NegotiateEvidenceCell(h) PROVE TypeOK'
    <3>1. producer' \in [Hosts -> [session : 0..MaxSession, journal : Journals \cup {Nil},
                                   negotiated : BOOLEAN]]
      BY <1>0, <2>3 DEF NegotiateEvidenceCell, TypeOK
    <3> QED BY <1>0, <1>1, <2>3, <3>1 DEF NegotiateEvidenceCell, TypeOK, evidenceVars
  <2>4. ASSUME UNCHANGED vars PROVE TypeOK'
    BY <1>0, <2>4 DEF vars, TypeOK
  <2> QED BY <2>1, <2>2, <2>3, <2>4
<1>3. CursorIsAppliedPrefix'
  BY <1>0, <1>1 DEF EvidenceIsSound, CursorIsAppliedPrefix
<1>4. FaithfulIsNeverDisputed'
  BY <1>0, <1>1 DEF EvidenceIsSound, FaithfulIsNeverDisputed
<1>5. OneContentPerIdentity'
  BY <1>0, <1>1 DEF EvidenceIsSound, OneContentPerIdentity
<1>6. ConflictBlocksTheHost'
  BY <1>0, <1>1 DEF EvidenceIsSound, ConflictBlocksTheHost
<1>7. EmittedIsOwn' /\ EmittedOnce' /\ WellStored(stored)'
  BY <1>1 DEF EvidenceInv, EmittedIsOwn, EmittedOnce, WellStored
<1> QED BY <1>1, <1>2, <1>3, <1>4, <1>5, <1>6, <1>7 DEF EvidenceInv, EvidenceIsSound

\* A faithful host writes its next record.
LEMMA EmitKeeps ==
  ASSUME EvidenceInv, NEW h \in Hosts, NEW r \in Records, Emit(h, r)
  PROVE  EvidenceInv' /\ UNCHANGED <<applied, cursor>>
<1>0. TypeOK /\ EvidenceIsSound /\ MaxSeq \in Nat /\ h \in Faithful
  BY EvidenceConstants DEF EvidenceInv, Emit
<1>1. UNCHANGED <<producer, sessions, source, incident, cursor, slot, owner, stored,
                  applied, revoked>>
  BY DEF Emit, evidenceVars
<1>2. /\ emitted' = [emitted EXCEPT ![h] = Append(emitted[h], r)]
      /\ Len(emitted[h]) < MaxSeq /\ r.id \in FaithfulIds /\ WorkHost[r.body] = h
      /\ \A g \in Faithful : \A n \in 1..Len(emitted[g]) :
             emitted[g][n].id = r.id => emitted[g][n] = r
  BY DEF Emit
<1>3. /\ emitted[h] \in Seq(Records) /\ emitted' \in [Hosts -> Seq(Records)]
      /\ emitted'[h] = Append(emitted[h], r)
      /\ \A g \in Hosts \ {h} : emitted'[g] = emitted[g]
  BY <1>0, <1>2 DEF TypeOK
<1>4. /\ Len(emitted'[h]) = Len(emitted[h]) + 1
      /\ emitted'[h][Len(emitted[h]) + 1] = r
      /\ \A n \in 1..Len(emitted[h]) : emitted'[h][n] = emitted[h][n]
      /\ \A n \in 1..Len(emitted'[h]) : n \in 1..Len(emitted[h]) \/ n = Len(emitted[h]) + 1
  BY <1>3
<1>5. TypeOK'
  BY <1>0, <1>1, <1>3 DEF TypeOK
<1>6. EmittedIsOwn'
  <2> SUFFICES ASSUME NEW g \in Hosts
               PROVE  /\ Len(emitted'[g]) <= MaxSeq
                      /\ \A n \in 1..Len(emitted'[g]) : /\ emitted'[g][n].id \in FaithfulIds
                                                        /\ WorkHost[emitted'[g][n].body] = g
    BY DEF EmittedIsOwn
  <2>1. CASE g = h
    BY <2>1, <1>0, <1>2, <1>3, <1>4 DEF EvidenceInv, EmittedIsOwn
  <2>2. CASE g # h
    BY <2>2, <1>3 DEF EvidenceInv, EmittedIsOwn
  <2> QED BY <2>1, <2>2
<1>7. ASSUME NEW g \in Faithful, NEW n \in 1..Len(emitted'[g])
      PROVE  \/ n \in 1..Len(emitted[g]) /\ emitted'[g][n] = emitted[g][n]
             \/ emitted'[g][n] = r
  <2>1. CASE g = h
    BY <2>1, <1>3, <1>4
  <2>2. CASE g # h
    BY <2>2, <1>3, EvidenceConstants
  <2> QED BY <2>1, <2>2
<1>8. EmittedOnce'
  BY <1>2, <1>7 DEF EvidenceInv, EmittedOnce
<1>9. ASSUME NEW g \in Faithful, NEW n \in 1..Len(emitted[g])
      PROVE  n \in 1..Len(emitted'[g]) /\ emitted'[g][n] = emitted[g][n]
  <2>1. CASE g = h
    BY <2>1, <1>3, <1>4
  <2>2. CASE g # h
    BY <2>2, <1>3, EvidenceConstants
  <2> QED BY <2>1, <2>2
<1>10. WellStored(stored)'
  BY <1>1, <1>9 DEF EvidenceInv, WellStored
<1>11. FaithfulIsNeverDisputed'
  <2> SUFFICES ASSUME NEW g \in Faithful, NEW j \in Journals
               PROVE  /\ cursor[<<g, j>>].through <= Len(emitted'[g])
                      /\ applied[<<g, j>>] = SubSeq(emitted'[g], 1, cursor[<<g, j>>].through)
    BY <1>0, <1>1 DEF FaithfulIsNeverDisputed, EvidenceIsSound
  <2> DEFINE m == cursor[<<g, j>>].through
  <2>1. m <= Len(emitted[g]) /\ applied[<<g, j>>] = SubSeq(emitted[g], 1, m)
    BY <1>0 DEF FaithfulIsNeverDisputed, EvidenceIsSound
  <2>2. m \in Nat /\ emitted[g] \in Seq(Records) /\ emitted'[g] \in Seq(Records)
    BY <1>0, <1>3, EvidenceConstants DEF TypeOK, Streams
  <2> HIDE DEF m
  <2>3. m <= Len(emitted'[g])
    BY <2>1, <2>2, <1>3, <1>4, EvidenceConstants
  <2>4. SubSeq(emitted[g], 1, m) = [n \in 1..m |-> emitted[g][n]]
        /\ SubSeq(emitted'[g], 1, m) = [n \in 1..m |-> emitted'[g][n]]
    BY <2>1, <2>2, <2>3
  <2>5. ASSUME NEW n \in 1..m PROVE emitted'[g][n] = emitted[g][n]
    BY <2>1, <2>2, <1>9
  <2> QED BY <2>1, <2>3, <2>4, <2>5 DEF m
<1>12. CursorIsAppliedPrefix' /\ OneContentPerIdentity' /\ ConflictBlocksTheHost'
  BY <1>0, <1>1 DEF EvidenceIsSound, CursorIsAppliedPrefix, OneContentPerIdentity,
                    ConflictBlocksTheHost
<1> QED BY <1>1, <1>5, <1>6, <1>8, <1>10, <1>11, <1>12 DEF EvidenceInv, EvidenceIsSound

\* Whatever is published, by a faithful host or by any other.
LEMMA PublishKeeps ==
  ASSUME EvidenceInv, NEW h \in Hosts, NEW j \in Journals,
         PublishFaithful(h, j) \/ PublishArbitrary(h, j)
  PROVE  EvidenceInv' /\ (UNCHANGED <<applied, cursor>> \/ Log!Extend(<<h, j>>))
<1>0. emitted[h] \in Seq(Records) /\ MaxSeq \in Nat /\ MaxBatch \in Nat
      /\ Len(emitted[h]) <= MaxSeq
  BY EvidenceConstants DEF EvidenceInv, TypeOK, EmittedIsOwn
<1>1. CASE PublishFaithful(h, j)
  <2>1. PICK first \in 1..Len(emitted[h]) : \E last \in first..Len(emitted[h]) :
               /\ last - first < MaxBatch
               /\ IngestBatch(h, j, first, SubSeq(emitted[h], first, last))
    BY <1>1 DEF PublishFaithful
  <2>2. PICK last \in first..Len(emitted[h]) :
               /\ last - first < MaxBatch
               /\ IngestBatch(h, j, first, SubSeq(emitted[h], first, last))
    BY <2>1
  <2> DEFINE batch == SubSeq(emitted[h], first, last)
  <2>3. first \in Nat \ {0} /\ last \in Nat /\ first <= last /\ last <= Len(emitted[h])
    BY <1>0
  <2>4. batch \in Seq(Records) /\ Len(batch) = last - first + 1
        /\ \A k \in 1..Len(batch) : batch[k] = emitted[h][first + k - 1]
    BY <1>0, <2>3
  <2> HIDE DEF batch
  <2>5. Len(batch) <= MaxBatch /\ first + Len(batch) - 1 <= MaxSeq
    BY <1>0, <2>2, <2>3, <2>4
  <2>6. ASSUME NEW k \in 1..Len(batch) PROVE Sendable(h, first + k - 1, batch[k])
    <3>1. first + k - 1 <= Len(emitted[h])
      BY <1>0, <2>3, <2>4
    <3> QED BY <3>1, <2>4, <1>1 DEF Sendable, PublishFaithful
  <2>7. IngestBatch(h, j, first, batch)
    BY <2>2 DEF batch
  <2> QED BY <2>3, <2>4, <2>5, <2>6, <2>7, IngestKeeps
<1>2. CASE PublishArbitrary(h, j)
  <2>0. h \notin Faithful
    BY <1>2 DEF PublishArbitrary
  <2>1. CASE JournalChanged(h, j)
    BY <2>0, <2>1, ConnectionKeeps
  <2>2. CASE \E first \in 1..MaxSeq : \E batch \in Batches :
               /\ first + Len(batch) - 1 <= MaxSeq
               /\ \A n \in 1..Len(batch) : batch[n].id \notin FaithfulIds
               /\ IngestBatch(h, j, first, batch)
    <3>1. PICK first \in 1..MaxSeq, batch \in Batches :
               /\ first + Len(batch) - 1 <= MaxSeq
               /\ \A n \in 1..Len(batch) : batch[n].id \notin FaithfulIds
               /\ IngestBatch(h, j, first, batch)
      BY <2>2
    <3>2. PICK n \in 1..MaxBatch : batch \in [1..n -> Records]
      BY DEF Batches
    <3>3. batch \in Seq(Records) /\ Len(batch) = n /\ Len(batch) <= MaxBatch
      BY <1>0, <3>2
    <3>4. \A k \in 1..Len(batch) : Sendable(h, first + k - 1, batch[k])
      BY <3>1, <2>0 DEF Sendable
    <3>5. first \in Nat \ {0}
      BY <1>0
    <3> QED BY <3>1, <3>3, <3>4, <3>5, IngestKeeps
  <2> QED BY <1>2, <2>1, <2>2 DEF PublishArbitrary
<1> QED BY <1>1, <1>2

\* Nothing is applied at first.
LEMMA EvidenceInvInit == Init => EvidenceInv /\ Log!LogInit
<1> SUFFICES ASSUME Init PROVE EvidenceInv /\ Log!LogInit
  OBVIOUS
<1>0. MaxSeq \in Nat /\ MaxSession \in Nat /\ Faithful \subseteq Hosts
  BY EvidenceConstants
<1>1. TypeOK
  <2>1. \A S : <<>> \in Seq(S)
    OBVIOUS
  <2>2. emitted \in [Hosts -> Seq(Records)] /\ applied \in [Streams -> Seq(Records)]
    BY <2>1 DEF Init
  <2> QED BY <1>0, <2>2 DEF Init, TypeOK
<1>2. CursorIsAppliedPrefix
  BY <1>0 DEF Init, CursorIsAppliedPrefix
<1>3. FaithfulIsNeverDisputed
  BY <1>0 DEF Init, FaithfulIsNeverDisputed, Streams
<1>4. OneContentPerIdentity
  BY DEF Init, OneContentPerIdentity
<1>5. ConflictBlocksTheHost
  BY DEF Init, ConflictBlocksTheHost
<1>6. EmittedIsOwn /\ EmittedOnce
  BY <1>0 DEF Init, EmittedIsOwn, EmittedOnce
<1>7. WellStored(stored)
  BY EvidenceConstants DEF Init, WellStored
<1>8. Log!LogInit
  BY DEF Init, Log!LogInit
<1> QED BY <1>1, <1>2, <1>3, <1>4, <1>5, <1>6, <1>7, <1>8 DEF EvidenceInv, EvidenceIsSound

\* Every step keeps the invariant and is a step of the log or leaves it alone.
LEMMA EvidenceInvStep ==
  EvidenceInv /\ [Next]_vars
    => EvidenceInv' /\ [\E s \in Streams : Log!Extend(s)]_(Log!logVars)
<1> SUFFICES ASSUME EvidenceInv, [Next]_vars
             PROVE  EvidenceInv' /\ (UNCHANGED <<applied, cursor>>
                                      \/ \E s \in Streams : Log!Extend(s))
  BY DEF Log!logVars
<1>1. ASSUME NEW h \in Hosts, NEW j \in Journals, OpenEvidenceProducer(h, j)
      PROVE  EvidenceInv' /\ UNCHANGED <<applied, cursor>>
  BY <1>1, ConnectionKeeps
<1>2. ASSUME NEW h \in Hosts, NegotiateEvidenceCell(h)
      PROVE  EvidenceInv' /\ UNCHANGED <<applied, cursor>>
  BY <1>2, ConnectionKeeps
<1>3. ASSUME NEW h \in Hosts, NEW r \in Records, Emit(h, r)
      PROVE  EvidenceInv' /\ UNCHANGED <<applied, cursor>>
  BY <1>3, EmitKeeps
<1>4. ASSUME NEW h \in Hosts, NEW j \in Journals, PublishFaithful(h, j) \/ PublishArbitrary(h, j)
      PROVE  EvidenceInv' /\ (UNCHANGED <<applied, cursor>> \/ \E s \in Streams : Log!Extend(s))
  <2>1. <<h, j>> \in Streams
    BY DEF Streams
  <2> QED BY <1>4, <2>1, PublishKeeps
<1>5. CASE UNCHANGED vars
  BY <1>5, ConnectionKeeps
<1> QED BY <1>1, <1>2, <1>3, <1>4, <1>5 DEF Next

\* Whatever hosts send and resend, a cursor stands for a full prefix that was
\* stored and applied once and in order, a host that keeps its journal is never
\* disputed, an identity has one owner and one content, and a dispute or a change
\* of journal blocks the host's cells (ingest_evidence_inner).
THEOREM EvidenceIsAlwaysSound == Spec => []EvidenceIsSound
<1>1. Init => EvidenceInv
  BY EvidenceInvInit
<1>2. EvidenceInv /\ [Next]_vars => EvidenceInv'
  BY EvidenceInvStep
<1>3. EvidenceInv => EvidenceIsSound
  BY DEF EvidenceInv
<1> QED BY <1>1, <1>2, <1>3, PTL DEF Spec

\* The journal implements the append-only log: every batch extends one stream that
\* is not closed by a suffix no longer than the batch, and the cursor is the length
\* of the log (ingest_evidence_inner).
THEOREM JournalImplementsLog == Spec => ImplementsLog
<1>1. Init => EvidenceInv /\ Log!LogInit
  BY EvidenceInvInit
<1>2. EvidenceInv /\ [Next]_vars
        => EvidenceInv' /\ [\E s \in Streams : Log!Extend(s)]_(Log!logVars)
  BY EvidenceInvStep
<1> QED BY <1>1, <1>2, PTL DEF Spec, ImplementsLog, Log!LogSpec
=============================================================================
