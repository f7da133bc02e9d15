-------------------------- MODULE EvidenceJournal --------------------------
(***************************************************************************)
(* The journal of native evidence: a host publishes numbered batches, the  *)
(* platform stores each number once, applies it and moves the cursor.      *)
(* Batches may be repeated, overlap, leave a gap, carry another journal or *)
(* contradict what was committed.                                          *)
(*                                                                         *)
(* Source: crates/rx-application/src/engine/{evidence,producer}.rs.        *)
(* `applied` is the history of apply_native calls of a stream; what one    *)
(* call does to an operation is module OperationDispatch.                  *)
(***************************************************************************)
EXTENDS Naturals, Sequences, FiniteSets

CONSTANTS
    Hosts,          \* evidence producers
    Faithful,       \* hosts that number their records once and never change them
    Journals,       \* journal identities
    Ids,            \* evidence identities
    Bodies,         \* contents; a body names the operation it is about
    Nil,
    WorkHost,       \* [Bodies -> Hosts \cup {Nil}]: host of that operation, Nil if unknown
    FaithfulIds,    \* identities only faithful hosts use
    MaxSeq,         \* bound: sequence numbers
    MaxBatch,       \* bound: records of a batch (128 in the code)
    MaxSession      \* bound: producer sessions opened

Records == [id : Ids, body : Bodies]
Streams == Hosts \X Journals

ASSUME EvidenceConstants ==
    /\ Faithful \subseteq Hosts /\ FaithfulIds \subseteq Ids
    /\ WorkHost \in [Bodies -> Hosts \cup {Nil}]
    /\ MaxSeq \in Nat /\ MaxBatch \in Nat \ {0} /\ MaxSession \in Nat
    /\ Nil \notin Hosts \cup Journals \cup Records

VARIABLES
    emitted,    \* [Hosts -> Seq(Records)]: what a faithful host wrote in its journal
    producer,   \* [Hosts -> session, journal, negotiated]
    sessions,   \* sessions opened so far
    source,     \* [Hosts -> Journals or Nil]: the journal declared first
    incident,   \* streams whose change of journal was recorded
    cursor,     \* [Streams -> through, disputed]
    slot,       \* [Streams -> [1..MaxSeq -> Records or Nil]]
    owner,      \* [Ids -> Hosts or Nil]
    stored,     \* [Ids -> Records or Nil]
    applied,    \* [Streams -> Seq(Records)]
    revoked     \* hosts whose cells were blocked for an integrity conflict

vars == <<emitted, producer, sessions, source, incident, cursor, slot, owner, stored,
          applied, revoked>>

Init ==
    /\ emitted = [h \in Hosts |-> <<>>]
    /\ producer = [h \in Hosts |-> [session |-> 0, journal |-> Nil, negotiated |-> FALSE]]
    /\ sessions = 0
    /\ source = [h \in Hosts |-> Nil]
    /\ incident = {}
    /\ cursor = [s \in Streams |-> [through |-> 0, disputed |-> FALSE]]
    /\ slot = [s \in Streams |-> [n \in 1..MaxSeq |-> Nil]]
    /\ owner = [i \in Ids |-> Nil]
    /\ stored = [i \in Ids |-> Nil]
    /\ applied = [s \in Streams |-> <<>>]
    /\ revoked = {}

evidenceVars == <<source, incident, cursor, slot, owner, stored, applied, revoked>>

\* A host connects: after it or the runtime started again, with the same
\* journal or another one, it gets a new session with nothing negotiated; an
\* identical reconnect keeps the session and changes nothing.  A faithful
\* host comes back with the journal it had.
OpenEvidenceProducer(h, j) ==
    /\ h \in Faithful => producer[h].journal \in {Nil, j}
    /\ sessions < MaxSession
    /\ sessions' = sessions + 1
    /\ producer' = [producer EXCEPT ![h] =
           [session |-> sessions + 1, journal |-> j, negotiated |-> FALSE]]
    /\ UNCHANGED <<emitted, evidenceVars>>

NegotiateEvidenceCell(h) ==
    /\ producer[h].session # 0 /\ ~producer[h].negotiated
    /\ producer' = [producer EXCEPT ![h].negotiated = TRUE]
    /\ UNCHANGED <<emitted, sessions, evidenceVars>>

\* A faithful host numbers a new record, with an identity of its own.
Emit(h, r) ==
    /\ h \in Faithful /\ Len(emitted[h]) < MaxSeq
    /\ r.id \in FaithfulIds /\ WorkHost[r.body] = h
    /\ \A g \in Faithful : \A n \in 1..Len(emitted[g]) :
           emitted[g][n].id = r.id => g = h /\ emitted[g][n] = r
    /\ emitted' = [emitted EXCEPT ![h] = Append(@, r)]
    /\ UNCHANGED <<producer, sessions, evidenceVars>>

-----------------------------------------------------------------------------
(* One batch inside its transaction.  `b` is the pending state; `verdict`   *)
(* tells how the loop left: it went on, aborted, or committed a dispute.   *)
Pending(s, first) ==
    [verdict |-> "ok", seq |-> first - 1, cursor |-> cursor[s], slot |-> slot[s],
     owner |-> owner, stored |-> stored, applied |-> applied[s], revoked |-> revoked]

\* dispute_affected, which refuses to touch the work of another host.
Disputed(b, h, r) ==
    IF WorkHost[r.body] \in Hosts \ {h}
      THEN [b EXCEPT !.verdict = "aborted"]
      ELSE [b EXCEPT !.verdict = "disputed", !.cursor.disputed = TRUE,
                     !.revoked = @ \cup {h}]

\* apply_native as far as the journal is concerned: it refuses the work of
\* another host, and evidence of no known operation blocks the host's cells.
Apply(b, h, r) ==
    IF WorkHost[r.body] \in Hosts \ {h}
      THEN [b EXCEPT !.verdict = "aborted"]
      ELSE [b EXCEPT !.slot[b.seq] = r, !.stored[r.id] = r,
                     !.applied = Append(@, r), !.cursor.through = b.seq,
                     !.revoked = IF WorkHost[r.body] = Nil THEN @ \cup {h} ELSE @]

\* A slip for the mutation runs: a repeated number is applied again.
ReplayedAgain(b, h, r) == Apply(b, h, r)

\* A number the cursor has passed must repeat what was committed.
Replayed(b, h, r) ==
    IF b.slot[b.seq] # r THEN Disputed(b, h, r) ELSE b

\* The next number: its evidence identity has one content for ever.
Advanced(b, h, r) ==
    IF b.stored[r.id] \notin {Nil, r} THEN Disputed(b, h, r) ELSE Apply(b, h, r)

Ingested(b, h, r) ==
    LET c == [b EXCEPT !.seq = @ + 1, !.owner[r.id] = h]
    IN  CASE b.verdict # "ok" -> b
          [] b.verdict = "ok" /\ b.owner[r.id] \notin {Nil, h} -> [b EXCEPT !.verdict = "aborted"]
          [] OTHER -> IF c.seq <= c.cursor.through THEN Replayed(c, h, r) ELSE Advanced(c, h, r)

\* A slip for the mutation runs: a batch may start only at a number that was
\* committed before.
ContiguousBehind(s, first) == first <= cursor[s].through

\* A batch starts at or before the number after the cursor.
Contiguous(s, first) == first <= cursor[s].through + 1

\* A slip for the mutation runs: a disputed stream is read on.
UndisputedAlways(s) == TRUE

Undisputed(s) == ~cursor[s].disputed

\* The records of a batch one after the other.
Processed(h, s, first, batch) ==
    LET b[n \in 0..Len(batch)] ==
            IF n = 0 THEN Pending(s, first) ELSE Ingested(b[n - 1], h, batch[n])
    IN  b[Len(batch)]

IngestBatch(h, j, first, batch) ==
    LET s == <<h, j>>
        b == Processed(h, s, first, batch)
    IN  /\ source[h] \in {Nil, j}
        /\ Undisputed(s) /\ Contiguous(s, first)
        /\ b.verdict # "aborted"
        /\ source' = [source EXCEPT ![h] = j]
        /\ cursor' = [cursor EXCEPT ![s] = b.cursor]
        /\ slot' = [slot EXCEPT ![s] = b.slot]
        /\ owner' = b.owner /\ stored' = b.stored
        /\ applied' = [applied EXCEPT ![s] = b.applied]
        /\ revoked' = b.revoked
        /\ UNCHANGED <<incident, emitted, producer, sessions>>

\* The host speaks of a journal other than the one it declared: recorded
\* once per journal, its cells are blocked and nothing of the batch is used.
JournalChanged(h, j) ==
    /\ source[h] \notin {Nil, j}
    /\ <<h, j>> \notin incident
    /\ incident' = incident \cup {<<h, j>>}
    /\ revoked' = revoked \cup {h}
    /\ UNCHANGED <<source, cursor, slot, owner, stored, applied, emitted, producer, sessions>>

Batches == UNION {[1..n -> Records] : n \in 1..MaxBatch}

Publishable(h, j) == producer[h].journal = j /\ producer[h].negotiated

\* publish_evidence by a faithful host: any window of what it wrote, so
\* that retries, overlaps and windows that arrive late are all there.
PublishFaithful(h, j) ==
    /\ h \in Faithful /\ Publishable(h, j)
    /\ \E first \in 1..Len(emitted[h]) :
         \E last \in first..Len(emitted[h]) :
            /\ last - first < MaxBatch
            /\ IngestBatch(h, j, first, SubSeq(emitted[h], first, last))

\* publish_evidence by any other host: arbitrary content under any number.
PublishArbitrary(h, j) ==
    /\ h \notin Faithful /\ Publishable(h, j)
    /\ \/ JournalChanged(h, j)
       \/ \E first \in 1..MaxSeq : \E batch \in Batches :
            /\ first + Len(batch) - 1 <= MaxSeq
            /\ \A n \in 1..Len(batch) : batch[n].id \notin FaithfulIds
            /\ IngestBatch(h, j, first, batch)

Next ==
    \/ \E h \in Hosts, j \in Journals : OpenEvidenceProducer(h, j)
    \/ \E h \in Hosts : NegotiateEvidenceCell(h)
    \/ \E h \in Hosts, r \in Records : Emit(h, r)
    \/ \E h \in Hosts, j \in Journals : PublishFaithful(h, j)
    \/ \E h \in Hosts, j \in Journals : PublishArbitrary(h, j)

Spec == Init /\ [][Next]_vars

\* A faithful host negotiates and offers the next window until it is taken.
PublishNext(h, j) ==
    /\ PublishFaithful(h, j)
    /\ cursor'[<<h, j>>].through > cursor[<<h, j>>].through

Fairness ==
    /\ \A h \in Faithful : WF_vars(NegotiateEvidenceCell(h))
    /\ \A h \in Faithful : \A j \in Journals : WF_vars(PublishNext(h, j))

-----------------------------------------------------------------------------
TypeOK ==
    /\ emitted \in [Hosts -> Seq(Records)]
    /\ producer \in [Hosts -> [session : 0..MaxSession, journal : Journals \cup {Nil},
                               negotiated : BOOLEAN]]
    /\ sessions \in 0..MaxSession
    /\ source \in [Hosts -> Journals \cup {Nil}]
    /\ incident \subseteq Streams
    /\ cursor \in [Streams -> [through : 0..MaxSeq, disputed : BOOLEAN]]
    /\ slot \in [Streams -> [1..MaxSeq -> Records \cup {Nil}]]
    /\ owner \in [Ids -> Hosts \cup {Nil}]
    /\ stored \in [Ids -> Records \cup {Nil}]
    /\ applied \in [Streams -> Seq(Records)]
    /\ revoked \subseteq Hosts

\* The cursor a host receives stands for a full prefix: every number up to
\* it is stored, nothing beyond it is, and each was applied once, in order
\* (the loop of ingest_evidence_inner, whatever windows were sent before).
CursorIsAppliedPrefix ==
    \A s \in Streams :
        /\ applied[s] = [n \in 1..cursor[s].through |-> slot[s][n]]
        /\ \A n \in cursor[s].through + 1 .. MaxSeq : slot[s][n] = Nil

\* Retries and late windows of a host that keeps its journal never put its
\* stream in dispute, and what was applied is the beginning of what it wrote.
FaithfulIsNeverDisputed ==
    \A h \in Faithful, j \in Journals :
        /\ ~cursor[<<h, j>>].disputed /\ h \notin revoked
        /\ cursor[<<h, j>>].through <= Len(emitted[h])
        /\ applied[<<h, j>>] = SubSeq(emitted[h], 1, cursor[<<h, j>>].through)

\* An evidence identity has one owner and one content in all streams: what
\* was applied under it is what inspect_native_evidence shows its owner.
OneContentPerIdentity ==
    \A s \in Streams : \A n \in 1..Len(applied[s]) :
        /\ owner[applied[s][n].id] = s[1]
        /\ stored[applied[s][n].id] = applied[s][n]

\* A dispute or a change of journal is never silent: the host's cells were
\* blocked, and only the journal declared first was ever applied.
ConflictBlocksTheHost ==
    /\ \A s \in Streams : cursor[s].disputed \/ s \in incident => s[1] \in revoked
    /\ \A s \in Streams : applied[s] # <<>> => source[s[1]] = s[2]

\* What ingest_evidence_inner keeps, whatever a host sends and resends: the
\* four above.
EvidenceIsSound ==
    /\ CursorIsAppliedPrefix
    /\ FaithfulIsNeverDisputed
    /\ OneContentPerIdentity
    /\ ConflictBlocksTheHost

\* The journal implements the append-only log: a batch extends a stream by
\* a suffix or leaves it, `through` is its length, a dispute closes it.
Log == INSTANCE EvidenceLog WITH
           log <- applied,
           through <- [s \in Streams |-> cursor[s].through],
           closed <- [s \in Streams |-> cursor[s].disputed]

ImplementsLog == Log!LogSpec

Behind(h) ==
    /\ producer[h].journal # Nil
    /\ cursor[<<h, producer[h].journal>>].through < Len(emitted[h])

\* What a connected faithful host wrote is applied in the end, however its
\* windows were cut, repeated or delayed.
EveryRecordIsApplied == \A h \in Faithful : Behind(h) ~> ~Behind(h)
=============================================================================
