-------------------------- MODULE InterventionProofs --------------------------
(* What people do about a stopped cell, for any number of cells, cases,       *)
(* people, reports, holds, operations, upsets and plans: nobody works in a    *)
(* cell that is not contained, a closed case leaves its cells blocked, and    *)
(* resources are freed safely.                                                *)
(*                                                                            *)
(* Cases, not inductive as it stands: that a closure, which removes the       *)
(* blocks of its cohort, leaves the block it adds itself is so because every  *)
(* block a case refers to was added in an epoch that has begun                *)
(* (BlocksArePast).                                                           *)
EXTENDS Settlement, Intervention, TLAPS

-----------------------------------------------------------------------------
(* The cases.                                                                 *)

\* Every block a case refers to is of an epoch its cell has entered.
BlocksArePast ==
  \A k \in Cases : case[k] # Absent =>
    \A b \in case[k].blocks : b.at <= cells[b.cell].epoch

CaseInv == InterventionIsSound /\ BlocksArePast

----------------------------------------------------------------------------
(* The cells.                                                                *)

\* invalidate_closure gives every cell a new epoch and one block, which no case
\* refers to yet.
LEMMA InvalidatedCells ==
  ASSUME CaseTypeOK, BlocksArePast
  PROVE  /\ Invalidated(cells) \in [Cells -> CaseCell]
         /\ NewBlocks(cells) \subseteq Blocks
         /\ \A c \in Cells :
              /\ Invalidated(cells)[c].epoch = cells[c].epoch + 1
              /\ Invalidated(cells)[c].blocks
                   = cells[c].blocks \cup {Block(c, cells[c].epoch + 1, Absent)}
              /\ Invalidated(cells)[c].open = cells[c].open
              /\ Block(c, cells[c].epoch + 1, Absent) \in NewBlocks(cells)
              /\ \A k \in Cases : case[k] # Absent =>
                   Block(c, cells[c].epoch + 1, Absent) \notin case[k].blocks
         /\ \A b \in NewBlocks(cells) : b.at = cells[b.cell].epoch + 1
<1>1. cells \in [Cells -> CaseCell]
  BY DEF CaseTypeOK
<1>2. ASSUME NEW c \in Cells
      PROVE  /\ Block(c, cells[c].epoch + 1, Absent) \in Blocks
             /\ Block(c, cells[c].epoch + 1, Absent).cell = c
             /\ Block(c, cells[c].epoch + 1, Absent).at = cells[c].epoch + 1
  BY <1>1 DEF Block, Blocks, CaseCell
<1>3. NewBlocks(cells) \subseteq Blocks
  BY <1>2 DEF NewBlocks
<1>4. ASSUME NEW c \in Cells
      PROVE  /\ Invalidated(cells)[c] \in CaseCell
             /\ Invalidated(cells)[c].epoch = cells[c].epoch + 1
             /\ Invalidated(cells)[c].open = cells[c].open
             /\ Invalidated(cells)[c].blocks
                  = cells[c].blocks \cup {Block(c, cells[c].epoch + 1, Absent)}
  <2> DEFINE z == Block(c, cells[c].epoch + 1, Absent)
             x == cells[c]
  <2>1. x \in CaseCell /\ z \in Blocks
    BY <1>1, <1>2
  <2>2. Invalidated(cells)[c] = [x EXCEPT !.epoch = @ + 1, !.blocks = @ \cup {z}]
    BY DEF Invalidated
  <2> HIDE DEF z, x
  <2>3. [x EXCEPT !.epoch = @ + 1, !.blocks = @ \cup {z}] \in CaseCell
    <3>1. x.epoch + 1 \in Nat /\ x.blocks \cup {z} \in SUBSET Blocks
      BY <2>1 DEF CaseCell
    <3>2. \A e \in Nat, bs \in SUBSET Blocks : [x EXCEPT !.epoch = e, !.blocks = bs] \in CaseCell
      BY <2>1 DEF CaseCell
    <3> QED
      BY <3>1, <3>2
  <2>4. /\ Invalidated(cells)[c].epoch = x.epoch + 1 /\ Invalidated(cells)[c].open = x.open
        /\ Invalidated(cells)[c].blocks = x.blocks \cup {z}
    BY <2>1, <2>2 DEF CaseCell
  <2> QED
    BY <2>2, <2>3, <2>4 DEF z, x
<1>5. Invalidated(cells) \in [Cells -> CaseCell]
  <2>1. Invalidated(cells) = [c \in Cells |-> Invalidated(cells)[c]]
    BY DEF Invalidated
  <2> QED
    BY <1>4, <2>1
<1>6. ASSUME NEW c \in Cells, NEW k \in Cases, case[k] # Absent
      PROVE  Block(c, cells[c].epoch + 1, Absent) \notin case[k].blocks
  <2>1. cells[c].epoch \in Nat
    BY <1>1 DEF CaseCell
  <2> QED
    BY <1>2, <1>6, <2>1 DEF BlocksArePast
<1>7. \A b \in NewBlocks(cells) : b.at = cells[b.cell].epoch + 1
  BY <1>2 DEF NewBlocks
<1>8. \A c \in Cells : Block(c, cells[c].epoch + 1, Absent) \in NewBlocks(cells)
  BY DEF NewBlocks
<1> QED
  BY <1>3, <1>4, <1>5, <1>6, <1>7, <1>8

\* A step that keeps the blocks of the cells, lets no epoch fall and touches
\* no case keeps the invariant's parts about the cases.
LEMMA CasesKept ==
  ASSUME CaseInv, case' = case, CaseTypeOK',
         \A c \in Cells : /\ cells[c].blocks \subseteq cells'[c].blocks
                          /\ cells[c].open \subseteq cells'[c].open
                          /\ cells[c].epoch <= cells'[c].epoch
  PROVE  CaseInv'
<1>0. CaseTypeOK /\ NobodyWorksUncontained /\ ClosedCellStaysBlocked /\ BlocksArePast
  BY DEF CaseInv, InterventionIsSound
<1>1. NobodyWorksUncontained'
  BY <1>0 DEF NobodyWorksUncontained
<1>2. ClosedCellStaysBlocked'
  BY <1>0 DEF ClosedCellStaysBlocked
<1>3. BlocksArePast'
  <2> SUFFICES ASSUME NEW k \in Cases, case[k] # Absent, NEW b \in case[k].blocks
               PROVE  b.at <= cells'[b.cell].epoch
    BY DEF BlocksArePast
  <2>1. b \in Blocks
    BY <1>0 DEF CaseTypeOK, CaseRecord
  <2>2. b.cell \in Cells /\ b.at \in Nat
    BY <2>1 DEF Blocks
  <2>3. cells[b.cell].epoch \in Nat /\ cells'[b.cell].epoch \in Nat
    BY <1>0, <2>2 DEF CaseTypeOK, CaseCell
  <2>4. b.at <= cells[b.cell].epoch
    BY <1>0 DEF BlocksArePast
  <2> QED
    BY <2>2, <2>3, <2>4
<1> QED
  BY <1>1, <1>2, <1>3 DEF CaseInv, InterventionIsSound

----------------------------------------------------------------------------
(* One case: what a report does to its record.                               *)

\* The record of a case is typed, and the type's two provisos hold of it.
WellFormed(k) ==
  /\ k \in CaseRecord
  /\ (k.state = "open") => k.kind = "diagnostic"
  /\ \A p \in People \ k.participants : k.people[p] = Stranger

\* The entries of people are typed, whatever part of them a report changes.
LEMMA PeopleUpdates ==
  ASSUME NEW ps \in [People -> Participant], NEW p \in People
  PROVE  /\ Stranger \in Participant /\ [Stranger EXCEPT !.active = TRUE] \in Participant
         /\ [ps EXCEPT ![p].active = FALSE, ![p].finished = TRUE] \in [People -> Participant]
         /\ \A q \in People \ {p} : [ps EXCEPT ![p].active = FALSE, ![p].finished = TRUE][q] = ps[q]
<1>1. Stranger \in Participant /\ [Stranger EXCEPT !.active = TRUE] \in Participant
  BY DEF Stranger, Participant
<1>2. [ps[p] EXCEPT !.active = FALSE, !.finished = TRUE] \in Participant
  BY DEF Participant
<1>3. [ps EXCEPT ![p].active = FALSE, ![p].finished = TRUE]
        = [ps EXCEPT ![p] = [ps[p] EXCEPT !.active = FALSE, !.finished = TRUE]]
  OBVIOUS
<1> QED
  BY <1>1, <1>2, <1>3

\* The facts of a report: the blocks grow by those of the invalidation, and a
\* physical report leaves no case closed.
LEMMA RecordedCase ==
  ASSUME CaseTypeOK, BlocksArePast, NEW k, WellFormed(k),
         NEW p \in People, NEW a \in Actions, NEW certain \in BOOLEAN
  PROVE  LET r == Recorded(k, p, a, certain) IN
         /\ WellFormed(r)
         /\ a \notin External => r = k
         /\ a \in External => /\ r.blocks = k.blocks \cup NewBlocks(cells)
                              /\ r.state \notin {"open", "closed"}
<1>1. CASE a \notin External
  BY <1>1 DEF Recorded
<1>2. CASE a \in External
  <2> DEFINE told == [q \in People |-> [k.people[q] EXCEPT !.accounted = FALSE, !.handover = FALSE]]
             people == CASE a = "started" -> [told EXCEPT ![p] = [Stranger EXCEPT !.active = TRUE]]
                         [] a = "finished" /\ certain /\ p \in k.participants ->
                              [told EXCEPT ![p].active = FALSE, ![p].finished = TRUE]
                         [] OTHER -> told
             upset == k.state = "closed" \/ a \in {"isolation", "configuration"}
             members == IF a = "started" THEN k.participants \cup {p} ELSE k.participants
             kind == IF k.kind = "diagnostic" THEN "recovery" ELSE k.kind
             state == IF upset \/ k.kind = "diagnostic" THEN "containment" ELSE k.state
             entry == IF upset THEN FALSE ELSE k.entry
             changed == k.changed \/ a = "configuration"
             blocks == k.blocks \cup NewBlocks(cells)
             r == [k EXCEPT !.people = people, !.participants = members,
                            !.personnel = FALSE, !.handover = FALSE, !.kind = kind,
                            !.state = state, !.entry = entry, !.changed = changed,
                            !.blocks = blocks]
  <2>0. k \in CaseRecord /\ k.people \in [People -> Participant]
    BY DEF WellFormed, CaseRecord
  <2>1. Recorded(k, p, a, certain) = r
    BY <1>2, <2>0 DEF Recorded, CaseRecord
  <2>2. told \in [People -> Participant]
    BY <2>0 DEF Participant
  <2>3. people \in [People -> Participant]
    BY <2>2, PeopleUpdates
  <2>4. \A q \in People \ members : people[q] = Stranger
    <3>1. ASSUME NEW q \in People \ k.participants PROVE told[q] = Stranger
      <4>1. k.people[q] = Stranger
        BY <3>1 DEF WellFormed
      <4>2. told[q] = [Stranger EXCEPT !.accounted = FALSE, !.handover = FALSE]
        BY <4>1
      <4>3. [Stranger EXCEPT !.accounted = FALSE, !.handover = FALSE] = Stranger
        <5>1. /\ Stranger \in Participant
              /\ Stranger.accounted = FALSE /\ Stranger.handover = FALSE
          BY DEF Stranger, Participant
        <5>2. \A x \in Participant : x.accounted = FALSE /\ x.handover = FALSE =>
                 [x EXCEPT !.accounted = FALSE, !.handover = FALSE] = x
          BY DEF Participant
        <5> QED
          BY <5>1, <5>2
      <4> HIDE DEF told
      <4> QED
        BY <4>2, <4>3
    <3>2. ASSUME NEW q \in People \ members PROVE people[q] = told[q] /\ q \notin k.participants
      <4> HIDE DEF told
      <4>1. CASE a = "started"
        BY <2>2, <3>2, <4>1
      <4>2. CASE a # "started" /\ p \in k.participants
        <5>1. [told EXCEPT ![p].active = FALSE, ![p].finished = TRUE][q] = told[q]
          BY <2>2, <3>2, <4>2, PeopleUpdates
        <5> QED
          BY <3>2, <4>2, <5>1
      <4>3. CASE a # "started" /\ p \notin k.participants
        BY <3>2, <4>3
      <4> QED
        BY <4>1, <4>2, <4>3
    <3> HIDE DEF told, people, members
    <3> QED
      BY <3>1, <3>2
  <2>5. /\ members \in SUBSET People /\ changed \in BOOLEAN /\ entry \in BOOLEAN
        /\ kind \in {"recovery", "maintenance"} /\ state \in States /\ blocks \in SUBSET Blocks
        /\ state \notin {"open", "closed"}
    <3>1. blocks \in SUBSET Blocks
      BY <2>0, InvalidatedCells DEF CaseRecord
    <3>2. state \in States /\ state \notin {"open", "closed"}
      BY <2>0 DEF WellFormed, CaseRecord, States
    <3> QED
      BY <2>0, <3>1, <3>2 DEF CaseRecord
  <2> HIDE DEF people, members, kind, state, entry, changed, blocks
  <2>6. r \in CaseRecord
    BY <2>0, <2>3, <2>5 DEF CaseRecord
  <2>7. r.people = people /\ r.participants = members /\ r.state = state /\ r.blocks = blocks
    BY <2>0 DEF CaseRecord
  <2> HIDE DEF r
  <2>8. WellFormed(r)
    BY <2>4, <2>5, <2>6, <2>7 DEF WellFormed
  <2> QED
    BY <1>2, <2>1, <2>5, <2>7, <2>8 DEF blocks
<1> QED
  BY <1>1, <1>2

\* The promotion of a case never closes it and leaves its blocks alone.
Promotes(k, r) == WellFormed(r) /\ r.blocks = k.blocks /\ r.state # "closed"

\* A promoted case may end in revalidation.
LEMMA AcceptedCase ==
  ASSUME NEW k, WellFormed(k), k.state # "closed"
  PROVE  Promotes(k, Accepted(k).case)
<1>1. k \in CaseRecord
  BY DEF WellFormed
<1>2. WellFormed([k EXCEPT !.state = "revalidating"])
  <2> DEFINE r == [k EXCEPT !.state = "revalidating"]
  <2>1. r \in CaseRecord /\ r.state = "revalidating" /\ r.people = k.people
        /\ r.participants = k.participants
    BY <1>1 DEF CaseRecord, States
  <2> HIDE DEF r
  <2> QED
    BY <2>1 DEF WellFormed, r
<1>3. /\ [k EXCEPT !.state = "revalidating"].blocks = k.blocks
      /\ [k EXCEPT !.state = "revalidating"].state = "revalidating"
  BY <1>1 DEF CaseRecord
<1>4. Accepted(k).case = IF k.participants # {} /\ Done(k)
                           THEN [k EXCEPT !.state = "revalidating"] ELSE k
  BY DEF Accepted
<1> QED
  BY <1>2, <1>3, <1>4 DEF Promotes

\* A case is as well formed with other progress as it was, when its people and
\* its state are.
LEMMA ProgressUpdates ==
  ASSUME NEW k, WellFormed(k), k.state # "closed",
         NEW entry \in BOOLEAN, NEW context \in [Cells -> Nat] \cup {Absent},
         NEW state \in States \ {"open", "closed"}, NEW told \in BOOLEAN,
         NEW people \in [People -> Participant],
         \A p \in People \ k.participants : people[p] = Stranger
  PROVE  /\ Promotes(k, [k EXCEPT !.entry = entry, !.context = context, !.state = state])
         /\ Promotes(k, [k EXCEPT !.context = context])
         /\ Promotes(k, [k EXCEPT !.context = context, !.people = people])
         /\ Promotes(k, [k EXCEPT !.personnel = told, !.people = people])
         /\ Promotes(k, [k EXCEPT !.handover = told, !.people = people])
         /\ Promotes(k, [k EXCEPT !.state = state])
         /\ Promotes(k, [k EXCEPT !.state = state, !.entry = entry])
<1>0. k \in CaseRecord
  BY DEF WellFormed
<1>1. ASSUME NEW r \in CaseRecord, r.blocks = k.blocks, r.participants = k.participants,
             r.kind = k.kind, r.people \in {k.people, people}, r.state \in {k.state, state}
      PROVE  Promotes(k, r)
  BY <1>1 DEF Promotes, WellFormed
<1>2. Promotes(k, [k EXCEPT !.entry = entry, !.context = context, !.state = state])
  <2> DEFINE r == [k EXCEPT !.entry = entry, !.context = context, !.state = state]
  <2>1. /\ r \in CaseRecord /\ r.blocks = k.blocks /\ r.participants = k.participants
        /\ r.kind = k.kind /\ r.people = k.people /\ r.state = state
    BY <1>0 DEF CaseRecord
  <2> HIDE DEF r
  <2> QED
    BY <1>1, <2>1 DEF r
<1>3. Promotes(k, [k EXCEPT !.context = context])
  <2> DEFINE r == [k EXCEPT !.context = context]
  <2>1. /\ r \in CaseRecord /\ r.blocks = k.blocks /\ r.participants = k.participants
        /\ r.kind = k.kind /\ r.people = k.people /\ r.state = k.state
    BY <1>0 DEF CaseRecord
  <2> HIDE DEF r
  <2> QED
    BY <1>1, <2>1 DEF r
<1>4. Promotes(k, [k EXCEPT !.context = context, !.people = people])
  <2> DEFINE r == [k EXCEPT !.context = context, !.people = people]
  <2>1. /\ r \in CaseRecord /\ r.blocks = k.blocks /\ r.participants = k.participants
        /\ r.kind = k.kind /\ r.people = people /\ r.state = k.state
    BY <1>0 DEF CaseRecord
  <2> HIDE DEF r
  <2> QED
    BY <1>1, <2>1 DEF r
<1>5. Promotes(k, [k EXCEPT !.personnel = told, !.people = people])
  <2> DEFINE r == [k EXCEPT !.personnel = told, !.people = people]
  <2>1. /\ r \in CaseRecord /\ r.blocks = k.blocks /\ r.participants = k.participants
        /\ r.kind = k.kind /\ r.people = people /\ r.state = k.state
    BY <1>0 DEF CaseRecord
  <2> HIDE DEF r
  <2> QED
    BY <1>1, <2>1 DEF r
<1>6. Promotes(k, [k EXCEPT !.handover = told, !.people = people])
  <2> DEFINE r == [k EXCEPT !.handover = told, !.people = people]
  <2>1. /\ r \in CaseRecord /\ r.blocks = k.blocks /\ r.participants = k.participants
        /\ r.kind = k.kind /\ r.people = people /\ r.state = k.state
    BY <1>0 DEF CaseRecord
  <2> HIDE DEF r
  <2> QED
    BY <1>1, <2>1 DEF r
<1>7. Promotes(k, [k EXCEPT !.state = state])
  <2> DEFINE r == [k EXCEPT !.state = state]
  <2>1. /\ r \in CaseRecord /\ r.blocks = k.blocks /\ r.participants = k.participants
        /\ r.kind = k.kind /\ r.people = k.people /\ r.state = state
    BY <1>0 DEF CaseRecord
  <2> HIDE DEF r
  <2> QED
    BY <1>1, <2>1 DEF r
<1>8. Promotes(k, [k EXCEPT !.state = state, !.entry = entry])
  <2> DEFINE r == [k EXCEPT !.state = state, !.entry = entry]
  <2>1. /\ r \in CaseRecord /\ r.blocks = k.blocks /\ r.participants = k.participants
        /\ r.kind = k.kind /\ r.people = k.people /\ r.state = state
    BY <1>0 DEF CaseRecord
  <2> HIDE DEF r
  <2> QED
    BY <1>1, <2>1 DEF r
<1> QED
  BY <1>2, <1>3, <1>4, <1>5, <1>6, <1>7, <1>8

\* Whatever the action, a step keeps the case well formed, its blocks as they
\* are and does not close it.
LEMMA StepCase ==
  ASSUME NEW k, WellFormed(k), k.state # "closed", NEW p \in People, NEW a \in Actions,
         NEW seen \in BOOLEAN, NEW epochs \in [Cells -> Nat]
  PROVE  Promotes(k, Step(k, p, a, seen, epochs).case)
<1> DEFINE s == Step(k, p, a, seen, epochs)
<1>0. k \in CaseRecord /\ k.people \in [People -> Participant]
      /\ \A q \in People \ k.participants : k.people[q] = Stranger
  BY DEF WellFormed, CaseRecord
<1>1. Promotes(k, k) /\ Refused(k).case = k
  BY DEF Promotes, Refused
<1>2. ASSUME NEW r, Promotes(k, r) PROVE Promotes(k, Accepted(r).case)
  <2>1. Promotes(r, Accepted(r).case)
    BY <1>2, AcceptedCase DEF Promotes
  <2> QED
    BY <1>2, <2>1 DEF Promotes
<1>3. "active" \in States \ {"open", "closed"} /\ "containment" \in States \ {"open", "closed"}
  BY DEF States
<1>4. CASE a = "entry"
  <2>1. Promotes(k, [k EXCEPT !.entry = TRUE, !.context = epochs, !.state = "active"])
    BY <1>0, <1>3, ProgressUpdates
  <2>2. s.case \in {Accepted([k EXCEPT !.entry = TRUE, !.context = epochs, !.state = "active"]).case,
                    Refused(k).case}
    BY <1>4 DEF Step
  <2> QED
    BY <1>1, <1>2, <2>1, <2>2
<1>5. CASE a = "started"
  <2>1. Promotes(k, [k EXCEPT !.context = epochs])
    BY <1>0, <1>3, ProgressUpdates
  <2>2. s.case \in {Accepted([k EXCEPT !.context = epochs]).case, Refused(k).case}
    BY <1>5 DEF Step
  <2> QED
    BY <1>1, <1>2, <2>1, <2>2
<1>6. CASE a = "finished"
  <2> DEFINE people == [k.people EXCEPT ![p].active = FALSE, ![p].finished = TRUE]
  <2>1. ASSUME p \in k.participants
        PROVE  Promotes(k, [k EXCEPT !.context = epochs, !.people = people])
    <3>1. people \in [People -> Participant] /\ \A q \in People \ {p} : people[q] = k.people[q]
      BY <1>0, PeopleUpdates
    <3>2. \A q \in People \ k.participants : people[q] = Stranger
      BY <1>0, <2>1, <3>1
    <3> HIDE DEF people
    <3> QED
      BY <1>3, <3>1, <3>2, ProgressUpdates
  <2>2. \/ s.case = Refused(k).case
        \/ p \in k.participants
           /\ s.case = Accepted([k EXCEPT !.context = epochs, !.people[p].active = FALSE,
                                          !.people[p].finished = TRUE]).case
    BY <1>6 DEF Step
  <2>3. [k EXCEPT !.context = epochs, !.people[p].active = FALSE, !.people[p].finished = TRUE]
          = [k EXCEPT !.context = epochs, !.people = people]
    BY <1>0 DEF CaseRecord
  <2> HIDE DEF people
  <2> QED
    BY <1>1, <1>2, <2>1, <2>2, <2>3
<1>7. CASE a \in {"personnel", "handover"}
  <2> DEFINE counted == [q \in People |-> [k.people[q] EXCEPT !.accounted = q \in k.participants]]
             handed == [q \in People |-> [k.people[q] EXCEPT !.handover = q \in k.participants]]
  <2>1. \/ s.case = Refused(k).case
        \/ s.case = Accepted([k EXCEPT !.personnel = seen, !.people = counted]).case
        \/ s.case = Accepted([k EXCEPT !.handover = seen, !.people = handed]).case
    BY <1>0, <1>7 DEF Step, CaseRecord
  <2>2. /\ counted \in [People -> Participant] /\ handed \in [People -> Participant]
        /\ \A q \in People \ k.participants : counted[q] = Stranger /\ handed[q] = Stranger
    <3>1. ASSUME NEW q \in People, NEW v \in BOOLEAN
          PROVE  /\ [k.people[q] EXCEPT !.accounted = v] \in Participant
                 /\ [k.people[q] EXCEPT !.handover = v] \in Participant
      BY <1>0 DEF Participant
    <3>2. counted \in [People -> Participant] /\ handed \in [People -> Participant]
      <4>1. ASSUME NEW q \in People
            PROVE  /\ [k.people[q] EXCEPT !.accounted = q \in k.participants] \in Participant
                   /\ [k.people[q] EXCEPT !.handover = q \in k.participants] \in Participant
        <5>1. (q \in k.participants) = TRUE \/ (q \in k.participants) = FALSE
          OBVIOUS
        <5> QED
          BY <3>1, <5>1, Zenon
      <4> QED
        BY <4>1
    <3>3. ASSUME NEW q \in People \ k.participants
          PROVE  counted[q] = Stranger /\ handed[q] = Stranger
      <4>1. k.people[q] = Stranger /\ (q \in k.participants) = FALSE
        BY <1>0, <3>3
      <4>2. /\ counted[q] = [k.people[q] EXCEPT !.accounted = FALSE]
            /\ handed[q] = [k.people[q] EXCEPT !.handover = FALSE]
        BY <3>3, <4>1
      <4>3. /\ Stranger \in Participant
            /\ Stranger.accounted = FALSE /\ Stranger.handover = FALSE
        BY DEF Stranger, Participant
      <4>4. \A x \in Participant : /\ x.accounted = FALSE => [x EXCEPT !.accounted = FALSE] = x
                                   /\ x.handover = FALSE => [x EXCEPT !.handover = FALSE] = x
        BY DEF Participant
      <4> HIDE DEF counted, handed
      <4> QED
        BY <4>1, <4>2, <4>3, <4>4
    <3> HIDE DEF counted, handed
    <3> QED
      BY <3>2, <3>3
  <2> HIDE DEF counted, handed
  <2>3. /\ Promotes(k, [k EXCEPT !.personnel = seen, !.people = counted])
        /\ Promotes(k, [k EXCEPT !.handover = seen, !.people = handed])
    BY <1>0, <1>3, <2>2, ProgressUpdates
  <2> QED
    BY <1>1, <1>2, <2>1, <2>3
<1>8. CASE a \notin {"entry", "started", "finished", "personnel", "handover"}
  <2> DEFINE state == IF k.state = "active" THEN k.state ELSE "containment"
  <2>1. state \in States \ {"open", "closed"}
    BY <1>3
  <2>2. s.case = Accepted([k EXCEPT !.state = state]).case
    BY <1>0, <1>8 DEF Step, CaseRecord
  <2> HIDE DEF state
  <2>3. Promotes(k, [k EXCEPT !.state = state])
    BY <1>0, <2>1, ProgressUpdates
  <2> QED
    BY <1>2, <2>2, <2>3
<1> QED
  BY <1>4, <1>5, <1>6, <1>7, <1>8

\* advance: refusals leave the case as it is, escalate or contain it.
LEMMA AdvancedCase ==
  ASSUME NEW k, WellFormed(k), k.state # "closed", NEW p \in People, NEW a \in Actions,
         NEW quality, NEW seen \in BOOLEAN, NEW before, NEW epochs \in [Cells -> Nat],
         policy \in [procedure : BOOLEAN, close : BOOLEAN, verified : BOOLEAN]
  PROVE  Promotes(k, Advanced(k, p, a, quality, seen, before, epochs).case)
<1> DEFINE s == Advanced(k, p, a, quality, seen, before, epochs)
           up == [k EXCEPT !.state = "escalated", !.entry = FALSE]
           held == [k EXCEPT !.state = "containment", !.entry = FALSE]
<1>1. Promotes(k, k)
  BY DEF Promotes
<1>2. Promotes(k, up) /\ Promotes(k, held)
  <2>1. "escalated" \in States \ {"open", "closed"} /\ "containment" \in States \ {"open", "closed"}
    BY DEF States
  <2>2. k.people \in [People -> Participant] /\ \A q \in People \ k.participants : k.people[q] = Stranger
    BY DEF WellFormed, CaseRecord
  <2>3. Absent \in [Cells -> Nat] \cup {Absent}
    OBVIOUS
  <2> QED
    BY <2>1, <2>2, <2>3, ProgressUpdates
<1>3. Promotes(k, Step(k, p, a, seen, epochs).case)
  BY StepCase
<1> HIDE DEF up, held
<1>4. s \in {Refused(up), Refused(k), Refused(held), Step(k, p, a, seen, epochs)}
  BY Zenon DEF Advanced, up, held
<1>5. Refused(up).case = up /\ Refused(k).case = k /\ Refused(held).case = held
  BY DEF Refused
<1> HIDE DEF s
<1> QED
  BY <1>1, <1>2, <1>3, <1>4, <1>5 DEF s

\* record_procedure as a whole: a physical report adds the blocks of its
\* invalidation and leaves the case not closed; a closed case that gets no
\* physical report stays as it is.
LEMMA ReportedCase ==
  ASSUME CaseTypeOK, BlocksArePast, NEW k \in Cases, case[k] # Absent, WellFormed(case[k]),
         NEW p \in People, NEW a \in Actions, NEW quality, NEW seen \in BOOLEAN,
         NEW stale \in BOOLEAN
  PROVE  LET r == Reported(k, p, a, quality, seen, stale) IN
         /\ WellFormed(r)
         /\ a \in External => r.blocks = case[k].blocks \cup NewBlocks(cells) /\ r.state # "closed"
         /\ a \notin External => /\ r.blocks = case[k].blocks
                                 /\ case[k].state = "closed" => r.state = "closed"
         /\ r.state = "closed" => case[k].state = "closed" /\ r.people = case[k].people
<1> DEFINE x == case[k]
           facts == Recorded(x, p, a, quality # "uncertain")
           before == Epochs(cells)
           epochs == Epochs(IF a \in External THEN Invalidated(cells) ELSE cells)
           step == IF x.state = "closed" \/ stale THEN Refused(facts)
                   ELSE Advanced(facts, p, a, quality, seen, before, epochs)
           settled == IF stale /\ a \in External
                      THEN [step.case EXCEPT !.state = "containment", !.entry = FALSE]
                      ELSE step.case
           final == IF ~step.ok /\ a = "started" /\ settled.state # "active"
                    THEN [settled EXCEPT !.state = "escalated"] ELSE settled
           r == [final EXCEPT !.rev = @ + 1]
<1>1. /\ WellFormed(facts)
      /\ a \notin External => facts = x
      /\ a \in External => /\ facts.blocks = x.blocks \cup NewBlocks(cells)
                           /\ facts.state \notin {"open", "closed"}
  <2>1. (quality # "uncertain") \in BOOLEAN
    BY Zenon
  <2> QED
    BY <2>1, RecordedCase
<1>2. epochs \in [Cells -> Nat]
  <2>1. cells \in [Cells -> CaseCell] /\ Invalidated(cells) \in [Cells -> CaseCell]
    BY InvalidatedCells DEF CaseTypeOK
  <2>2. ASSUME NEW cs \in [Cells -> CaseCell] PROVE Epochs(cs) \in [Cells -> Nat]
    BY DEF Epochs, CaseCell
  <2> QED
    BY <2>1, <2>2
<1>3. Reported(k, p, a, quality, seen, stale) = r
  BY Zenon DEF Reported
<1> HIDE DEF facts, epochs, before
<1>4. /\ WellFormed(step.case) /\ step.case.blocks = facts.blocks
      /\ step.case.state = "closed" => step.case = facts
  <2>1. CASE x.state = "closed" \/ stale
    BY <1>1, <2>1 DEF Refused
  <2>2. CASE ~(x.state = "closed" \/ stale)
    <3>1. facts.state # "closed"
      BY <1>1, <2>2
    <3>2. policy \in [procedure : BOOLEAN, close : BOOLEAN, verified : BOOLEAN]
      BY DEF CaseTypeOK
    <3>3. Promotes(facts, Advanced(facts, p, a, quality, seen, before, epochs).case)
      BY <1>1, <1>2, <3>1, <3>2, AdvancedCase
    <3> QED
      BY <2>2, <3>3 DEF Promotes
  <2> QED
    BY <2>1, <2>2
<1>5. /\ step.case.state = "closed" => a \notin External /\ x.state = "closed"
      /\ step.case.state = "closed" => step.case.people = x.people
  <2>1. ASSUME step.case.state = "closed" PROVE step.case = facts /\ facts.state = "closed" /\ facts = x
    BY <1>1, <1>4, <2>1
  <2> QED
    BY <1>1, <2>1
<1> HIDE DEF step
<1>6. ASSUME NEW y, WellFormed(y), NEW state \in {"containment", "escalated"}
      PROVE  /\ LET z == [y EXCEPT !.state = state, !.entry = FALSE]
                IN WellFormed(z) /\ z.blocks = y.blocks /\ z.state # "closed"
             /\ LET z == [y EXCEPT !.state = state]
                IN WellFormed(z) /\ z.blocks = y.blocks /\ z.state # "closed"
  <2>1. y \in CaseRecord
    BY <1>6 DEF WellFormed
  <2> DEFINE u == [y EXCEPT !.state = state, !.entry = FALSE]
             v == [y EXCEPT !.state = state]
  <2>2. /\ u \in CaseRecord /\ u.state = state /\ u.blocks = y.blocks /\ u.people = y.people
        /\ u.participants = y.participants
    BY <1>6, <2>1 DEF CaseRecord, States
  <2>3. /\ v \in CaseRecord /\ v.state = state /\ v.blocks = y.blocks /\ v.people = y.people
        /\ v.participants = y.participants
    BY <1>6, <2>1 DEF CaseRecord, States
  <2> HIDE DEF u, v
  <2>4. WellFormed(u) /\ WellFormed(v)
    BY <1>6, <2>2, <2>3 DEF WellFormed
  <2> QED
    BY <1>6, <2>2, <2>3, <2>4 DEF u, v
<1>7. /\ WellFormed(settled) /\ settled.blocks = facts.blocks
      /\ settled.state = "closed" => settled = step.case
  BY <1>4, <1>6
<1> HIDE DEF settled
<1>8. /\ WellFormed(final) /\ final.blocks = facts.blocks
      /\ final.state = "closed" => final = settled
  BY <1>6, <1>7
<1> HIDE DEF final
<1>9. WellFormed(r) /\ r.blocks = final.blocks /\ r.state = final.state /\ r.people = final.people
  <2>1. final \in CaseRecord
    BY <1>8 DEF WellFormed
  <2>2. /\ r \in CaseRecord /\ r.blocks = final.blocks /\ r.state = final.state
        /\ r.people = final.people /\ r.kind = final.kind /\ r.participants = final.participants
    BY <2>1 DEF CaseRecord
  <2> HIDE DEF r
  <2> QED
    BY <1>8, <2>2 DEF WellFormed
<1> HIDE DEF r
<1>11. a \notin External /\ x.state = "closed" => r.state = "closed"
  <2> SUFFICES ASSUME a \notin External, x.state = "closed" PROVE final.state = "closed"
    BY <1>9
  <2>1. facts = x /\ step.case = facts
    BY <1>1 DEF step, Refused
  <2>2. a # "started"
    BY DEF External
  <2> QED
    BY <2>1, <2>2 DEF final, settled
<1>10. r.state = "closed" => a \notin External /\ x.state = "closed" /\ r.people = x.people
  BY <1>5, <1>7, <1>8, <1>9
<1> QED
  BY <1>1, <1>3, <1>7, <1>8, <1>9, <1>10, <1>11

----------------------------------------------------------------------------
(* The steps.                                                                *)

\* Every case on record is well formed.
LEMMA CasesAreWellFormed ==
  ASSUME CaseTypeOK
  PROVE  \A k \in Cases : case[k] # Absent => WellFormed(case[k])
BY DEF CaseTypeOK, WellFormed

\* A step that gives one case a new record, while the cells keep their blocks and
\* members: the new record contains its cells, or was closed before and is as it was.
LEMMA CaseChanged ==
  ASSUME CaseInv, NEW k \in Cases, NEW r, WellFormed(r), case' = [case EXCEPT ![k] = r],
         cells' \in [Cells -> CaseCell], acked' = acked, policy' = policy,
         clearance' = clearance, spent' \in 0..MaxReports, holds' = holds,
         \A c \in Cells : /\ cells[c].blocks \subseteq cells'[c].blocks
                          /\ cells[c].open \subseteq cells'[c].open
                          /\ cells[c].epoch <= cells'[c].epoch,
         r.state # "closed" =>
           \A c \in Cells : k \in cells'[c].open /\ r.blocks \cap cells'[c].blocks # {},
         r.state = "closed" =>
           /\ case[k] # Absent /\ case[k].state = "closed"
           /\ r.people = case[k].people /\ r.blocks = case[k].blocks,
         \A b \in r.blocks : b.at <= cells'[b.cell].epoch
  PROVE  CaseInv'
<1>0. CaseTypeOK /\ NobodyWorksUncontained /\ ClosedCellStaysBlocked /\ BlocksArePast
  BY DEF CaseInv, InterventionIsSound
<1>1. case \in [Cases -> CaseRecord \cup {Absent}] /\ r \in CaseRecord
  BY <1>0 DEF CaseTypeOK, WellFormed
<1>2. /\ case'[k] = r /\ \A j \in Cases \ {k} : case'[j] = case[j]
      /\ case' \in [Cases -> CaseRecord \cup {Absent}]
  BY <1>1
<1>3. CaseTypeOK'
  <2>1. acked' \in [Cells -> Nat] /\ \A c \in Cells : acked'[c] <= cells'[c].epoch
    <3>1. acked \in [Cells -> Nat] /\ \A c \in Cells : acked[c] <= cells[c].epoch
      BY <1>0 DEF CaseTypeOK
    <3>2. \A c \in Cells : cells[c].epoch \in Nat /\ cells'[c].epoch \in Nat
      BY <1>0 DEF CaseTypeOK, CaseCell
    <3> QED
      BY <3>1, <3>2
  <2>2. ASSUME NEW j \in Cases, case'[j] # Absent PROVE WellFormed(case'[j])
    BY <1>0, <1>2, <2>2, CasesAreWellFormed
  <2> QED
    BY <1>0, <1>2, <2>1, <2>2 DEF CaseTypeOK, WellFormed
<1>4. NobodyWorksUncontained'
  <2> SUFFICES ASSUME NEW j \in Cases, case'[j] # Absent
               PROVE  IF case'[j].state # "closed"
                      THEN \A c \in Cells : /\ j \in cells'[c].open
                                            /\ case'[j].blocks \cap cells'[c].blocks # {}
                      ELSE \A p \in People : ~case'[j].people[p].active
    BY DEF NobodyWorksUncontained
  <2>1. CASE j = k
    BY <1>0, <1>2, <2>1 DEF NobodyWorksUncontained
  <2>2. CASE j # k
    BY <1>0, <1>2, <2>2 DEF NobodyWorksUncontained
  <2> QED
    BY <2>1, <2>2
<1>5. ClosedCellStaysBlocked'
  <2> SUFFICES ASSUME NEW j \in Cases, case'[j] # Absent, case'[j].state = "closed", NEW c \in Cells
               PROVE  \E b \in cells'[c].blocks : b \notin case'[j].blocks
    BY DEF ClosedCellStaysBlocked
  <2>1. case[j] # Absent /\ case[j].state = "closed" /\ case'[j].blocks = case[j].blocks
    BY <1>2
  <2> QED
    BY <1>0, <2>1 DEF ClosedCellStaysBlocked
<1>6. BlocksArePast'
  <2> SUFFICES ASSUME NEW j \in Cases, case'[j] # Absent, NEW b \in case'[j].blocks
               PROVE  b.at <= cells'[b.cell].epoch
    BY DEF BlocksArePast
  <2>1. CASE j = k
    BY <1>2, <2>1
  <2>2. CASE j # k
    <3>1. case[j] # Absent /\ case[j] \in CaseRecord /\ b \in case[j].blocks
      BY <1>1, <1>2, <2>2
    <3>2. b \in Blocks /\ b.at <= cells[b.cell].epoch
      BY <1>0, <3>1 DEF BlocksArePast, CaseRecord
    <3>3. b.cell \in Cells /\ b.at \in Nat
      BY <3>2 DEF Blocks
    <3>4. cells[b.cell].epoch \in Nat /\ cells'[b.cell].epoch \in Nat
      BY <1>0, <3>3 DEF CaseTypeOK, CaseCell
    <3> QED
      BY <3>2, <3>3, <3>4
  <2> QED
    BY <2>1, <2>2
<1> QED
  BY <1>3, <1>4, <1>5, <1>6 DEF CaseInv, InterventionIsSound

\* latch: the invalidation and the membership of the case.
LEMMA LatchedCells ==
  ASSUME CaseTypeOK, BlocksArePast, NEW k \in Cases, case[k] # Absent
  PROVE  /\ Latched(k) \in [Cells -> CaseCell]
         /\ \A c \in Cells :
              /\ cells[c].blocks \subseteq Latched(k)[c].blocks
              /\ cells[c].open \subseteq Latched(k)[c].open
              /\ Latched(k)[c].epoch = cells[c].epoch + 1
              /\ cells[c].epoch <= Latched(k)[c].epoch
              /\ k \in Latched(k)[c].open
              /\ Block(c, cells[c].epoch + 1, Absent) \in Latched(k)[c].blocks
<1>1. ModeOf(case[k].kind) \in {"setup", "automatic", "recovery", "maintenance"}
  BY DEF ModeOf
<1>2. ASSUME NEW c \in Cells
      PROVE  /\ Latched(k)[c] \in CaseCell
             /\ Latched(k)[c].blocks = Invalidated(cells)[c].blocks
             /\ Latched(k)[c].epoch = Invalidated(cells)[c].epoch
             /\ Latched(k)[c].open = cells[c].open \cup {k}
  <2> DEFINE y == Invalidated(cells)[c]
             m == ModeOf(case[k].kind)
             z == [y EXCEPT !.open = @ \cup {k}, !.mode = m]
  <2>1. y \in CaseCell /\ y.open = cells[c].open
    BY InvalidatedCells
  <2>2. Latched(k)[c] = IF k \in cells[c].open THEN y ELSE z
    BY DEF Latched
  <2> HIDE DEF y, m
  <2>3. z \in CaseCell /\ z.open = y.open \cup {k} /\ z.blocks = y.blocks /\ z.epoch = y.epoch
    <3>1. y.open \cup {k} \in SUBSET Cases
      BY <2>1 DEF CaseCell
    <3> QED
      BY <1>1, <2>1, <3>1 DEF CaseCell, m
  <2> HIDE DEF z
  <2> QED
    BY <2>1, <2>2, <2>3 DEF y
<1>3. Latched(k) \in [Cells -> CaseCell]
  <2>1. Latched(k) = [c \in Cells |-> Latched(k)[c]]
    BY DEF Latched
  <2> QED
    BY <1>2, <2>1
<1>4. \A c \in Cells : cells[c].epoch \in Nat
  BY DEF CaseTypeOK, CaseCell
<1> QED
  BY <1>2, <1>3, <1>4, InvalidatedCells

\* Opening a case: a diagnostic one adds its own block in the present epoch, any
\* other one invalidates; both become members of every cell.
LEMMA OpenStep ==
  ASSUME CaseInv, NEW k \in Cases, NEW kind \in Kinds, NEW u \in Doubts, OpenCase(k, kind, u)
  PROVE  CaseInv'
<1>0. CaseTypeOK /\ BlocksArePast
  BY DEF CaseInv, InterventionIsSound
<1> DEFINE diagnostic == kind = "diagnostic"
           own(c) == IF diagnostic THEN Block(c, cells[c].epoch, k)
                                   ELSE Block(c, cells[c].epoch + 1, Absent)
           held == IF diagnostic
                   THEN [c \in Cells |-> [cells[c] EXCEPT
                          !.blocks = @ \cup {Block(c, cells[c].epoch, k)}]]
                   ELSE [c \in Cells |-> [Invalidated(cells)[c] EXCEPT !.mode = ModeOf(kind)]]
           blocks == IF diagnostic THEN {Block(c, cells[c].epoch, k) : c \in Cells}
                                   ELSE NewBlocks(cells)
           state == IF diagnostic THEN "open" ELSE "containment"
           people == [p \in People |-> Stranger]
           r == [kind |-> kind, state |-> state, blocks |-> blocks, uncertain |-> u,
                 entry |-> FALSE, context |-> Absent, participants |-> {}, people |-> people,
                 personnel |-> FALSE, handover |-> FALSE, changed |-> FALSE, rev |-> 1]
<1>1. /\ cells' = [c \in Cells |-> [held[c] EXCEPT !.open = @ \cup {k}]]
      /\ case' = [case EXCEPT ![k] = r]
      /\ acked' = acked /\ policy' = policy /\ clearance' = clearance
      /\ spent' = spent /\ holds' = holds
  BY DEF OpenCase
<1>2. kind \in {"diagnostic", "recovery", "maintenance"} /\ u \in BOOLEAN
  BY InterventionConstants
<1>3. ASSUME NEW c \in Cells
      PROVE  /\ cells[c] \in CaseCell /\ cells[c].epoch \in Nat
             /\ own(c) \in Blocks /\ own(c).cell = c /\ own(c) \in blocks
             /\ own(c).at \in {cells[c].epoch, cells[c].epoch + 1}
             /\ (own(c).at = cells[c].epoch) \/ ~diagnostic
  <2>1. cells[c] \in CaseCell /\ cells[c].epoch \in Nat
    BY <1>0 DEF CaseTypeOK, CaseCell
  <2> QED
    BY <2>1 DEF Block, Blocks, NewBlocks
<1>4. ASSUME NEW c \in Cells
      PROVE  /\ held[c] \in CaseCell
             /\ held[c].blocks = cells[c].blocks \cup {own(c)}
             /\ held[c].open = cells[c].open
             /\ held[c].epoch = IF diagnostic THEN cells[c].epoch ELSE cells[c].epoch + 1
  <2>1. CASE diagnostic
    <3> DEFINE x == cells[c]
               b == own(c)
    <3>1. held[c] = [x EXCEPT !.blocks = @ \cup {b}]
      BY <2>1
    <3>2. x \in CaseCell /\ b \in Blocks
      BY <1>3
    <3> HIDE DEF x, b
    <3>3. x.blocks \cup {b} \in SUBSET Blocks
      BY <3>2 DEF CaseCell
    <3>4. /\ [x EXCEPT !.blocks = @ \cup {b}] \in CaseCell
          /\ [x EXCEPT !.blocks = @ \cup {b}].blocks = x.blocks \cup {b}
          /\ [x EXCEPT !.blocks = @ \cup {b}].open = x.open
          /\ [x EXCEPT !.blocks = @ \cup {b}].epoch = x.epoch
      BY <3>2, <3>3 DEF CaseCell
    <3> HIDE DEF held, own
    <3> QED
      BY <2>1, <3>1, <3>4 DEF x, b
  <2>2. CASE ~diagnostic
    <3> DEFINE y == Invalidated(cells)[c]
               m == ModeOf(kind)
    <3>1. held[c] = [y EXCEPT !.mode = m]
      BY <2>2
    <3>2. /\ y \in CaseCell /\ y.blocks = cells[c].blocks \cup {own(c)}
          /\ y.open = cells[c].open /\ y.epoch = cells[c].epoch + 1
      BY <1>0, <2>2, InvalidatedCells
    <3>3. m \in {"setup", "automatic", "recovery", "maintenance"}
      BY DEF ModeOf
    <3> HIDE DEF y, m, held, own
    <3>4. /\ [y EXCEPT !.mode = m] \in CaseCell
          /\ [y EXCEPT !.mode = m].blocks = y.blocks
          /\ [y EXCEPT !.mode = m].open = y.open
          /\ [y EXCEPT !.mode = m].epoch = y.epoch
      BY <3>2, <3>3 DEF CaseCell
    <3> QED
      BY <2>2, <3>1, <3>2, <3>4
  <2> QED
    BY <2>1, <2>2
<1>5. ASSUME NEW b \in blocks
      PROVE  /\ b \in Blocks /\ b.cell \in Cells
             /\ b.at = IF diagnostic THEN cells[b.cell].epoch ELSE cells[b.cell].epoch + 1
  <2>1. PICK c \in Cells : b = own(c)
    BY <1>5 DEF NewBlocks
  <2>2. own(c).at = IF diagnostic THEN cells[c].epoch ELSE cells[c].epoch + 1
    BY DEF Block
  <2> HIDE DEF own, blocks
  <2> QED
    BY <1>3, <2>1, <2>2
<1> HIDE DEF held, own, blocks
<1>6. ASSUME NEW c \in Cells
      PROVE  /\ cells'[c] \in CaseCell
             /\ cells'[c].blocks = held[c].blocks
             /\ cells'[c].open = cells[c].open \cup {k}
             /\ cells'[c].epoch = held[c].epoch
  <2> DEFINE y == held[c]
  <2>1. cells'[c] = [y EXCEPT !.open = @ \cup {k}]
    BY <1>1
  <2>2. y \in CaseCell /\ y.open = cells[c].open
    BY <1>4
  <2> HIDE DEF y
  <2>3. y.open \cup {k} \in SUBSET Cases
    BY <2>2 DEF CaseCell
  <2>4. /\ [y EXCEPT !.open = @ \cup {k}] \in CaseCell
        /\ [y EXCEPT !.open = @ \cup {k}].blocks = y.blocks
        /\ [y EXCEPT !.open = @ \cup {k}].open = y.open \cup {k}
        /\ [y EXCEPT !.open = @ \cup {k}].epoch = y.epoch
    BY <2>2, <2>3 DEF CaseCell
  <2> QED
    BY <2>1, <2>2, <2>4 DEF y
<1>7. cells' \in [Cells -> CaseCell]
  BY <1>1, <1>6
<1>8. /\ WellFormed(r) /\ r.state = state /\ r.blocks = blocks
  <2>1. people \in [People -> Participant] /\ \A p \in People : people[p] = Stranger
    BY DEF Stranger, Participant
  <2>2. state \in States /\ state # "closed" /\ (state = "open" => kind = "diagnostic")
    BY DEF States
  <2>3. blocks \in SUBSET Blocks
    BY <1>5
  <2> HIDE DEF people, state
  <2>4. r \in CaseRecord
    BY <1>2, <2>1, <2>2, <2>3 DEF CaseRecord
  <2>5. r.state = state /\ r.kind = kind /\ r.people = people /\ r.blocks = blocks
    OBVIOUS
  <2> HIDE DEF r
  <2> QED
    BY <2>1, <2>2, <2>4, <2>5 DEF WellFormed
<1>9. r.state # "closed"
  BY <1>8
<1> HIDE DEF r
<1>10. \A c \in Cells : /\ cells[c].blocks \subseteq cells'[c].blocks
                        /\ cells[c].open \subseteq cells'[c].open
                        /\ cells[c].epoch <= cells'[c].epoch
                        /\ k \in cells'[c].open /\ r.blocks \cap cells'[c].blocks # {}
  <2> SUFFICES ASSUME NEW c \in Cells
               PROVE  /\ cells[c].blocks \subseteq cells'[c].blocks
                      /\ cells[c].open \subseteq cells'[c].open
                      /\ cells[c].epoch <= cells'[c].epoch
                      /\ k \in cells'[c].open /\ r.blocks \cap cells'[c].blocks # {}
    OBVIOUS
  <2>1. cells[c].epoch <= cells'[c].epoch
    BY <1>3, <1>4, <1>6
  <2>2. own(c) \in r.blocks /\ own(c) \in cells'[c].blocks
    BY <1>3, <1>4, <1>6, <1>8
  <2> QED
    BY <1>4, <1>6, <2>1, <2>2
<1>11. \A b \in r.blocks : b.at <= cells'[b.cell].epoch
  <2> SUFFICES ASSUME NEW b \in blocks PROVE b.at <= cells'[b.cell].epoch
    BY <1>8
  <2>1. b.cell \in Cells /\ b.at = cells'[b.cell].epoch /\ cells[b.cell].epoch \in Nat
    BY <1>3, <1>4, <1>5, <1>6
  <2>2. b.at \in Nat
    BY <1>5 DEF Blocks
  <2> QED
    BY <2>1, <2>2
<1>12. spent' \in 0..MaxReports
  BY <1>0, <1>1 DEF CaseTypeOK
<1> QED
  BY <1>1, <1>7, <1>8, <1>9, <1>10, <1>11, <1>12, CaseChanged

\* A report spends at most what is left.
LEMMA SpentReports ==
  ASSUME CaseTypeOK, spent < MaxReports
  PROVE  spent + 1 \in 0..MaxReports
BY InterventionConstants DEF CaseTypeOK

\* Acknowledging a case only gives it a new revision.
LEMMA AcknowledgeStep ==
  ASSUME CaseInv, NEW k \in Cases, AcknowledgeCase(k)
  PROVE  CaseInv'
<1>0. CaseTypeOK /\ BlocksArePast /\ NobodyWorksUncontained
  BY DEF CaseInv, InterventionIsSound
<1> DEFINE x == case[k]
           r == [x EXCEPT !.rev = @ + 1]
<1>1. /\ case' = [case EXCEPT ![k] = r] /\ x # Absent /\ spent' \in 0..MaxReports
      /\ cells' = cells /\ acked' = acked /\ policy' = policy
      /\ clearance' = clearance /\ holds' = holds
  BY <1>0, SpentReports DEF AcknowledgeCase
<1>2. WellFormed(x)
  BY <1>0, <1>1, CasesAreWellFormed
<1>3. \A c \in Cells : cells[c].epoch \in Nat /\ cells \in [Cells -> CaseCell]
  BY <1>0 DEF CaseTypeOK, CaseCell
<1>4. /\ x.state # "closed" => \A c \in Cells : /\ k \in cells[c].open
                                                /\ x.blocks \cap cells[c].blocks # {}
      /\ \A b \in x.blocks : b.at <= cells[b.cell].epoch
  BY <1>0, <1>1 DEF NobodyWorksUncontained, BlocksArePast
<1> HIDE DEF x
<1>5. /\ r \in CaseRecord /\ r.blocks = x.blocks /\ r.people = x.people /\ r.state = x.state
      /\ r.kind = x.kind /\ r.participants = x.participants
  BY <1>2 DEF WellFormed, CaseRecord
<1> HIDE DEF r
<1>6. WellFormed(r)
  BY <1>2, <1>5 DEF WellFormed
<1>7. r.state = "closed" => /\ case[k] # Absent /\ case[k].state = "closed"
                            /\ r.people = case[k].people /\ r.blocks = case[k].blocks
  BY <1>1, <1>5 DEF x
<1>8. cells \in [Cells -> CaseCell]
  BY <1>0 DEF CaseTypeOK
<1>9. \A c \in Cells : cells[c].epoch <= cells[c].epoch
  BY <1>3
<1> QED
  BY <1>1, <1>4, <1>5, <1>6, <1>7, <1>8, <1>9, CaseChanged

\* What a latch and the blocks it adds do to the case that is latched.
LEMMA LatchStep ==
  ASSUME CaseInv, NEW k \in Cases, case[k] # Absent, NEW r, WellFormed(r),
         r.state # "closed", r.blocks = case[k].blocks \cup NewBlocks(cells),
         case' = [case EXCEPT ![k] = r], cells' = Latched(k), acked' = acked,
         policy' = policy, clearance' = clearance, spent' \in 0..MaxReports, holds' = holds
  PROVE  CaseInv'
<1>0. CaseTypeOK /\ BlocksArePast
  BY DEF CaseInv, InterventionIsSound
<1>1. /\ cells' \in [Cells -> CaseCell]
      /\ \A c \in Cells :
           /\ cells[c].blocks \subseteq cells'[c].blocks
           /\ cells[c].open \subseteq cells'[c].open
           /\ cells'[c].epoch = cells[c].epoch + 1
           /\ cells[c].epoch <= cells'[c].epoch
           /\ k \in cells'[c].open
           /\ Block(c, cells[c].epoch + 1, Absent) \in cells'[c].blocks
  BY <1>0, LatchedCells
<1>2. \A c \in Cells : r.blocks \cap cells'[c].blocks # {}
  BY <1>0, <1>1, InvalidatedCells
<1>3. ASSUME NEW b \in r.blocks PROVE b.at <= cells'[b.cell].epoch
  <2>1. b \in Blocks
    BY DEF WellFormed, CaseRecord
  <2>2. b.cell \in Cells /\ b.at \in Nat
    BY <2>1 DEF Blocks
  <2>3. cells[b.cell].epoch \in Nat
    BY <1>0, <2>2 DEF CaseTypeOK, CaseCell
  <2>4. b.at <= cells[b.cell].epoch \/ b.at = cells[b.cell].epoch + 1
    BY <1>0, <1>3, InvalidatedCells DEF BlocksArePast
  <2> QED
    BY <1>1, <2>2, <2>3, <2>4
<1> QED
  BY <1>1, <1>2, <1>3, CaseChanged

\* A record identifier that comes back with other content latches the case.
LEMMA ConflictStep ==
  ASSUME CaseInv, NEW k \in Cases, ConflictingReport(k)
  PROVE  CaseInv'
<1>0. CaseTypeOK /\ BlocksArePast
  BY DEF CaseInv, InterventionIsSound
<1> DEFINE x == case[k]
           bs == x.blocks \cup NewBlocks(cells)
           r == [x EXCEPT !.blocks = bs, !.state = "escalated", !.rev = @ + 1]
<1>1. x \in CaseRecord /\ WellFormed(x) /\ case[k] # Absent
  BY <1>0, CasesAreWellFormed DEF ConflictingReport, WellFormed
<1>2. case \in [Cases -> CaseRecord \cup {Absent}]
  BY <1>0 DEF CaseTypeOK
<1>3. /\ case' = [case EXCEPT ![k] = r] /\ spent' \in 0..MaxReports
      /\ cells' = Latched(k) /\ acked' = acked /\ policy' = policy
      /\ clearance' = clearance /\ holds' = holds
  <2>1. case' = [case EXCEPT ![k].blocks = @ \cup NewBlocks(cells),
                             ![k].state = "escalated", ![k].rev = @ + 1]
    BY DEF ConflictingReport
  <2>2. case' = [case EXCEPT ![k] = r]
    BY <1>1, <1>2, <2>1 DEF CaseRecord
  <2> QED
    BY <1>0, <2>2, SpentReports DEF ConflictingReport
<1>4. bs \in SUBSET Blocks
  BY <1>0, <1>1, InvalidatedCells DEF CaseRecord
<1> HIDE DEF x, bs
<1>5. /\ r \in CaseRecord /\ r.blocks = bs /\ r.people = x.people /\ r.state = "escalated"
      /\ r.participants = x.participants
  <2>1. "escalated" \in States /\ x.rev + 1 \in Nat
    BY <1>1 DEF CaseRecord, States
  <2>2. \A n \in Nat : [x EXCEPT !.blocks = bs, !.state = "escalated", !.rev = n] \in CaseRecord
    BY <1>1, <1>4, <2>1 DEF CaseRecord
  <2>3. r \in CaseRecord
    BY <2>1, <2>2
  <2> QED
    BY <1>1, <2>3 DEF CaseRecord
<1> HIDE DEF r
<1>6. WellFormed(r)
  BY <1>1, <1>5 DEF WellFormed
<1>7. r.blocks = case[k].blocks \cup NewBlocks(cells)
  BY <1>5 DEF bs, x
<1>8. r.state # "closed"
  BY <1>5
<1> QED
  BY <1>1, <1>3, <1>6, <1>7, <1>8, LatchStep

\* record_procedure, with its latch for what is physical.
LEMMA ReportStep ==
  ASSUME CaseInv, NEW k \in Cases, NEW p \in People, NEW a \in Actions, NEW q \in Qualities,
         NEW seen \in BOOLEAN, NEW stale \in BOOLEAN, Report(k, p, a, q, seen, stale)
  PROVE  CaseInv'
<1>0. CaseTypeOK /\ BlocksArePast /\ NobodyWorksUncontained
  BY DEF CaseInv, InterventionIsSound
<1> DEFINE r == Reported(k, p, a, q, seen, stale)
<1>1. /\ case' = [case EXCEPT ![k] = r] /\ case[k] # Absent
      /\ cells' = IF a \in External THEN Latched(k) ELSE cells
      /\ acked' = acked /\ policy' = policy /\ clearance' = clearance /\ holds' = holds
  BY DEF Report
<1>2. spent' \in 0..MaxReports
  <2>1. spent \in 0..MaxReports
    BY <1>0 DEF CaseTypeOK
  <2>2. spent' = spent \/ (spent < MaxReports /\ spent' = spent + 1)
    BY DEF Report
  <2> QED
    BY <1>0, <2>1, <2>2, SpentReports
<1>3. WellFormed(case[k])
  BY <1>0, <1>1, CasesAreWellFormed
<1>4. /\ WellFormed(r)
      /\ a \in External => r.blocks = case[k].blocks \cup NewBlocks(cells) /\ r.state # "closed"
      /\ a \notin External => /\ r.blocks = case[k].blocks
                              /\ case[k].state = "closed" => r.state = "closed"
      /\ r.state = "closed" => case[k].state = "closed" /\ r.people = case[k].people
  BY <1>0, <1>1, <1>3, ReportedCase
<1> HIDE DEF r
<1>5. CASE a \in External
  BY <1>1, <1>2, <1>4, <1>5, LatchStep
<1>6. CASE a \notin External
  <2>1. cells' = cells /\ cells \in [Cells -> CaseCell]
    BY <1>0, <1>1, <1>6 DEF CaseTypeOK
  <2>2. \A c \in Cells : cells[c].epoch <= cells[c].epoch
    BY <2>1 DEF CaseCell
  <2>3. /\ r.state # "closed" => \A c \in Cells : /\ k \in cells[c].open
                                                  /\ r.blocks \cap cells[c].blocks # {}
        /\ \A b \in r.blocks : b.at <= cells[b.cell].epoch
    BY <1>0, <1>1, <1>4, <1>6 DEF NobodyWorksUncontained, BlocksArePast
  <2>4. r.state = "closed" => /\ case[k] # Absent /\ case[k].state = "closed"
                              /\ r.people = case[k].people /\ r.blocks = case[k].blocks
    BY <1>1, <1>4, <1>6
  <2> QED
    BY <1>1, <1>2, <1>4, <2>1, <2>2, <2>3, <2>4, CaseChanged
<1> QED
  BY <1>5, <1>6

\* Policies, holds, acknowledged fences and prepared clearances touch no case.
LEMMA OutsideStep ==
  ASSUME CaseInv,
         \/ AdmitProcedure \/ AdmitClosePolicy \/ Withdraw \/ Hold
         \/ \E c \in Cells : AckCaseFence(c)
         \/ \E cohort \in Cohorts : PrepareClose(cohort)
  PROVE  CaseInv'
<1>0. CaseTypeOK /\ BlocksArePast
  BY DEF CaseInv, InterventionIsSound
<1>1. \A c \in Cells : cells[c].epoch \in Nat
  BY <1>0 DEF CaseTypeOK, CaseCell
<1>2. ASSUME case' = case, cells' = cells, acked' \in [Cells -> Nat],
             \A c \in Cells : acked'[c] <= cells[c].epoch,
             policy' \in [procedure : BOOLEAN, close : BOOLEAN, verified : BOOLEAN],
             clearance' # Absent => clearance'.contexts \in [Cells -> CaseCell],
             spent' = spent, holds' = holds
      PROVE  CaseInv'
  <2>1. CaseTypeOK'
    BY <1>0, <1>2 DEF CaseTypeOK
  <2> QED
    BY <1>1, <1>2, <2>1, CasesKept
<1>3. CASE AdmitProcedure \/ AdmitClosePolicy \/ Withdraw
  <2>1. policy' \in [procedure : BOOLEAN, close : BOOLEAN, verified : BOOLEAN]
    BY <1>0, <1>3 DEF CaseTypeOK, AdmitProcedure, AdmitClosePolicy, Withdraw
  <2>2. /\ case' = case /\ cells' = cells /\ acked' = acked /\ clearance' = clearance
        /\ spent' = spent /\ holds' = holds
    BY <1>3 DEF AdmitProcedure, AdmitClosePolicy, Withdraw
  <2>3. /\ acked' \in [Cells -> Nat] /\ \A c \in Cells : acked'[c] <= cells[c].epoch
        /\ clearance' # Absent => clearance'.contexts \in [Cells -> CaseCell]
    BY <1>0, <2>2 DEF CaseTypeOK
  <2> QED
    BY <1>2, <2>1, <2>2, <2>3
<1>4. CASE Hold
  <2>1. /\ cells' = Invalidated(cells) /\ case' = case /\ acked' = acked /\ policy' = policy
        /\ clearance' = clearance /\ spent' = spent /\ holds < MaxHolds /\ holds' = holds + 1
    BY <1>4 DEF Hold
  <2>2. /\ cells' \in [Cells -> CaseCell]
        /\ \A c \in Cells : /\ cells'[c].epoch = cells[c].epoch + 1
                            /\ cells[c].blocks \subseteq cells'[c].blocks
                            /\ cells[c].open \subseteq cells'[c].open
    BY <1>0, <2>1, InvalidatedCells
  <2>3. holds' \in 0..MaxHolds
    BY <1>0, <2>1, InterventionConstants DEF CaseTypeOK
  <2>4. /\ acked \in [Cells -> Nat]
        /\ \A c \in Cells : acked[c] <= cells'[c].epoch /\ cells[c].epoch <= cells'[c].epoch
    <3>1. acked \in [Cells -> Nat] /\ \A c \in Cells : acked[c] <= cells[c].epoch
      BY <1>0 DEF CaseTypeOK
    <3> QED
      BY <1>1, <2>2, <3>1
  <2>5. CaseTypeOK'
    BY <1>0, <2>1, <2>2, <2>3, <2>4 DEF CaseTypeOK
  <2> QED
    BY <2>1, <2>2, <2>4, <2>5, CasesKept
<1>5. ASSUME NEW c \in Cells, AckCaseFence(c) PROVE CaseInv'
  <2>1. /\ acked' = [acked EXCEPT ![c] = cells[c].epoch] /\ cells' = cells /\ case' = case
        /\ policy' = policy /\ clearance' = clearance /\ spent' = spent /\ holds' = holds
    BY <1>5 DEF AckCaseFence
  <2>2. acked \in [Cells -> Nat] /\ \A d \in Cells : acked[d] <= cells[d].epoch
    BY <1>0 DEF CaseTypeOK
  <2>3. acked' \in [Cells -> Nat] /\ \A d \in Cells : acked'[d] <= cells[d].epoch
    BY <1>1, <2>1, <2>2
  <2>4. /\ policy' \in [procedure : BOOLEAN, close : BOOLEAN, verified : BOOLEAN]
        /\ clearance' # Absent => clearance'.contexts \in [Cells -> CaseCell]
    BY <1>0, <2>1 DEF CaseTypeOK
  <2> QED
    BY <1>2, <2>1, <2>3, <2>4
<1>6. ASSUME NEW cohort \in Cohorts, PrepareClose(cohort) PROVE CaseInv'
  <2>1. /\ clearance' = [revs |-> Revisions(cohort), contexts |-> cells] /\ cells' = cells
        /\ case' = case /\ acked' = acked /\ policy' = policy
        /\ spent' = spent /\ holds' = holds
    BY <1>6 DEF PrepareClose
  <2>2. clearance'.contexts = cells
    BY <2>1
  <2>3. /\ policy' \in [procedure : BOOLEAN, close : BOOLEAN, verified : BOOLEAN]
        /\ cells \in [Cells -> CaseCell]
        /\ acked' \in [Cells -> Nat] /\ \A d \in Cells : acked'[d] <= cells[d].epoch
    BY <1>0, <2>1 DEF CaseTypeOK
  <2> QED
    BY <1>2, <2>1, <2>2, <2>3
<1> QED
  BY <1>3, <1>4, <1>5, <1>6

\* close_without_restart: the cohort's blocks go, but neither those of another
\* case that is not closed nor the one the closure itself adds.
LEMMA CloseStep ==
  ASSUME CaseInv, NEW cohort \in Cohorts, CloseWithoutRestart(cohort)
  PROVE  CaseInv'
<1>0. CaseTypeOK /\ NobodyWorksUncontained /\ ClosedCellStaysBlocked /\ BlocksArePast
  BY DEF CaseInv, InterventionIsSound
<1>1. cohort \subseteq Cases
  BY DEF Cohorts
<1> DEFINE gone == Removable(cohort)
           new(c) == Block(c, cells[c].epoch + 1, Absent)
<1>2. /\ cells' = [c \in Cells |-> [Invalidated(cells)[c] EXCEPT !.mode = "maintenance",
                     !.blocks = @ \ gone, !.open = @ \ cohort]]
      /\ case' = [k \in Cases |->
                    IF k \in cohort THEN [case[k] EXCEPT !.state = "closed", !.rev = @ + 1]
                    ELSE case[k]]
      /\ clearance' = Absent /\ \A k \in cohort : Verified(k)
      /\ acked' = acked /\ policy' = policy /\ spent' = spent /\ holds' = holds
  BY DEF CloseWithoutRestart
<1>3. \A k \in cohort : case[k] # Absent /\ case[k] \in CaseRecord /\ WellFormed(case[k])
                         /\ Done(case[k])
  BY <1>0, <1>1, <1>2, CasesAreWellFormed DEF Verified, WellFormed
<1>4. ASSUME NEW c \in Cells PROVE new(c) \notin gone
  <2>1. \A k \in cohort : new(c) \notin case[k].blocks
    BY <1>0, <1>1, <1>3, InvalidatedCells
  <2> QED
    BY <2>1 DEF Removable
<1>5. ASSUME NEW j \in Cases \ cohort, case[j] # Absent, case[j].state # "closed"
      PROVE  case[j].blocks \cap gone = {}
  <2> DEFINE others == {i \in Cases \ cohort : case[i] # Absent /\ case[i].state # "closed"}
  <2>1. j \in others
    BY <1>5
  <2> DEFINE theirs == UNION {case[k].blocks : k \in others}
             ours == UNION {case[k].blocks : k \in cohort}
  <2>2. gone = ours \ theirs
    BY DEF Removable
  <2> HIDE DEF others
  <2>3. case[j].blocks \subseteq theirs
    BY <2>1
  <2> HIDE DEF theirs, ours, gone
  <2> QED
    BY <2>2, <2>3
<1> HIDE DEF gone
<1>6. ASSUME NEW c \in Cells
      PROVE  /\ cells'[c] \in CaseCell
             /\ cells'[c].epoch = cells[c].epoch + 1
             /\ cells'[c].blocks = (cells[c].blocks \cup {new(c)}) \ gone
             /\ cells'[c].open = cells[c].open \ cohort
  <2> DEFINE y == Invalidated(cells)[c]
             z == [y EXCEPT !.mode = "maintenance", !.blocks = @ \ gone, !.open = @ \ cohort]
  <2>1. cells'[c] = z
    BY <1>2
  <2>2. /\ y \in CaseCell /\ y.epoch = cells[c].epoch + 1 /\ y.open = cells[c].open
        /\ y.blocks = cells[c].blocks \cup {new(c)}
    BY <1>0, InvalidatedCells
  <2> HIDE DEF y, new
  <2>3. y.blocks \ gone \in SUBSET Blocks /\ y.open \ cohort \in SUBSET Cases
    BY <2>2 DEF CaseCell
  <2>4. \A bs \in SUBSET Blocks, os \in SUBSET Cases :
          [y EXCEPT !.mode = "maintenance", !.blocks = bs, !.open = os] \in CaseCell
    BY <2>2 DEF CaseCell
  <2>5. z \in CaseCell
    BY <2>3, <2>4
  <2>6. z.epoch = y.epoch /\ z.blocks = y.blocks \ gone /\ z.open = y.open \ cohort
    BY <2>2 DEF CaseCell
  <2> HIDE DEF z
  <2> QED
    BY <2>1, <2>2, <2>5, <2>6
<1>7. ASSUME NEW k \in cohort
      PROVE  /\ WellFormed(case'[k]) /\ case'[k] \in CaseRecord /\ case'[k].state = "closed"
             /\ case'[k].blocks = case[k].blocks /\ case'[k].people = case[k].people
  <2> DEFINE x == case[k]
             r == [x EXCEPT !.state = "closed", !.rev = @ + 1]
  <2>1. case'[k] = r /\ x \in CaseRecord /\ WellFormed(x)
    BY <1>1, <1>2, <1>3
  <2> HIDE DEF x
  <2>2. /\ r \in CaseRecord /\ r.state = "closed" /\ r.blocks = x.blocks
        /\ r.people = x.people /\ r.participants = x.participants
    <3>1. "closed" \in States /\ x.rev + 1 \in Nat
      BY <2>1 DEF CaseRecord, States
    <3>2. \A n \in Nat : [x EXCEPT !.state = "closed", !.rev = n] \in CaseRecord
      BY <2>1, <3>1 DEF CaseRecord
    <3>3. r \in CaseRecord
      BY <3>1, <3>2
    <3> QED
      BY <2>1, <3>3 DEF CaseRecord
  <2> HIDE DEF r
  <2>3. WellFormed(r)
    BY <2>1, <2>2 DEF WellFormed
  <2> QED
    BY <2>1, <2>2, <2>3 DEF x
<1>8. \A j \in Cases \ cohort : case'[j] = case[j]
  BY <1>2
<1>9. CaseTypeOK'
  <2>1. cells' \in [Cells -> CaseCell]
    BY <1>2, <1>6
  <2>2. case' \in [Cases -> CaseRecord \cup {Absent}]
    <3>1. case \in [Cases -> CaseRecord \cup {Absent}]
      BY <1>0 DEF CaseTypeOK
    <3>2. \A k \in Cases : case'[k] \in CaseRecord \cup {Absent}
      BY <1>7, <1>8, <3>1
    <3>3. case' = [k \in Cases |-> case'[k]]
      BY <1>2
    <3> QED
      BY <3>2, <3>3
  <2>3. \A k \in Cases : case'[k] # Absent => WellFormed(case'[k])
    BY <1>0, <1>7, <1>8, CasesAreWellFormed
  <2>4. acked' \in [Cells -> Nat] /\ \A c \in Cells : acked'[c] <= cells'[c].epoch
    <3>1. /\ acked \in [Cells -> Nat] /\ \A c \in Cells : acked[c] <= cells[c].epoch
          /\ \A c \in Cells : cells[c].epoch \in Nat
      BY <1>0 DEF CaseTypeOK, CaseCell
    <3>2. \A c \in Cells : cells'[c].epoch = cells[c].epoch + 1
      BY <1>6
    <3>3. acked' = acked
      BY <1>2
    <3> QED
      BY <3>1, <3>2, <3>3
  <2>5. /\ policy' \in [procedure : BOOLEAN, close : BOOLEAN, verified : BOOLEAN]
        /\ spent' \in 0..MaxReports /\ holds' \in 0..MaxHolds
    BY <1>0, <1>2 DEF CaseTypeOK
  <2> QED
    BY <1>2, <2>1, <2>2, <2>3, <2>4, <2>5 DEF CaseTypeOK, WellFormed
<1>10. NobodyWorksUncontained'
  <2> SUFFICES ASSUME NEW j \in Cases, case'[j] # Absent
               PROVE  IF case'[j].state # "closed"
                      THEN \A c \in Cells : /\ j \in cells'[c].open
                                            /\ case'[j].blocks \cap cells'[c].blocks # {}
                      ELSE \A p \in People : ~case'[j].people[p].active
    BY DEF NobodyWorksUncontained
  <2>1. CASE j \in cohort
    <3>1. ASSUME NEW p \in People PROVE ~case[j].people[p].active
      <4>1. CASE p \in case[j].participants
        BY <1>3, <2>1, <4>1 DEF Done
      <4>2. CASE p \notin case[j].participants
        BY <1>3, <2>1, <4>2 DEF WellFormed, Stranger
      <4> QED
        BY <4>1, <4>2
    <3> QED
      BY <1>7, <2>1, <3>1
  <2>2. CASE j \notin cohort /\ case[j].state # "closed"
    <3>1. ASSUME NEW c \in Cells
          PROVE  j \in cells'[c].open /\ case[j].blocks \cap cells'[c].blocks # {}
      <4>1. j \in cells[c].open /\ case[j].blocks \cap cells[c].blocks # {}
        BY <1>0, <1>8, <2>2 DEF NobodyWorksUncontained
      <4>2. case[j].blocks \cap gone = {}
        BY <1>5, <1>8, <2>2
      <4> QED
        BY <1>6, <2>2, <4>1, <4>2
    <3> QED
      BY <1>8, <2>2, <3>1
  <2>3. CASE j \notin cohort /\ case[j].state = "closed"
    BY <1>0, <1>8, <2>3 DEF NobodyWorksUncontained
  <2> QED
    BY <2>1, <2>2, <2>3
<1>11. ASSUME NEW j \in Cases, case'[j] # Absent
       PROVE  case[j] # Absent /\ case'[j].blocks = case[j].blocks
  BY <1>3, <1>7, <1>8, <1>11
<1>12. ClosedCellStaysBlocked'
  <2> SUFFICES ASSUME NEW j \in Cases, case'[j] # Absent, NEW c \in Cells
               PROVE  \E b \in cells'[c].blocks : b \notin case'[j].blocks
    BY DEF ClosedCellStaysBlocked
  <2>1. new(c) \in cells'[c].blocks
    BY <1>4, <1>6
  <2>2. new(c) \notin case'[j].blocks
    BY <1>0, <1>11, InvalidatedCells
  <2> QED
    BY <2>1, <2>2
<1>13. BlocksArePast'
  <2> SUFFICES ASSUME NEW j \in Cases, case'[j] # Absent, NEW b \in case'[j].blocks
               PROVE  b.at <= cells'[b.cell].epoch
    BY DEF BlocksArePast
  <2>1. case[j] # Absent /\ b \in case[j].blocks /\ WellFormed(case[j])
    BY <1>0, <1>11, CasesAreWellFormed
  <2>2. b \in Blocks
    BY <2>1 DEF WellFormed, CaseRecord
  <2>3. b.cell \in Cells /\ b.at \in Nat
    BY <2>2 DEF Blocks
  <2>4. cells[b.cell].epoch \in Nat /\ b.at <= cells[b.cell].epoch
    BY <1>0, <2>1, <2>3 DEF CaseTypeOK, CaseCell, BlocksArePast
  <2> QED
    BY <1>6, <2>3, <2>4
<1> QED
  BY <1>9, <1>10, <1>12, <1>13 DEF CaseInv, InterventionIsSound

\* No step of reports, policies, holds and closures breaks the invariant.
LEMMA CaseStep ==
  CaseInv /\ [CaseNext]_caseVars => CaseInv'
<1> SUFFICES ASSUME CaseInv, [CaseNext]_caseVars PROVE CaseInv'
  OBVIOUS
<1>1. ASSUME NEW k \in Cases, NEW kind \in Kinds, NEW u \in Doubts, OpenCase(k, kind, u)
      PROVE  CaseInv'
  BY <1>1, OpenStep
<1>2. ASSUME NEW k \in Cases, AcknowledgeCase(k) \/ ConflictingReport(k) PROVE CaseInv'
  BY <1>2, AcknowledgeStep, ConflictStep
<1>3. ASSUME NEW k \in Cases, NEW p \in People, NEW a \in Actions, NEW q \in Qualities,
             NEW seen \in BOOLEAN, NEW stale \in BOOLEAN, Report(k, p, a, q, seen, stale)
      PROVE  CaseInv'
  BY <1>3, ReportStep
<1>4. CASE \/ AdmitProcedure \/ AdmitClosePolicy \/ Withdraw \/ Hold
           \/ \E c \in Cells : AckCaseFence(c)
           \/ \E cohort \in Cohorts : PrepareClose(cohort)
  BY <1>4, OutsideStep
<1>5. ASSUME NEW cohort \in Cohorts, CloseWithoutRestart(cohort) PROVE CaseInv'
  BY <1>5, CloseStep
<1>6. CASE UNCHANGED caseVars
  BY <1>6 DEF caseVars, CaseInv, InterventionIsSound, CaseTypeOK, NobodyWorksUncontained,
              ClosedCellStaysBlocked, BlocksArePast
<1> QED
  BY <1>1, <1>2, <1>3, <1>4, <1>5, <1>6 DEF CaseNext

\* At the start there is no case and nothing is blocked.
LEMMA CaseStart ==
  CaseInit => CaseInv
<1> SUFFICES ASSUME CaseInit PROVE CaseInv
  OBVIOUS
<1>1. PICK m \in Modes :
        cells = [c \in Cells |-> [epoch |-> 0, mode |-> m, blocks |-> {}, open |-> {}]]
  BY DEF CaseInit
<1>2. m \in {"setup", "automatic", "recovery", "maintenance"}
  BY InterventionConstants
<1>3. cells \in [Cells -> CaseCell] /\ \A c \in Cells : cells[c].epoch = 0
  BY <1>1, <1>2 DEF CaseCell
<1>4. \A k \in Cases : case[k] = Absent
  BY DEF CaseInit
<1>5. CaseTypeOK
  <2>1. acked \in [Cells -> Nat] /\ \A c \in Cells : acked[c] <= cells[c].epoch
    BY <1>3 DEF CaseInit
  <2>2. case \in [Cases -> CaseRecord \cup {Absent}] /\ clearance = Absent
    BY DEF CaseInit
  <2>3. policy \in [procedure : BOOLEAN, close : BOOLEAN, verified : BOOLEAN]
    BY InterventionConstants DEF CaseInit
  <2>4. spent \in 0..MaxReports /\ holds \in 0..MaxHolds
    BY InterventionConstants DEF CaseInit
  <2> QED
    BY <1>3, <1>4, <2>1, <2>2, <2>3, <2>4 DEF CaseTypeOK
<1> QED
  BY <1>4, <1>5 DEF CaseInv, InterventionIsSound, NobodyWorksUncontained,
                    ClosedCellStaysBlocked, BlocksArePast

\* Whatever order cases, reports, late reports, holds and closures come in, a case
\* that is not closed contains its cells, and a closed one has nobody left at
\* work and its cells still blocked (record_procedure, close_without_restart).
THEOREM InterventionIsAlwaysSound ==
  CaseSpec => []InterventionIsSound
<1>1. CaseInv => InterventionIsSound
  BY DEF CaseInv
<1> QED
  BY <1>1, CaseStart, CaseStep, PTL DEF CaseSpec

-----------------------------------------------------------------------------
(* The settlement of resources: the inductive invariant.                      *)

\* Only an invalidation quarantines.
QuarantineFollowsEpoch ==
  \A o \in Ops : op[o].disposition = "quarantined" => cell.epoch > 0

\* An approval whose context changed since can tell: it expired, or its epoch or
\* its session is not the present one.
OvertakenIsVisible ==
  \A o \in Ops : auth[o] # None =>
    /\ auth[o].epoch <= cell.epoch
    /\ auth[o].link.session <= link.session
    /\ o \in overtaken => \/ auth[o].expired
                          \/ auth[o].epoch < cell.epoch
                          \/ auth[o].link.session < link.session

\* A reading that confirmed the handover is still true when it is used.
GoodReadingHolds == query # None /\ query.good => device[query.op] = "clear"

\* The dispatcher works on a plan, and plans are replaced, never removed.
QueryHasPlan == query # None => plan[query.op] # None

\* A completed run holds nothing.
CompletedIsEmpty == run = "completed" => \A o \in Ops : op[o].disposition = "released"

SettlementInv ==
  /\ TypeOK
  /\ QuarantineFollowsEpoch /\ OvertakenIsVisible /\ GoodReadingHolds
  /\ QueryHasPlan /\ CompletedIsEmpty

----------------------------------------------------------------------------
\* The invariant holds of operations whose resources nobody has quarantined.
LEMMA SettlementInvInit == Init => SettlementInv
BY DEF Init, SettlementInv, TypeOK, Link, Outcomes, Operation, QuarantineFollowsEpoch,
       OvertakenIsVisible, GoodReadingHolds, QueryHasPlan, CompletedIsEmpty

\* Quarantine takes what is held and nothing else.
LEMMA QuarantinedOperations ==
  ASSUME op \in [Ops -> Operation]
  PROVE  /\ Quarantined \in [Ops -> Operation]
         /\ \A o \in Ops : (Quarantined[o].disposition = "released")
                             = (op[o].disposition = "released")
<1>1. ASSUME NEW o \in Ops
      PROVE  /\ Quarantined[o] \in Operation
             /\ (Quarantined[o].disposition = "released") = (op[o].disposition = "released")
  <2>1. op[o] \in Operation
    OBVIOUS
  <2> QED BY <2>1 DEF Quarantined, Operation
<1> QED BY <1>1 DEF Quarantined

\* What may happen to a settlement from outside, invalidations first.
LEMMA UpsetKeeps ==
  ASSUME SettlementInv,
         \/ \E kind \in {"revoked", "conflict"} : Invalidate(kind)
         \/ RestartRuntime
         \/ \E o \in Ops : Dispute(o)
  PROVE  SettlementInv'
<1>0. TypeOK
  BY DEF SettlementInv
<1>1. /\ \E foreign \in BOOLEAN : Invalidates(foreign)
      /\ overtaken' = Ops /\ auth' = auth /\ plan' = plan /\ device' = device
      /\ failures' = failures /\ upsets' = upsets + 1
      /\ query' = query \/ query' = None
      /\ link' = link \/ link' = [link EXCEPT !.runtime = @ + 1, !.session = @ + 1]
  BY DEF Invalidate, RestartRuntime, Dispute, Upset
<1>2. /\ cell' \in [epoch : Nat, fenced : Nat, foreign : BOOLEAN]
      /\ cell.epoch \in Nat /\ cell'.epoch = cell.epoch + 1
      /\ run' = IF run = "executing" THEN "recovery" ELSE run
  <2>1. PICK foreign \in BOOLEAN : Invalidates(foreign)
    BY <1>1
  <2>2. cell \in [epoch : Nat, fenced : Nat, foreign : BOOLEAN]
    BY <1>0 DEF TypeOK
  <2> DEFINE f == cell.foreign \/ foreign
  <2>3. f \in BOOLEAN
    OBVIOUS
  <2>4. cell' = [cell EXCEPT !.epoch = @ + 1, !.foreign = f]
    BY <2>1 DEF Invalidates
  <2> HIDE DEF f
  <2>5. cell' = [epoch |-> cell.epoch + 1, fenced |-> cell.fenced, foreign |-> f]
    BY <2>2, <2>4
  <2> QED BY <2>1, <2>2, <2>3, <2>5 DEF Invalidates
<1>3. /\ op' \in [Ops -> Operation]
      /\ \A o \in Ops : (op'[o].disposition = "released") = (op[o].disposition = "released")
  <2>1. /\ Quarantined \in [Ops -> Operation]
        /\ \A o \in Ops : (Quarantined[o].disposition = "released")
                            = (op[o].disposition = "released")
    BY <1>0, QuarantinedOperations DEF TypeOK
  <2>2. op' = Quarantined \/ \E o \in Ops : op' = [Quarantined EXCEPT ![o].valid = FALSE]
    BY DEF Invalidate, RestartRuntime, Dispute
  <2> DEFINE q == Quarantined
  <2>3. q \in [Ops -> Operation]
    BY <2>1
  <2> HIDE DEF q
  <2>4. ASSUME NEW o \in Ops, op' = [q EXCEPT ![o].valid = FALSE]
        PROVE  op' \in [Ops -> Operation] /\ \A p \in Ops : op'[p].disposition = q[p].disposition
    <3>1. \A p \in Ops : op'[p] = IF p = o THEN [q[p] EXCEPT !.valid = FALSE] ELSE q[p]
      BY <2>3, <2>4
    <3>2. \A p \in Ops : op'[p] \in Operation /\ op'[p].disposition = q[p].disposition
      BY <2>3, <3>1 DEF Operation
    <3> QED BY <2>3, <2>4, <3>2
  <2> QED BY <2>1, <2>2, <2>4 DEF q
<1>l. link' \in Link /\ link.session \in Nat /\ link'.session >= link.session
  <2>1. link \in Link
    BY <1>0 DEF TypeOK
  <2>2. link' = link \/ link' = [runtime |-> link.runtime + 1, host |-> link.host,
                                 session |-> link.session + 1]
    BY <1>1, <2>1 DEF Link
  <2> QED BY <2>1, <2>2 DEF Link
<1>4. TypeOK'
  BY <1>0, <1>1, <1>2, <1>3, <1>l DEF TypeOK
<1>5. QuarantineFollowsEpoch'
  BY <1>2 DEF QuarantineFollowsEpoch
<1>6. OvertakenIsVisible'
  <2>1. ASSUME NEW o \in Ops, auth[o] # None
        PROVE  /\ auth[o].epoch < cell'.epoch
               /\ auth[o].link.session <= link'.session
    <3>1. auth[o].epoch \in Nat /\ auth[o].link.session \in Nat
      BY <1>0, <2>1 DEF TypeOK, Authorization, Link
    <3>2. auth[o].epoch <= cell.epoch /\ auth[o].link.session <= link.session
      BY <2>1 DEF SettlementInv, OvertakenIsVisible
    <3> QED BY <1>2, <1>l, <3>1, <3>2 DEF Link
  <2>2. \A o \in Ops : auth[o] # None => auth[o].epoch \in Nat
    BY <1>0 DEF TypeOK, Authorization
  <2> QED BY <1>1, <1>2, <2>1, <2>2 DEF OvertakenIsVisible
<1>7. GoodReadingHolds' /\ QueryHasPlan'
  BY <1>1 DEF SettlementInv, GoodReadingHolds, QueryHasPlan
<1>8. CompletedIsEmpty'
  BY <1>2, <1>3 DEF SettlementInv, CompletedIsEmpty
<1> QED BY <1>4, <1>5, <1>6, <1>7, <1>8 DEF SettlementInv

\* The host is linked again, and an approval runs out: everything overtaken can
\* tell afterwards.
LEMMA RelinkKeeps ==
  ASSUME SettlementInv, NEW kind, Relink(kind)
  PROVE  SettlementInv'
<1>0. TypeOK /\ link \in Link
  BY DEF SettlementInv, TypeOK
<1>1. /\ link' = [link EXCEPT !.session = @ + 1, !.host = IF kind = "host" THEN @ + 1 ELSE @]
      /\ query' = None /\ overtaken' = Ops /\ upsets' = upsets + 1
      /\ UNCHANGED <<cell, run, op, auth, device, plan, failures>>
  BY DEF Relink, Upset
<1>2. link' \in Link /\ link.session \in Nat /\ link'.session = link.session + 1
  <2> DEFINE h == IF kind = "host" THEN link.host + 1 ELSE link.host
  <2>1. link' = [runtime |-> link.runtime, host |-> h, session |-> link.session + 1]
    BY <1>0, <1>1 DEF Link
  <2>2. h \in Nat
    BY <1>0 DEF Link
  <2> HIDE DEF h
  <2> QED BY <1>0, <2>1, <2>2 DEF Link
<1>3. TypeOK'
  BY <1>0, <1>1, <1>2 DEF TypeOK
<1>4. OvertakenIsVisible'
  <2>1. ASSUME NEW o \in Ops, auth[o] # None
        PROVE  auth[o].epoch <= cell.epoch /\ auth[o].link.session < link'.session
    <3>1. auth[o].link.session \in Nat
      BY <1>0, <2>1 DEF TypeOK, Authorization, Link
    <3>2. auth[o].epoch <= cell.epoch /\ auth[o].link.session <= link.session
      BY <2>1 DEF SettlementInv, OvertakenIsVisible
    <3> QED BY <1>2, <3>1, <3>2
  <2>2. \A o \in Ops : auth[o] # None => auth[o].link.session \in Nat
    BY <1>0 DEF TypeOK, Authorization, Link
  <2> QED BY <1>1, <1>2, <2>1, <2>2 DEF OvertakenIsVisible
<1>5. QuarantineFollowsEpoch' /\ GoodReadingHolds' /\ QueryHasPlan' /\ CompletedIsEmpty'
  BY <1>1 DEF SettlementInv, QuarantineFollowsEpoch, GoodReadingHolds, QueryHasPlan,
              CompletedIsEmpty
<1> QED BY <1>3, <1>4, <1>5 DEF SettlementInv

\* The end of an authorization by time leaves the rest as it was.
LEMMA ExpireKeeps ==
  ASSUME SettlementInv, NEW o \in Ops, Expire(o)
  PROVE  SettlementInv'
<1>0. TypeOK /\ auth[o] \in Authorization
  BY DEF SettlementInv, TypeOK, Expire
<1>1. /\ auth' = [auth EXCEPT ![o].expired = TRUE]
      /\ overtaken' = overtaken \cup {o} /\ upsets' = upsets + 1
      /\ UNCHANGED <<cell, link, run, op, query, device, plan, failures>>
  BY DEF Expire, Upset
<1>2. \A p \in Ops : auth'[p] = IF p = o THEN [auth[o] EXCEPT !.expired = TRUE] ELSE auth[p]
  BY <1>0, <1>1 DEF TypeOK
<1>3. /\ auth'[o] \in Authorization /\ auth'[o].expired
      /\ auth'[o].epoch = auth[o].epoch /\ auth'[o].link = auth[o].link
  BY <1>0, <1>2 DEF Authorization
<1>4. auth' \in [Ops -> Authorization \cup {None}]
  BY <1>0, <1>1, <1>2, <1>3 DEF TypeOK
<1>5. TypeOK'
  BY <1>0, <1>1, <1>4 DEF TypeOK
<1>6. OvertakenIsVisible'
  BY <1>1, <1>2, <1>3 DEF SettlementInv, OvertakenIsVisible, Expire
<1>7. QuarantineFollowsEpoch' /\ GoodReadingHolds' /\ QueryHasPlan' /\ CompletedIsEmpty'
  BY <1>1 DEF SettlementInv, QuarantineFollowsEpoch, GoodReadingHolds, QueryHasPlan,
              CompletedIsEmpty
<1> QED BY <1>5, <1>6, <1>7 DEF SettlementInv

\* The host acknowledges, the equipment moves on: what is clear stays clear.
LEMMA WorldKeeps ==
  ASSUME SettlementInv, AckFence \/ \E o \in Ops : DeviceStep(o)
  PROVE  SettlementInv'
<1>0. TypeOK
  BY DEF SettlementInv
<1>1. /\ UNCHANGED <<link, run, op, auth, plan, query, overtaken, upsets, failures>>
      /\ cell' = cell \/ cell' = [cell EXCEPT !.fenced = cell.epoch]
      /\ device' = device \/ \E o \in Ops : /\ device[o] \in {"moving", "done"}
                                            /\ \E s \in {"done", "lost", "clear"} :
                                                 device' = [device EXCEPT ![o] = s]
  BY DEF AckFence, DeviceStep
<1>2. cell' \in [epoch : Nat, fenced : Nat, foreign : BOOLEAN] /\ cell'.epoch = cell.epoch
  BY <1>0, <1>1 DEF TypeOK
<1>3. /\ device' \in [Ops -> {"moving", "done", "lost", "clear"}]
      /\ \A o \in Ops : device[o] = "clear" => device'[o] = "clear"
  BY <1>0, <1>1 DEF TypeOK
<1>4. TypeOK'
  BY <1>0, <1>1, <1>2, <1>3 DEF TypeOK
<1>5. GoodReadingHolds'
  BY <1>0, <1>1, <1>3 DEF SettlementInv, GoodReadingHolds, TypeOK, Query
<1>6. QuarantineFollowsEpoch' /\ OvertakenIsVisible' /\ QueryHasPlan' /\ CompletedIsEmpty'
  BY <1>1, <1>2 DEF SettlementInv, QuarantineFollowsEpoch, OvertakenIsVisible, QueryHasPlan,
                    CompletedIsEmpty
<1> QED BY <1>4, <1>5, <1>6 DEF SettlementInv

\* A reconciliation is requested, or a settlement approved in the present context.
LEMMA PlanKeeps ==
  ASSUME SettlementInv, NEW o \in Ops,
         RequestReconciliation(o) \/ ApproveSettlement(o)
  PROVE  SettlementInv'
<1>0. TypeOK
  BY DEF SettlementInv
<1>1. NewPlan(o) \in Plan /\ NewPlan(o).id \in Nat
  BY <1>0 DEF NewPlan, TypeOK, Plan
<1> DEFINE fresh == [id |-> NewPlan(o).id, link |-> link, epoch |-> cell.epoch,
                     expired |-> FALSE, applied |-> FALSE]
<1>2. /\ plan' = [plan EXCEPT ![o] = NewPlan(o)]
      /\ UNCHANGED <<cell, link, run, op, device, query, upsets, failures>>
      /\ \/ auth' = auth /\ overtaken' = overtaken
         \/ auth' = [auth EXCEPT ![o] = fresh] /\ overtaken' = overtaken \ {o}
  BY DEF RequestReconciliation, ApproveSettlement
<1>3. /\ fresh \in Authorization /\ fresh.epoch = cell.epoch /\ fresh.link = link
      /\ cell.epoch \in Nat /\ link.session \in Nat
  BY <1>0, <1>1 DEF TypeOK, Authorization, Link
<1> HIDE DEF fresh
<1>4. TypeOK'
  BY <1>0, <1>1, <1>2, <1>3 DEF TypeOK
<1>5. OvertakenIsVisible'
  BY <1>0, <1>2, <1>3 DEF SettlementInv, OvertakenIsVisible, TypeOK
<1>6. QuarantineFollowsEpoch' /\ GoodReadingHolds' /\ CompletedIsEmpty'
  BY <1>2 DEF SettlementInv, QuarantineFollowsEpoch, GoodReadingHolds, CompletedIsEmpty
<1>7. QueryHasPlan'
  BY <1>0, <1>1, <1>2, SettlementConstants DEF SettlementInv, QueryHasPlan, TypeOK
<1> QED BY <1>4, <1>5, <1>6, <1>7 DEF SettlementInv

\* A step that only moves the query along, marks a plan or records a result.
LEMMA QueryMoves ==
  ASSUME SettlementInv,
         UNCHANGED <<cell, link, run, device, auth, overtaken, upsets>>,
         failures' \in Nat,
         plan' \in [Ops -> Plan \cup {None}],
         op' \in [Ops -> Operation],
         \A o \in Ops : op'[o].disposition = op[o].disposition,
         query' \in Query \cup {None},
         query' # None /\ query'.good => device[query'.op] = "clear",
         query' # None => plan'[query'.op] # None
  PROVE  SettlementInv'
<1>1. TypeOK'
  BY DEF SettlementInv, TypeOK
<1>2. GoodReadingHolds' /\ QueryHasPlan'
  BY DEF GoodReadingHolds, QueryHasPlan
<1>3. QuarantineFollowsEpoch' /\ OvertakenIsVisible' /\ CompletedIsEmpty'
  BY DEF SettlementInv, QuarantineFollowsEpoch, OvertakenIsVisible, CompletedIsEmpty
<1> QED BY <1>1, <1>2, <1>3 DEF SettlementInv

\* The dispatcher's query starts from the present plan, with nothing read yet.
LEMMA QueryPlanKeeps ==
  ASSUME SettlementInv, NEW o \in Ops, QueryPlan(o)
  PROVE  SettlementInv'
<1>0. TypeOK
  BY DEF SettlementInv
<1>1. PICK at : query' =
       [op |-> o, request |-> plan[o].id, settlement |-> PendingAuthorization(o),
        epoch |-> cell.epoch, work |-> op[o], good |-> FALSE, at |-> at]
      /\ at \in {"complete", "fetch", "read", "attention"}
  <2>1. op[o].disposition = "released" \/ op[o].outcome = "none" \/ op[o].outcome # "none"
    OBVIOUS
  <2> QED BY <2>1 DEF QueryPlan
<1>2. PendingAuthorization(o) \in Nat \cup {None}
  BY <1>0 DEF PendingAuthorization, TypeOK, Authorization
<1>3. plan[o].id \in Nat /\ cell.epoch \in Nat /\ op[o] \in Operation
  BY <1>0 DEF QueryPlan, TypeOK, Plan
<1>4. query' \in Query /\ query'.good = FALSE /\ query'.op = o /\ plan[o] # None
  BY <1>1, <1>2, <1>3 DEF Query, QueryPlan
<1>5. UNCHANGED <<op, plan, failures, cell, link, run, device, auth, overtaken, upsets>>
  BY DEF QueryPlan, Keep
<1> QED BY <1>0, <1>4, <1>5, QueryMoves DEF TypeOK

\* The query of the dispatcher reads the host: a reading of the handover says
\* what the equipment did.
LEMMA ReadingKeeps ==
  ASSUME SettlementInv,
         \/ Fetch \/ ReadHandover \/ RecordObservations \/ UpdateReconciliation
         \/ \E permanent \in BOOLEAN : ReadFails(permanent)
  PROVE  SettlementInv'
<1>0. /\ TypeOK /\ query # None /\ query \in Query /\ query.op \in Ops
      /\ query.good => device[query.op] = "clear"
      /\ plan[query.op] # None
  BY DEF SettlementInv, TypeOK, GoodReadingHolds, QueryHasPlan, Query, Fetch, ReadHandover,
         RecordObservations, UpdateReconciliation, ReadFails
<1>1. UNCHANGED <<cell, link, run, device, auth, overtaken, upsets>>
  BY DEF Fetch, ReadHandover, RecordObservations, UpdateReconciliation, ReadFails, Keep
<1>2. ASSUME NEW at \in {"fetched", "record", "release", "attention"}, NEW good \in BOOLEAN
      PROVE  LET q == [query EXCEPT !.at = at, !.good = good]
             IN q \in Query /\ q.good = good /\ q.op = query.op
  BY <1>0 DEF Query
<1>3. query.good \in BOOLEAN
  BY <1>0 DEF Query
<1>4. ASSUME NEW at \in {"fetched", "record", "release", "attention"}
      PROVE  LET q == [query EXCEPT !.at = at]
             IN q \in Query /\ q.good = query.good /\ q.op = query.op
  BY <1>0 DEF Query
<1>5. CASE Fetch
  <2>1. query' = None \/ query' = [query EXCEPT !.at = "fetched"]
    BY <1>5 DEF Fetch
  <2>2. op' = op \/ \E s \in {"unresolved", "succeeded"} :
          op' = [op EXCEPT ![query.op].outcome = s]
    BY <1>5 DEF Fetch
  <2>3. /\ op' \in [Ops -> Operation]
        /\ \A o \in Ops : op'[o].disposition = op[o].disposition
    <3>1. op \in [Ops -> Operation]
      BY <1>0 DEF TypeOK
    <3>2. ASSUME NEW s \in {"unresolved", "succeeded"},
                 op' = [op EXCEPT ![query.op].outcome = s]
          PROVE  <2>3!1 /\ <2>3!2
      <4>1. \A o \in Ops : op'[o] = IF o = query.op THEN [op[o] EXCEPT !.outcome = s] ELSE op[o]
        BY <3>1, <3>2
      <4>2. \A o \in Ops : op'[o] \in Operation /\ op'[o].disposition = op[o].disposition
        BY <3>1, <4>1 DEF Operation, Outcomes
      <4> QED BY <3>1, <3>2, <4>2
    <3> QED BY <2>2, <3>1, <3>2
  <2>4. query' = None \/ (query' \in Query /\ query'.good = query.good /\ query'.op = query.op)
    BY <1>4, <2>1
  <2>5. plan' = plan /\ failures' = failures
    BY <1>5 DEF Fetch
  <2> QED BY <1>0, <1>1, <2>3, <2>4, <2>5, QueryMoves DEF TypeOK
<1>6. CASE ReadHandover
  <2>1. query' = [query EXCEPT !.at = "record", !.good = device[query.op] = "clear"]
    BY <1>6 DEF ReadHandover
  <2>2. /\ query' \in Query /\ query'.good = (device[query.op] = "clear")
        /\ query'.op = query.op
    BY <1>2, <2>1
  <2>3. op' = op /\ plan' = plan /\ failures' = failures
    BY <1>6 DEF ReadHandover
  <2> QED BY <1>0, <1>1, <2>2, <2>3, QueryMoves DEF TypeOK
<1>7. CASE RecordObservations
  <2>1. query' = None \/ query' = [query EXCEPT !.at = "release"]
    BY <1>7 DEF RecordObservations
  <2>2. query' = None \/ (query' \in Query /\ query'.good = query.good /\ query'.op = query.op)
    BY <1>4, <2>1
  <2>3. op' = op /\ plan' = plan /\ failures' = failures
    BY <1>7 DEF RecordObservations
  <2> QED BY <1>0, <1>1, <2>2, <2>3, QueryMoves DEF TypeOK
<1>8. CASE UpdateReconciliation
  <2>1. /\ query' = None /\ op' = op /\ failures' = failures
        /\ query.at \in {"complete", "attention"}
        /\ plan' = plan \/ (plan[query.op].state = "pending"
                            /\ plan' = [plan EXCEPT ![query.op].state = query.at])
    BY <1>8 DEF UpdateReconciliation, OwnPlan
  <2>2. plan' \in [Ops -> Plan \cup {None}]
    <3>1. plan \in [Ops -> Plan \cup {None}] /\ plan[query.op] \in Plan
      BY <1>0 DEF TypeOK
    <3>2. [plan[query.op] EXCEPT !.state = query.at] \in Plan
      BY <2>1, <3>1 DEF Plan
    <3> QED BY <2>1, <3>1, <3>2
  <2> QED BY <1>0, <1>1, <2>1, <2>2, QueryMoves DEF TypeOK
<1>9. ASSUME NEW permanent \in BOOLEAN, ReadFails(permanent)
      PROVE  SettlementInv'
  <2>1. query' = None \/ query' = [query EXCEPT !.at = "attention"]
    BY <1>9 DEF ReadFails
  <2>2. query' = None \/ (query' \in Query /\ query'.good = query.good /\ query'.op = query.op)
    BY <1>4, <2>1
  <2>3. op' = op /\ plan' = plan /\ failures' = failures + 1
    BY <1>9 DEF ReadFails
  <2> QED BY <1>0, <1>1, <2>2, <2>3, QueryMoves DEF TypeOK
<1> QED BY <1>5, <1>6, <1>7, <1>8, <1>9

\* What the commit of a release comes to: nothing freed, or the operation of the
\* query freed on a good reading, with the approval or undisturbed.
Freed(o) ==
  /\ query # None /\ o = query.op /\ query.good
  /\ IF query.settlement # None THEN Authorized(o) ELSE Undisturbed(o)
  /\ Released(o)

\* A release changes only the query that asks for it, or frees what the
\* operation holds.
LEMMA ReleaseComesTo ==
  ASSUME Release
  PROVE  /\ query # None
         /\ UNCHANGED <<cell, link, device, plan, overtaken, upsets, failures>>
         /\ \/ /\ UNCHANGED <<op, run, auth>>
               /\ \/ query' = None
                  \/ \E at \in {"complete", "attention"} : query' = [query EXCEPT !.at = at]
            \/ Freed(query.op)
BY DEF Release, Freed, ReleaseConfirmed

\* What freeing changes.
LEMMA FreedKeeps ==
  ASSUME SettlementInv, Freed(query.op),
         UNCHANGED <<cell, link, device, plan, overtaken, upsets, failures>>
  PROVE  SettlementInv'
<1> DEFINE o == query.op
<1>0. TypeOK /\ query \in Query /\ o \in Ops /\ op \in [Ops -> Operation]
  BY DEF SettlementInv, TypeOK, Query, Freed
<1>1. /\ op' = [op EXCEPT ![o].disposition = "released"]
      /\ run' = IF query.settlement # None /\ PartsDone(o) THEN "completed" ELSE run
      /\ auth' = auth \/ (auth[o] # None /\ auth' = [auth EXCEPT ![o].applied = TRUE])
      /\ query' = [query EXCEPT !.at = "complete"]
  BY DEF Freed, Released, Authorized, PendingAuthorization
<1>2. \A p \in Ops : op'[p] = IF p = o THEN [op[p] EXCEPT !.disposition = "released"] ELSE op[p]
  BY <1>0, <1>1
<1>3. /\ op' \in [Ops -> Operation]
      /\ \A p \in Ops : op'[p].disposition = IF p = o THEN "released" ELSE op[p].disposition
  <2>1. \A p \in Ops : /\ op'[p] \in Operation
                       /\ op'[p].disposition = IF p = o THEN "released" ELSE op[p].disposition
    BY <1>0, <1>2 DEF Operation
  <2> QED BY <1>0, <1>1, <2>1
<1>4. /\ auth' \in [Ops -> Authorization \cup {None}]
      /\ \A p \in Ops : auth'[p] # None =>
           /\ auth[p] # None /\ auth'[p].epoch = auth[p].epoch
           /\ auth'[p].link = auth[p].link /\ auth'[p].expired = auth[p].expired
  <2>1. auth \in [Ops -> Authorization \cup {None}]
    BY <1>0 DEF TypeOK
  <2>2. CASE auth' = auth
    BY <2>1, <2>2
  <2>3. CASE auth[o] # None /\ auth' = [auth EXCEPT ![o].applied = TRUE]
    <3> DEFINE a == [auth[o] EXCEPT !.applied = TRUE]
    <3>1. /\ a \in Authorization /\ a.epoch = auth[o].epoch /\ a.link = auth[o].link
          /\ a.expired = auth[o].expired
      BY <1>0, <2>1, <2>3 DEF Authorization
    <3>2. auth' = [auth EXCEPT ![o] = a]
      BY <2>3
    <3> HIDE DEF a
    <3> QED BY <1>0, <2>1, <2>3, <3>1, <3>2
  <2> QED BY <1>1, <2>2, <2>3
<1>5. query' \in Query /\ query'.good = query.good /\ query'.op = o
  BY <1>0, <1>1 DEF Query
<1>6. run' \in {"executing", "recovery", "completed"}
  BY <1>0, <1>1 DEF TypeOK
<1>7. TypeOK'
  BY <1>0, <1>3, <1>4, <1>5, <1>6 DEF TypeOK
<1>8. QuarantineFollowsEpoch'
  BY <1>3 DEF SettlementInv, QuarantineFollowsEpoch
<1>9. OvertakenIsVisible'
  BY <1>4 DEF SettlementInv, OvertakenIsVisible
<1>10. GoodReadingHolds' /\ QueryHasPlan'
  BY <1>5 DEF SettlementInv, GoodReadingHolds, QueryHasPlan, Freed
<1>11. CompletedIsEmpty'
  BY <1>1, <1>3 DEF SettlementInv, CompletedIsEmpty, PartsDone
<1> QED BY <1>7, <1>8, <1>9, <1>10, <1>11 DEF SettlementInv

\* A release keeps the invariant.
LEMMA ReleaseKeeps ==
  ASSUME SettlementInv, Release
  PROVE  SettlementInv'
<1>1. CASE Freed(query.op)
  BY <1>1, ReleaseComesTo, FreedKeeps
<1>2. CASE /\ UNCHANGED <<op, run, auth>>
           /\ \/ query' = None
              \/ \E at \in {"complete", "attention"} : query' = [query EXCEPT !.at = at]
  <2>1. /\ query # None /\ query \in Query /\ query.op \in Ops
        /\ query.good => device[query.op] = "clear"
        /\ plan[query.op] # None
    BY ReleaseComesTo DEF SettlementInv, TypeOK, GoodReadingHolds, QueryHasPlan, Query
  <2>2. query' = None \/ (query' \in Query /\ query'.good = query.good /\ query'.op = query.op)
    BY <1>2, <2>1 DEF Query
  <2>3. UNCHANGED <<cell, link, device, plan, overtaken, upsets, failures>>
    BY ReleaseComesTo
  <2> QED BY <1>2, <2>1, <2>2, <2>3, QueryMoves DEF SettlementInv, TypeOK
<1> QED BY <1>1, <1>2, ReleaseComesTo

\* The invariant is kept by every step.
LEMMA SettlementInvStep ==
  ASSUME SettlementInv, [Next]_vars
  PROVE  SettlementInv'
<1>1. CASE UNCHANGED vars
  BY <1>1 DEF vars, SettlementInv, TypeOK, QuarantineFollowsEpoch, OvertakenIsVisible,
              GoodReadingHolds, QueryHasPlan, CompletedIsEmpty
<1>2. CASE \/ \E kind \in {"revoked", "conflict"} : Invalidate(kind)
           \/ RestartRuntime
           \/ \E o \in Ops : Dispute(o)
  BY <1>2, UpsetKeeps
<1>3. CASE \E kind \in {"host", "relink"} : Relink(kind)
  BY <1>3, RelinkKeeps
<1>4. CASE \E o \in Ops : Expire(o)
  BY <1>4, ExpireKeeps
<1>5. CASE AckFence \/ \E o \in Ops : DeviceStep(o)
  BY <1>5, WorldKeeps
<1>6. CASE \E o \in Ops : RequestReconciliation(o) \/ ApproveSettlement(o)
  BY <1>6, PlanKeeps
<1>7. CASE \E o \in Ops : QueryPlan(o)
  BY <1>7, QueryPlanKeeps
<1>8. CASE \/ Fetch \/ ReadHandover \/ RecordObservations \/ UpdateReconciliation
           \/ \E permanent \in BOOLEAN : ReadFails(permanent)
  BY <1>8, ReadingKeeps
<1>9. CASE Release
  BY <1>9, ReleaseKeeps
<1> QED BY <1>1, <1>2, <1>3, <1>4, <1>5, <1>6, <1>7, <1>8, <1>9 DEF Next, QueryStep

\* The only step that frees is the commit of a release.
LEMMA OnlyReleaseFrees ==
  ASSUME SettlementInv, Next, NEW o \in Ops,
         op[o].disposition # "released", op'[o].disposition = "released"
  PROVE  Freed(o)
<1>1. op \in [Ops -> Operation]
  BY DEF SettlementInv, TypeOK
<1>2. ASSUME \/ \E kind \in {"revoked", "conflict"} : Invalidate(kind)
             \/ RestartRuntime
             \/ \E p \in Ops : Dispute(p)
      PROVE  FALSE
  <2>1. /\ Quarantined \in [Ops -> Operation] /\ Quarantined[o].disposition # "released"
    BY <1>1, QuarantinedOperations
  <2>2. op' = Quarantined \/ \E p \in Ops : op' = [Quarantined EXCEPT ![p].valid = FALSE]
    BY <1>2 DEF Invalidate, RestartRuntime, Dispute
  <2> DEFINE q == Quarantined
  <2> HIDE DEF q
  <2>3. ASSUME NEW p \in Ops, op' = [q EXCEPT ![p].valid = FALSE], q \in [Ops -> Operation]
        PROVE  op'[o].disposition = q[o].disposition
    <3>1. op'[o] = IF o = p THEN [q[o] EXCEPT !.valid = FALSE] ELSE q[o]
      BY <2>3
    <3> QED BY <2>3, <3>1 DEF Operation
  <2> QED BY <2>1, <2>2, <2>3 DEF q
<1>3. ASSUME Fetch PROVE FALSE
  <2>1. op' = op \/ \E s \in {"unresolved", "succeeded"} :
          op' = [op EXCEPT ![query.op].outcome = s]
    BY <1>3 DEF Fetch
  <2>2. PICK s \in {"unresolved", "succeeded"} : op' = [op EXCEPT ![query.op].outcome = s]
    BY <2>1
  <2>3. op'[o] = IF o = query.op THEN [op[o] EXCEPT !.outcome = s] ELSE op[o]
    BY <1>1, <2>2
  <2> QED BY <1>1, <2>3 DEF Operation
<1>4. CASE Release
  <2>1. Freed(query.op)
    BY <1>4, ReleaseComesTo
  <2>2. o = query.op
    <3>1. op' = [op EXCEPT ![query.op].disposition = "released"]
      BY <2>1 DEF Freed, Released
    <3> QED BY <1>1, <3>1
  <2> QED BY <2>1, <2>2
<1>5. op' # op
  OBVIOUS
<1> QED BY <1>2, <1>3, <1>4, <1>5 DEF Next, QueryStep, Relink, AckFence, Expire, DeviceStep,
           RequestReconciliation, ApproveSettlement, QueryPlan, ReadHandover,
           RecordObservations, UpdateReconciliation, ReadFails

\* Whatever overtakes it, a settlement frees resources only for a valid result
\* while the equipment has handed over, after an invalidation only on an approval
\* in whose context nothing changed since, and the run it completes holds nothing
\* (settlement.rs settle_resources, handover.rs release_confirmed and
\* complete_part_transition).
THEOREM SettlementIsAlwaysSafe == Spec => ReleaseIsSafe
<1>1. SettlementInv /\ [Next]_vars => SettlementInv'
  BY SettlementInvStep
<1>2. SettlementInv /\ [Next]_vars
        => [ReleasesInItsContext /\ ReleasesHandedOver /\ CompletesEmpty]_vars
  <2> SUFFICES ASSUME SettlementInv, Next, SettlementInv'
               PROVE  ReleasesInItsContext /\ ReleasesHandedOver /\ CompletesEmpty
    BY <1>1
  <2>1. ReleasesHandedOver
    <3> SUFFICES ASSUME NEW o \in Ops, op[o].disposition # "released",
                        op'[o].disposition = "released"
                 PROVE  device[o] = "clear" /\ op[o].valid
      BY DEF ReleasesHandedOver
    <3>1. Freed(o)
      BY OnlyReleaseFrees
    <3>2. op[o].valid
      BY <3>1 DEF Freed, Authorized, Context, Undisturbed
    <3> QED BY <3>1, <3>2 DEF Freed, SettlementInv, GoodReadingHolds
  <2>2. ReleasesInItsContext
    <3> SUFFICES ASSUME NEW o \in Ops, op[o].disposition = "quarantined",
                        op'[o].disposition = "released"
                 PROVE  auth[o] # None /\ o \notin overtaken
      BY DEF ReleasesInItsContext
    <3>1. Freed(o)
      BY OnlyReleaseFrees
    <3>2. cell.epoch > 0 /\ cell.epoch \in Nat /\ link.session \in Nat
      BY DEF SettlementInv, QuarantineFollowsEpoch, TypeOK, Link
    <3>3. query.settlement # None /\ Authorized(o)
      BY <3>1, <3>2 DEF Freed, Undisturbed
    <3>4. auth[o] # None /\ ~auth[o].expired /\ auth[o].link = link /\ auth[o].epoch = cell.epoch
      BY <3>3 DEF Authorized, PendingAuthorization
    <3> QED BY <3>2, <3>4 DEF SettlementInv, OvertakenIsVisible
  <2>3. CompletesEmpty
    BY DEF SettlementInv, CompletedIsEmpty, CompletesEmpty
  <2> QED BY <2>1, <2>2, <2>3
<1> QED BY <1>1, <1>2, SettlementInvInit, PTL DEF Spec, ReleaseIsSafe
=============================================================================
