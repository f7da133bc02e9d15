------------------------ MODULE QualificationProofs ------------------------
(***************************************************************************)
(* A certificate is backed, accepted and approved, and lifted blocks are   *)
(* over, for any number of hosts, people, requests, batches and            *)
(* disturbances.                                                           *)
(*                                                                         *)
(* suspend is called in loops over batches: SuspendAll is a recursive      *)
(* function.  What it computes is shown once, in SuspendAllDoes, by        *)
(* looking at the first pass that would go wrong; every action is then     *)
(* argued from that lemma alone.                                           *)
(***************************************************************************)
EXTENDS QualificationActivation, WellFoundedInduction, SequenceTheorems, TLAPS

-----------------------------------------------------------------------------
(* The types of the records, and the inductive invariant.                  *)

Cell == [revision : Nat, epoch : Nat, blocks : SUBSET Nat, batch : 0..MaxBatches]

Change == [state : {"AppliedUnqualified", "QualifiedActive"}, revision : Nat,
           batch : 0..MaxBatches]

Batch == [state : {"None", "Pending", "Active", "Suspended"}, job : Nat, boot : Nat,
          epoch : Nat, revision : Nat, clear : SUBSET Nat]

Receipt == {"None", "Accepted", "Refused"}

Task == [gen : Nat, phase : {"None", "AwaitingSnapshot", "Prepared", "SendEntered"},
         receipt : Receipt, matches : BOOLEAN, disputed : BOOLEAN,
         issue : {"None", "ReceiptMissing", "Other", "Mismatch", "GenerationChanged"}]

Registration == [gen : Nat, epoch : Nat]

Origin ==
    {NoOrigin} \cup [kind : {"stop", "restart"}, boot : Nat]
    \cup [kind : {"producer", "source"}, host : Hosts, gen : Nat, epoch : Nat]

\* A hold is nobody's and has no origin: nothing can make it a change's.
Block ==
    {x \in [reason : {"hold", "revoked", "restart", "device", "change"}, owned : BOOLEAN,
            origin : Origin] :
        x.reason = "hold" => ~x.owned /\ x.origin = NoOrigin}

Job == [id : Nat, by : People, boot : Nat, policy : Nat, changeRevision : Nat, revision : Nat,
        epoch : Nat, selected : SUBSET Nat, targets : SUBSET Nat, report : Nat,
        ready : BOOLEAN, recorder : People \cup {Nil}, decision : {"None", "Approve", "Reject"},
        decisions : Nat, decided : Nat, decider : People \cup {Nil}]

Approval == [kind : {"approve"}, job : Nat, report : Nat, decisions : Nat, by : People]
Activation == [kind : {"activate"}, batch : Batches, revision : Nat, cell : Nat]

\* What suspend reads and writes.
States ==
    {x \in [cell : Cell, block : Seq(Block), batch : [Batches -> Batch], change : Change] :
        x.cell.blocks \subseteq 1..Len(x.block)}

PeerType ==
    /\ boot \in Nat /\ serving \in BOOLEAN /\ faults \in Nat
    /\ host \in [Hosts -> Registration] /\ producer \in [Hosts -> Nat]
    /\ link \in [Hosts -> Registration] /\ ack \in [Hosts -> Registration]
    /\ receipt \in [Hosts -> [Batches -> Receipt]]

ReviewType ==
    /\ policy \in [boot : Nat, version : Nat]
    /\ job \in Job \cup {Nil}
    /\ ticket \in Approval \cup Activation \cup {Nil}

DeliveryType ==
    /\ task \in [Batches -> [Hosts -> Task]]
    /\ reads \subseteq Batches \X Hosts /\ network \subseteq Batches \X Hosts
    /\ busy \in BOOLEAN

TypeOK == Present \in States /\ PeerType /\ ReviewType /\ DeliveryType

\* An approval of the newest report is one of a complete report, by somebody
\* who neither asked for the request nor wrote the report.
DecidedIndependently ==
    job # Nil =>
        /\ job.decided <= job.report
        /\ job.decision = "Approve" /\ job.decided = job.report =>
               job.decider \notin {job.by, job.recorder, Nil}

QualificationInv ==
    TypeOK /\ DecidedIndependently /\ CertificateIsBacked /\ CertifiedIsAccepted

-----------------------------------------------------------------------------
(* The loop of suspensions.                                                *)

\* A set of numbers that is not empty has a least one.
LEMMA LeastNumber ==
  ASSUME NEW T, T \subseteq Nat, T # {}
  PROVE  \E n \in T : \A m \in T : n <= m
<1>1. PICK n \in T : \A m \in T : ~(<<m, n>> \in OpToRel(<, Nat))
  BY NatLessThanWellFounded, WFMin
<1>2. ASSUME NEW m \in T PROVE n <= m
  <2>1. n \in Nat /\ m \in Nat
    OBVIOUS
  <2>2. ~(m < n)
    BY <1>1, <2>1 DEF OpToRel
  <2> QED BY <2>1, <2>2
<1> QED BY <1>2

\* One pass of the loop, for batch k.
Pass(x, k, S) == IF k \in S THEN Suspended(x, k, "revoked") ELSE x

\* The passes up to n, from R on.
Passes(f, n, R, S) == f = [k \in 0..n |-> IF k = 0 THEN R ELSE Pass(f[k - 1], k, S)]

\* The loop can be run to its end.
LEMMA PassesExist ==
  ASSUME NEW R, NEW S, NEW n \in Nat
  PROVE  \E f : Passes(f, n, R, S)
<1> DEFINE T == {m \in Nat : ~\E f : Passes(f, m, R, S)}
<1> SUFFICES ASSUME T # {} PROVE FALSE
  OBVIOUS
<1>1. PICK m \in T : \A k \in T : m <= k
  BY LeastNumber
<1>2. CASE m = 0
  <2> DEFINE g == [k \in 0..0 |-> R]
  <2>1. g = [k \in 0..0 |-> IF k = 0 THEN R ELSE Pass(g[k - 1], k, S)]
    OBVIOUS
  <2> QED BY <1>2, <2>1 DEF Passes
<1>3. CASE m # 0
  <2>1. m - 1 \in Nat /\ m \in Nat /\ m - 1 \notin T
    BY <1>1, <1>3
  <2>2. PICK g : Passes(g, m - 1, R, S)
    BY <2>1
  <2> DEFINE h == [k \in 0..m |-> IF k = m THEN Pass(g[m - 1], m, S) ELSE g[k]]
  <2>3. ASSUME NEW k \in 0..m
        PROVE  h[k] = IF k = 0 THEN R ELSE Pass(h[k - 1], k, S)
    <3>1. CASE k = m
      <4>1. m - 1 \in 0..m /\ m - 1 # m /\ h[m - 1] = g[m - 1]
        BY <2>1
      <4> QED BY <3>1, <4>1, <1>3
    <3>2. CASE k # m
      <4>1. k \in 0..(m - 1) /\ h[k] = g[k]
        BY <3>2, <2>1
      <4>2. g[k] = IF k = 0 THEN R ELSE Pass(g[k - 1], k, S)
        BY <4>1, <2>2 DEF Passes
      <4>3. k # 0 => k - 1 \in 0..m /\ k - 1 # m /\ h[k - 1] = g[k - 1]
        BY <4>1, <2>1
      <4> QED BY <4>1, <4>2, <4>3
    <3> QED BY <3>1, <3>2
  <2>4. h = [k \in 0..m |-> IF k = 0 THEN R ELSE Pass(h[k - 1], k, S)]
    BY <2>3
  <2>5. Passes(h, m, R, S)
    BY <2>4 DEF Passes
  <2> QED BY <2>5
<1> QED BY <1>2, <1>3

\* What holds at the start of the loop and is kept by every pass holds at its
\* end; Q says for each pass what holds after it.
LEMMA SuspendLoop ==
  ASSUME NEW R, NEW S, NEW Q, R \in Q[0],
         \A k \in Batches : \A x \in Q[k - 1] : Pass(x, k, S) \in Q[k]
  PROVE  SuspendAll(R, S) \in Q[MaxBatches]
<1> DEFINE Loop(f) == f = [k \in 0..MaxBatches |->
                IF k = 0 THEN R
                ELSE IF k \in S THEN Suspended(f[k - 1], k, "revoked") ELSE f[k - 1]]
<1> DEFINE f == CHOOSE f : Loop(f)
<1>0. MaxBatches \in Nat
  BY QualificationConstants
<1>1. \E g : Passes(g, MaxBatches, R, S)
  BY <1>0, PassesExist
<1>2. \E g : Loop(g)
  BY <1>1 DEF Passes, Pass
<1>3. Loop(f)
  BY <1>2
<1>4. SuspendAll(R, S) = f[MaxBatches]
  BY DEF SuspendAll
<1> HIDE DEF f
<1>5. f[0] = R /\ \A k \in Batches : f[k] = Pass(f[k - 1], k, S)
  BY <1>0, <1>3 DEF Pass, Batches
<1> DEFINE T == {k \in 0..MaxBatches : f[k] \notin Q[k]}
<1>6. T = {}
  <2> SUFFICES ASSUME T # {} PROVE FALSE
    OBVIOUS
  <2>0. T \subseteq Nat
    BY <1>0
  <2> HIDE DEF T
  <2>1. PICK m \in T : \A k \in T : m <= k
    BY LeastNumber, <2>0
  <2> USE DEF T
  <2>2. m # 0
    BY <2>1, <1>5
  <2>3. m \in Batches /\ m - 1 \in 0..MaxBatches /\ m - 1 \notin T
    BY <1>0, <2>1, <2>2 DEF Batches
  <2> QED BY <2>1, <2>3, <1>5
<1> QED BY <1>0, <1>4, <1>6

\* invalidate_cell, on a cell and its blocks.
LEMMA InvalidatedCell ==
  ASSUME NEW c \in Cell, NEW s \in Seq(Block), c.blocks \subseteq 1..Len(s), NEW b \in Block
  PROVE  /\ Invalidated(c, Len(s) + 1) \in Cell
         /\ Append(s, b) \in Seq(Block)
         /\ Invalidated(c, Len(s) + 1).blocks \subseteq 1..Len(Append(s, b))
         /\ Invalidated(c, Len(s) + 1).blocks = c.blocks \cup {Len(s) + 1}
         /\ Invalidated(c, Len(s) + 1).batch = c.batch
<1>1. Len(s) \in Nat /\ Append(s, b) \in Seq(Block) /\ Len(Append(s, b)) = Len(s) + 1
  BY AppendProperties, LenProperties
<1> DEFINE i == Invalidated(c, Len(s) + 1)
<1>2. i.blocks = c.blocks \cup {Len(s) + 1} /\ i.batch = c.batch
  BY DEF Invalidated, Cell
<1>3. c.blocks \cup {Len(s) + 1} \in SUBSET Nat /\ c.revision + 1 \in Nat /\ c.epoch + 1 \in Nat
  BY <1>1 DEF Cell
<1>4. i \in Cell
  BY <1>3 DEF Invalidated, Cell
<1>5. c.blocks \cup {Len(s) + 1} \subseteq 1..(Len(s) + 1)
  BY <1>1
<1> QED BY <1>1, <1>2, <1>4, <1>5

\* The updates of a change and a batch by a suspension are typed.
LEMMA ChangeLapses ==
  ASSUME NEW c \in Change
  PROVE  /\ [c EXCEPT !.state = "AppliedUnqualified", !.revision = @ + 1] \in Change
         /\ [c EXCEPT !.state = "AppliedUnqualified", !.revision = @ + 1].batch = c.batch
         /\ [c EXCEPT !.state = "AppliedUnqualified", !.revision = @ + 1].state
              = "AppliedUnqualified"
<1>1. c.revision + 1 \in Nat
  BY DEF Change
<1> QED BY <1>1 DEF Change

LEMMA BatchSuspends ==
  ASSUME NEW f \in [Batches -> Batch], NEW k \in Batches
  PROVE  /\ [f EXCEPT ![k].state = "Suspended", ![k].revision = @ + 1] \in [Batches -> Batch]
         /\ [f EXCEPT ![k].state = "Suspended", ![k].revision = @ + 1][k].state = "Suspended"
<1>1. f[k] \in Batch /\ f[k].revision + 1 \in Nat
  BY DEF Batch
<1>2. [f[k] EXCEPT !.state = "Suspended", !.revision = f[k].revision + 1] \in Batch
  BY <1>1 DEF Batch
<1> QED BY <1>1, <1>2 DEF Batch

\* One suspension: the batch is suspended, the cell loses it if it was its
\* certificate, and a change that was in force through it is not any more.
LEMMA SuspendedDoes ==
  ASSUME NEW x \in States, NEW k \in Batches
  PROVE  LET y == Suspended(x, k, "revoked")
         IN  /\ y \in States
             /\ y.cell.batch = IF x.cell.batch = k THEN 0 ELSE x.cell.batch
             /\ x.cell.blocks \subseteq y.cell.blocks
             /\ y.batch[k].state = "Suspended"
             /\ \A b \in Batches \ {k} : y.batch[b] = x.batch[b]
             /\ y.change.batch = x.change.batch
             /\ y.change.state = IF x.change.state = "QualifiedActive" /\ x.change.batch = k
                                   THEN "AppliedUnqualified" ELSE x.change.state
<1> DEFINE y == Suspended(x, k, "revoked")
           n == Len(x.block) + 1
           new == NewBlock("revoked", TRUE, NoOrigin)
           c == Invalidated(x.cell, n)
           lost == x.cell.batch = k \/ ( /\ x.batch[k].state = "Pending"
                                         /\ x.batch[k].boot = boot
                                         /\ x.cell.epoch = x.batch[k].epoch )
<1>0. /\ x.cell \in Cell /\ x.block \in Seq(Block) /\ x.batch \in [Batches -> Batch]
      /\ x.change \in Change /\ x.cell.blocks \subseteq 1..Len(x.block)
  BY DEF States
<1>1. new \in Block
  BY DEF NewBlock, Block, Origin
<1>2. /\ c \in Cell /\ Append(x.block, new) \in Seq(Block)
      /\ c.blocks \subseteq 1..Len(Append(x.block, new))
      /\ x.cell.blocks \subseteq c.blocks /\ c.batch = x.cell.batch
  <2> HIDE DEF new
  <2>1. /\ Invalidated(x.cell, Len(x.block) + 1) \in Cell
        /\ Append(x.block, new) \in Seq(Block)
        /\ Invalidated(x.cell, Len(x.block) + 1).blocks \subseteq 1..Len(Append(x.block, new))
        /\ Invalidated(x.cell, Len(x.block) + 1).blocks = x.cell.blocks \cup {Len(x.block) + 1}
        /\ Invalidated(x.cell, Len(x.block) + 1).batch = x.cell.batch
    BY <1>0, <1>1, InvalidatedCell
  <2> QED BY <2>1
<1> HIDE DEF new, c
<1>3. y = [batch |-> [x.batch EXCEPT ![k].state = "Suspended", ![k].revision = @ + 1],
           cell |-> IF lost THEN [c EXCEPT !.batch = IF @ = k THEN 0 ELSE @] ELSE x.cell,
           block |-> IF lost THEN Append(x.block, new) ELSE x.block,
           change |-> IF x.change.state = "QualifiedActive" /\ x.change.batch = k
                        THEN [x.change EXCEPT !.state = "AppliedUnqualified", !.revision = @ + 1]
                        ELSE x.change]
  BY DEF Suspended, new, c
<1> HIDE DEF y
<1>4. /\ y.batch \in [Batches -> Batch] /\ y.batch[k].state = "Suspended"
      /\ \A b \in Batches \ {k} : y.batch[b] = x.batch[b]
  <2>1. x.batch[k] \in Batch
    BY <1>0
  <2>2. y.batch = [x.batch EXCEPT ![k].state = "Suspended", ![k].revision = @ + 1]
    BY <1>3
  <2>3. /\ [x.batch EXCEPT ![k].state = "Suspended", ![k].revision = @ + 1]
             \in [Batches -> Batch]
        /\ [x.batch EXCEPT ![k].state = "Suspended", ![k].revision = @ + 1][k].state
             = "Suspended"
    BY <1>0, BatchSuspends
  <2> QED BY <1>0, <2>2, <2>3
<1>5. /\ y.cell \in Cell
      /\ y.cell.batch = IF x.cell.batch = k THEN 0 ELSE x.cell.batch
      /\ y.cell.blocks = IF lost THEN c.blocks ELSE x.cell.blocks
  <2>0. MaxBatches \in Nat
    BY QualificationConstants
  <2>1. CASE lost
    <3>1. y.cell = [c EXCEPT !.batch = IF c.batch = k THEN 0 ELSE c.batch]
      BY <1>3, <2>1
    <3> QED BY <1>2, <2>0, <2>1, <3>1 DEF Cell
  <2>2. CASE ~lost
    BY <1>0, <1>3, <2>2
  <2> QED BY <2>1, <2>2
<1>6. /\ y.change \in Change /\ y.change.batch = x.change.batch
      /\ y.change.state = IF x.change.state = "QualifiedActive" /\ x.change.batch = k
                            THEN "AppliedUnqualified" ELSE x.change.state
  <2>1. CASE x.change.state = "QualifiedActive" /\ x.change.batch = k
    <3>1. y.change = [x.change EXCEPT !.state = "AppliedUnqualified", !.revision = @ + 1]
      BY <1>3, <2>1
    <3>2. /\ [x.change EXCEPT !.state = "AppliedUnqualified", !.revision = @ + 1] \in Change
          /\ [x.change EXCEPT !.state = "AppliedUnqualified", !.revision = @ + 1].batch
               = x.change.batch
          /\ [x.change EXCEPT !.state = "AppliedUnqualified", !.revision = @ + 1].state
               = "AppliedUnqualified"
      BY <1>0, ChangeLapses
    <3> QED BY <2>1, <3>1, <3>2
  <2>2. CASE ~(x.change.state = "QualifiedActive" /\ x.change.batch = k)
    BY <1>0, <1>3, <2>2
  <2> QED BY <2>1, <2>2
<1>7. y.block \in Seq(Block) /\ y.cell.blocks \subseteq 1..Len(y.block)
  BY <1>0, <1>2, <1>3, <1>5
<1>8. y \in States
  BY <1>3, <1>4, <1>5, <1>6, <1>7 DEF States
<1> QED BY <1>2, <1>4, <1>5, <1>6, <1>8 DEF y

\* The state x after the suspensions of R's batches in S up to number n.
UpTo(x, R, S, n) ==
    /\ x.cell.batch = IF R.cell.batch \in S /\ R.cell.batch <= n THEN 0 ELSE R.cell.batch
    /\ R.cell.blocks \subseteq x.cell.blocks
    /\ \A b \in Batches : IF b \in S /\ b <= n THEN x.batch[b].state = "Suspended"
                                               ELSE x.batch[b] = R.batch[b]
    /\ x.change.batch = R.change.batch
    /\ x.change.state =
         IF R.change.state = "QualifiedActive" /\ R.change.batch \in S /\ R.change.batch <= n
           THEN "AppliedUnqualified" ELSE R.change.state

\* The whole loop suspends the batches it is for, and no other.
LEMMA SuspendAllDoes ==
  ASSUME NEW R \in States, NEW S \in SUBSET Batches
  PROVE  /\ SuspendAll(R, S) \in States
         /\ UpTo(SuspendAll(R, S), R, S, MaxBatches)
<1> DEFINE Q == [k \in 0..MaxBatches |-> {x \in States : UpTo(x, R, S, k)}]
<1>0. /\ MaxBatches \in Nat /\ Batches = 1..MaxBatches
      /\ R.cell \in Cell /\ R.batch \in [Batches -> Batch] /\ R.change \in Change
      /\ R.cell.batch \in 0..MaxBatches /\ R.change.batch \in 0..MaxBatches
  BY QualificationConstants DEF Batches, States, Cell, Change
<1>1. R \in Q[0]
  BY <1>0 DEF UpTo
<1>2. ASSUME NEW k \in Batches, NEW x \in Q[k - 1]
      PROVE  Pass(x, k, S) \in Q[k]
  <2>1. k - 1 \in 0..MaxBatches /\ k \in 0..MaxBatches /\ k \in Nat
    BY <1>0
  <2>2. x \in States /\ UpTo(x, R, S, k - 1)
    BY <2>1
  <2>3. CASE k \notin S
    <3>1. UpTo(x, R, S, k)
      BY <1>0, <2>1, <2>2, <2>3 DEF UpTo
    <3> QED BY <2>1, <2>2, <2>3, <3>1 DEF Pass
  <2>4. CASE k \in S
    <3> DEFINE y == Suspended(x, k, "revoked")
    <3>1. /\ y \in States
          /\ y.cell.batch = IF x.cell.batch = k THEN 0 ELSE x.cell.batch
          /\ x.cell.blocks \subseteq y.cell.blocks
          /\ y.batch[k].state = "Suspended"
          /\ \A b \in Batches \ {k} : y.batch[b] = x.batch[b]
          /\ y.change.batch = x.change.batch
          /\ y.change.state = IF x.change.state = "QualifiedActive" /\ x.change.batch = k
                                THEN "AppliedUnqualified" ELSE x.change.state
      BY <2>2, SuspendedDoes
    <3> HIDE DEF y
    <3>2. y.cell.batch = IF R.cell.batch \in S /\ R.cell.batch <= k THEN 0 ELSE R.cell.batch
      BY <1>0, <2>1, <2>2, <2>4, <3>1 DEF UpTo
    <3>3. \A b \in Batches : IF b \in S /\ b <= k THEN y.batch[b].state = "Suspended"
                                                 ELSE y.batch[b] = R.batch[b]
      BY <1>0, <2>1, <2>2, <2>4, <3>1 DEF UpTo
    <3>4. y.change.state =
            IF R.change.state = "QualifiedActive" /\ R.change.batch \in S /\ R.change.batch <= k
              THEN "AppliedUnqualified" ELSE R.change.state
      BY <1>0, <2>1, <2>2, <2>4, <3>1 DEF UpTo
    <3>5. UpTo(y, R, S, k)
      BY <2>2, <3>1, <3>2, <3>3, <3>4 DEF UpTo
    <3> QED BY <2>1, <2>4, <3>1, <3>5 DEF Pass, y
  <2> QED BY <2>3, <2>4
<1> HIDE DEF Q
<1>3. SuspendAll(R, S) \in Q[MaxBatches]
  BY <1>1, <1>2, SuspendLoop
<1> QED BY <1>0, <1>3 DEF Q

-----------------------------------------------------------------------------
(* What the actions do to the ledger.                                      *)

\* The certificate rests on five variables: while they stay, so does it.
LEMMA CertificateStays ==
  ASSUME QualificationInv, cell'.batch = cell.batch, UNCHANGED <<boot, batch, change, job, task>>
  PROVE  CertificateIsBacked' /\ CertifiedIsAccepted' /\ DecidedIndependently'
BY DEF QualificationInv, CertificateIsBacked, CertifiedIsAccepted, DecidedIndependently,
       ActiveBatches

\* The ledger of the present state, taken apart.
LEMMA PresentLedger ==
  /\ Present \in States <=> /\ cell \in Cell /\ block \in Seq(Block)
                            /\ cell.blocks \subseteq 1..Len(block)
                            /\ batch \in [Batches -> Batch] /\ change \in Change
  /\ (Present \in States)' <=> /\ cell' \in Cell /\ block' \in Seq(Block)
                               /\ cell'.blocks \subseteq 1..Len(block')
                               /\ batch' \in [Batches -> Batch] /\ change' \in Change
<1>1. ASSUME NEW c, NEW s, NEW f, NEW g
      PROVE  [cell |-> c, block |-> s, batch |-> f, change |-> g] \in States
                <=> /\ c \in Cell /\ s \in Seq(Block) /\ c.blocks \subseteq 1..Len(s)
                    /\ f \in [Batches -> Batch] /\ g \in Change
  BY DEF States
<1>2. Present \in States <=> /\ cell \in Cell /\ block \in Seq(Block)
                             /\ cell.blocks \subseteq 1..Len(block)
                             /\ batch \in [Batches -> Batch] /\ change \in Change
  BY <1>1 DEF Present
<1>3. (Present \in States)' <=> /\ cell' \in Cell /\ block' \in Seq(Block)
                                /\ cell'.blocks \subseteq 1..Len(block')
                                /\ batch' \in [Batches -> Batch] /\ change' \in Change
  <2>1. [cell |-> cell', block |-> block', batch |-> batch', change |-> change'] \in States
                <=> /\ cell' \in Cell /\ block' \in Seq(Block)
                    /\ cell'.blocks \subseteq 1..Len(block')
                    /\ batch' \in [Batches -> Batch] /\ change' \in Change
    BY <1>1
  <2>2. Present' = [cell |-> cell', block |-> block', batch |-> batch', change |-> change']
    BY DEF Present
  <2>3. States' = States
    BY DEF States, Cell, Block, Batch, Change, Origin, NoOrigin, Batches
  <2> QED BY <2>1, <2>2, <2>3
<1> QED BY <1>2, <1>3

\* A revocation adds a block and leaves the certificate's number to the cell.
LEMMA InvalidateKeeps ==
  ASSUME QualificationInv, NEW b \in Block, Invalidate(b),
         UNCHANGED <<boot, batch, change, job, task>>
  PROVE  /\ (Present \in States)' /\ cell.blocks \subseteq cell'.blocks
         /\ CertificateIsBacked' /\ CertifiedIsAccepted' /\ DecidedIndependently'
<1>0. /\ cell \in Cell /\ block \in Seq(Block) /\ cell.blocks \subseteq 1..Len(block)
      /\ batch \in [Batches -> Batch] /\ change \in Change
  BY PresentLedger DEF QualificationInv, TypeOK
<1>1. /\ cell' = Invalidated(cell, Len(block) + 1) /\ block' = Append(block, b)
  BY DEF Invalidate
<1>2. /\ cell' \in Cell /\ block' \in Seq(Block) /\ cell'.blocks \subseteq 1..Len(block')
      /\ cell'.blocks = cell.blocks \cup {Len(block) + 1} /\ cell'.batch = cell.batch
  BY <1>0, <1>1, InvalidatedCell
<1>3. (Present \in States)'
  BY <1>0, <1>2, PresentLedger
<1> QED BY <1>2, <1>3, CertificateStays

\* Suspensions, after a revocation or without one.  S has every active batch
\* when the boot is a new one.
LEMMA SuspendKeeps ==
  ASSUME QualificationInv, NEW S \in SUBSET Batches, NEW R \in States,
         R.batch = batch, R.change = change, cell.blocks \subseteq R.cell.blocks,
         \/ R.cell.batch = cell.batch /\ boot' = boot
         \/ R.cell.batch = 0 /\ ActiveBatches \subseteq S,
         Becomes(SuspendAll(R, S)), job' = job,
         \A b \in Batches, h \in Hosts :
             task[b][h].receipt = "Accepted" => task'[b][h].receipt = "Accepted"
  PROVE  /\ (Present \in States)' /\ cell.blocks \subseteq cell'.blocks
         /\ CertificateIsBacked' /\ CertifiedIsAccepted' /\ DecidedIndependently'
<1> DEFINE X == SuspendAll(R, S)
<1>0. /\ MaxBatches \in Nat /\ Batches = 1..MaxBatches
      /\ cell \in Cell /\ batch \in [Batches -> Batch] /\ change \in Change
      /\ cell.batch \in 0..MaxBatches /\ change.batch \in 0..MaxBatches
  BY QualificationConstants, PresentLedger DEF QualificationInv, TypeOK, Batches, Cell, Change
<1>1. X \in States /\ UpTo(X, R, S, MaxBatches)
  BY SuspendAllDoes
<1>2. cell' = X.cell /\ block' = X.block /\ batch' = X.batch /\ change' = X.change
  BY DEF Becomes
<1> HIDE DEF X
<1>3. (Present \in States)'
  BY <1>1, <1>2, PresentLedger DEF States
<1>4. /\ cell'.batch = IF R.cell.batch \in S THEN 0 ELSE R.cell.batch
      /\ cell.blocks \subseteq cell'.blocks
      /\ \A b \in Batches : IF b \in S THEN batch'[b].state = "Suspended"
                                       ELSE batch'[b] = batch[b]
      /\ change'.batch = change.batch
      /\ change'.state = IF change.state = "QualifiedActive" /\ change.batch \in S
                           THEN "AppliedUnqualified" ELSE change.state
  BY <1>0, <1>1, <1>2 DEF UpTo
<1>5. /\ \A b \in Batches : batch'[b].state = "Active" <=> b \notin S /\ batch[b].state = "Active"
      /\ \A b \in Batches \ S : batch'[b] = batch[b]
  BY <1>0, <1>4
<1>6. CertificateIsBacked /\ CertifiedIsAccepted /\ DecidedIndependently
  BY DEF QualificationInv
<1>7. CertificateIsBacked'
  <2>1. CASE R.cell.batch = cell.batch /\ boot' = boot
    BY <1>0, <1>4, <1>5, <1>6, <2>1 DEF CertificateIsBacked, ActiveBatches
  <2>2. CASE R.cell.batch = 0 /\ ActiveBatches \subseteq S
    BY <1>0, <1>4, <1>5, <1>6, <2>2 DEF CertificateIsBacked, ActiveBatches
  <2> QED BY <2>1, <2>2
<1>8. cell'.batch # 0 => /\ cell'.batch = cell.batch /\ cell.batch \in Batches
                         /\ batch'[cell.batch] = batch[cell.batch]
  BY <1>0, <1>4
<1>9. CertifiedIsAccepted'
  BY <1>6, <1>8 DEF CertifiedIsAccepted
<1>10. DecidedIndependently'
  BY <1>6 DEF DecidedIndependently
<1> QED BY <1>3, <1>4, <1>7, <1>9, <1>10

\* A step that keeps the ledger typed, the certificate and every block keeps
\* the invariant and lifts nothing.
Kept == QualificationInv' /\ LiftsWhatIsOver

LEMMA KeptByParts ==
  ASSUME (Present \in States)', PeerType', ReviewType', DeliveryType',
         CertificateIsBacked', CertifiedIsAccepted', DecidedIndependently',
         cell.blocks \subseteq cell'.blocks
  PROVE  Kept
BY DEF Kept, QualificationInv, TypeOK, LiftsWhatIsOver

\* The blocks that the handlers add.
LEMMA NewBlocks ==
  ASSUME TypeOK
  PROVE  /\ NewBlock("hold", FALSE, NoOrigin) \in Block
         /\ NewBlock("revoked", FALSE, StopOrigin) \in Block
         /\ NewBlock("change", TRUE, NoOrigin) \in Block
         /\ \A owned \in BOOLEAN : /\ NewBlock("restart", owned, RestartOrigin) \in Block
                                   /\ NewBlock("revoked", owned, NoOrigin) \in Block
         /\ \A h \in Hosts, kind \in {"producer", "source"} :
                NewBlock("device", FALSE, DeviceOrigin(kind, h, cell.epoch + 1)) \in Block
<1>0. boot \in Nat /\ cell.epoch + 1 \in Nat /\ \A h \in Hosts : link[h].gen \in Nat
  BY PresentLedger DEF TypeOK, PeerType, Cell, Registration
<1>1. NoOrigin \in Origin /\ StopOrigin \in Origin /\ RestartOrigin \in Origin
  BY <1>0 DEF Origin, StopOrigin, RestartOrigin
<1>2. ASSUME NEW h \in Hosts, NEW kind \in {"producer", "source"}
      PROVE  DeviceOrigin(kind, h, cell.epoch + 1) \in Origin
  BY <1>0 DEF Origin, DeviceOrigin
<1>3. ASSUME NEW o \in Origin, NEW owned \in BOOLEAN,
             NEW reason \in {"revoked", "restart", "device", "change"}
      PROVE  NewBlock(reason, owned, o) \in Block
  BY DEF NewBlock, Block
<1>4. NewBlock("hold", FALSE, NoOrigin) \in Block
  BY <1>1 DEF NewBlock, Block
<1> QED BY <1>1, <1>2, <1>3, <1>4

\* Holds, stops, replaced producers and sources: a block more.
LEMMA DisturbanceKeeps ==
  ASSUME QualificationInv, Disturbance
  PROVE  Kept
<1>0. /\ TypeOK /\ PeerType /\ ReviewType /\ DeliveryType
      /\ UNCHANGED <<policy, change, job, ticket, batch, task, reads, network, receipt, busy>>
  BY DEF QualificationInv, TypeOK, Disturbance, reviewVars, activationVars
<1>1. ReviewType' /\ DeliveryType'
  BY <1>0 DEF ReviewType, DeliveryType
<1>2. CASE Hold
  <2>1. PeerType'
    BY <1>0, <1>2 DEF PeerType, Hold, Fault
  <2>2. Invalidate(NewBlock("hold", FALSE, NoOrigin)) /\ boot' = boot
    BY <1>2 DEF Hold
  <2> QED BY <1>0, <1>1, <2>1, <2>2, NewBlocks, InvalidateKeeps, KeptByParts
<1>3. CASE RequestRuntimeStop
  <2>1. PeerType'
    <3>1. serving' \in BOOLEAN
      BY <1>3 DEF RequestRuntimeStop
    <3>2. faults' \in Nat /\ UNCHANGED <<boot, host, producer, link, ack, receipt>>
      BY <1>0, <1>3 DEF PeerType, RequestRuntimeStop, Fault
    <3> QED BY <1>0, <3>1, <3>2 DEF PeerType
  <2>2. Invalidate(NewBlock("revoked", FALSE, StopOrigin)) /\ boot' = boot
    BY <1>3 DEF RequestRuntimeStop
  <2> QED BY <1>0, <1>1, <2>1, <2>2, NewBlocks, InvalidateKeeps, KeptByParts
<1>4. ASSUME NEW h \in Hosts, HostRestart(h)
      PROVE  Kept
  <2>1. PeerType'
    <3>1. host[h] \in Registration /\ host' = [host EXCEPT ![h].gen = @ + 1]
      BY <1>0, <1>4 DEF PeerType, HostRestart
    <3>2. [host[h] EXCEPT !.gen = host[h].gen + 1] \in Registration
      BY <3>1 DEF Registration
    <3>3. host' \in [Hosts -> Registration]
      BY <1>0, <3>1, <3>2 DEF PeerType
    <3> QED BY <1>0, <1>4, <3>3 DEF PeerType, HostRestart, Fault
  <2>2. UNCHANGED <<boot, cell, block>>
    BY <1>4 DEF HostRestart
  <2>3. (Present \in States)'
    BY <1>0, <2>2, PresentLedger DEF TypeOK
  <2> QED BY <1>0, <1>1, <2>1, <2>2, <2>3, CertificateStays, KeptByParts
<1>5. ASSUME NEW h \in Hosts, OpenEvidenceProducer(h)
      PROVE  Kept
  <2>1. PeerType'
    <3>1. producer' \in [Hosts -> Nat]
      BY <1>0, <1>5 DEF PeerType, OpenEvidenceProducer, Registration
    <3> QED BY <1>0, <1>5, <3>1 DEF PeerType, OpenEvidenceProducer
  <2>2. Invalidate(NewBlock("device", FALSE, DeviceOrigin("producer", h, cell.epoch + 1)))
        /\ boot' = boot
    BY <1>5 DEF OpenEvidenceProducer
  <2>3. NewBlock("device", FALSE, DeviceOrigin("producer", h, cell.epoch + 1)) \in Block
    BY <1>0, NewBlocks
  <2> QED BY <1>0, <1>1, <2>1, <2>2, <2>3, InvalidateKeeps, KeptByParts
<1>6. ASSUME NEW h \in Hosts, SourceGenerationChanged(h)
      PROVE  Kept
  <2>1. PeerType'
    BY <1>0, <1>6 DEF PeerType, SourceGenerationChanged, Fault
  <2>2. Invalidate(NewBlock("device", FALSE, DeviceOrigin("source", h, cell.epoch + 1)))
        /\ boot' = boot
    BY <1>6 DEF SourceGenerationChanged
  <2>3. NewBlock("device", FALSE, DeviceOrigin("source", h, cell.epoch + 1)) \in Block
    BY <1>0, NewBlocks
  <2> QED BY <1>0, <1>1, <2>1, <2>2, <2>3, InvalidateKeeps, KeptByParts
<1> QED BY <1>2, <1>3, <1>4, <1>5, <1>6 DEF Disturbance

\* Links and acknowledgments do not touch the cell.
LEMMA HostWorkKeeps ==
  ASSUME QualificationInv, HostWork
  PROVE  Kept
<1>0. /\ TypeOK /\ PeerType /\ ReviewType /\ DeliveryType
      /\ UNCHANGED <<policy, change, job, ticket, batch, task, reads, network, receipt, busy,
                     boot, serving, cell, block, producer, faults>>
  BY DEF QualificationInv, TypeOK, HostWork, reviewVars, activationVars, LinkHost,
         AcknowledgeFence
<1>1. ReviewType' /\ DeliveryType'
  BY <1>0 DEF ReviewType, DeliveryType
<1>2. cell.epoch \in Nat
  BY <1>0, PresentLedger DEF TypeOK, Cell
<1>3. PeerType'
  <2>1. ASSUME NEW h \in Hosts, LinkHost(h)
        PROVE  PeerType'
    <3>1. link' \in [Hosts -> Registration]
      BY <1>0, <1>2, <2>1 DEF PeerType, LinkHost, Registration
    <3> QED BY <1>0, <2>1, <3>1 DEF PeerType, LinkHost
  <2>2. ASSUME NEW h \in Hosts, AcknowledgeFence(h)
        PROVE  PeerType'
    <3>1. host[h] \in Registration /\ host' = [host EXCEPT ![h].epoch = cell.epoch]
      BY <1>0, <2>2 DEF PeerType, AcknowledgeFence
    <3>2. host' \in [Hosts -> Registration] /\ ack' \in [Hosts -> Registration]
      BY <1>0, <1>2, <2>2, <3>1 DEF PeerType, AcknowledgeFence, Registration
    <3> QED BY <1>0, <2>2, <3>2 DEF PeerType, AcknowledgeFence
  <2> QED BY <2>1, <2>2 DEF HostWork
<1>4. (Present \in States)'
  BY <1>0, PresentLedger DEF TypeOK
<1> QED BY <1>0, <1>1, <1>3, <1>4, CertificateStays, KeptByParts

\* Without a certificate, the request and its report may change.
LEMMA UncertifiedStays ==
  ASSUME QualificationInv, cell.batch = 0, cell'.batch = 0, UNCHANGED <<boot, batch, change>>
  PROVE  CertificateIsBacked' /\ CertifiedIsAccepted'
BY DEF QualificationInv, CertificateIsBacked, CertifiedIsAccepted, ActiveBatches

\* The request binds blocks that have an origin; a hold has none.
LEMMA BoundBlocks ==
  ASSUME block \in Seq(Block), NEW S, \A n \in S : Selectable(n)
  PROVE  Bound(S) \in Seq(Block) /\ Len(Bound(S)) = Len(block)
<1>0. Len(block) \in Nat /\ \A n \in 1..Len(block) : block[n] \in Block
  BY LenProperties, ElementOfSeq
<1>1. ASSUME NEW n \in 1..Len(block)
      PROVE  Bound(S)[n] \in Block
  <2>1. block[n] \in Block
    BY <1>0
  <2>2. CASE n \in S
    <3>1. block[n].origin.kind # "none"
      BY <2>2 DEF Selectable, HasOrigin
    <3>2. NoOrigin.kind = "none"
      BY DEF NoOrigin
    <3>3. block[n].reason # "hold"
      BY <2>1, <3>1, <3>2 DEF Block
    <3>4. [block[n] EXCEPT !.owned = TRUE] \in Block
      BY <2>1, <3>3 DEF Block
    <3> QED BY <2>2, <3>4 DEF Bound
  <2>3. CASE n \notin S
    BY <2>1, <2>3 DEF Bound
  <2> QED BY <2>2, <2>3
<1>2. DOMAIN Bound(S) = 1..Len(block)
  BY DEF Bound
<1>3. Bound(S) = [n \in 1..Len(block) |-> Bound(S)[n]]
  BY DEF Bound
<1>4. Bound(S) \in [1..Len(block) -> Block]
  BY <1>1, <1>2, <1>3
<1> QED BY <1>0, <1>4, <1>3

\* A new request: the cell is fenced, and nothing of it is certified.
LEMMA BeginKeeps ==
  ASSUME QualificationInv, NEW p \in People, NEW S \in SUBSET cell.blocks,
         BeginRequalification(p, S), UNCHANGED activationVars
  PROVE  Kept
<1>0. /\ TypeOK /\ PeerType /\ ReviewType /\ DeliveryType
      /\ cell \in Cell /\ block \in Seq(Block) /\ cell.blocks \subseteq 1..Len(block)
      /\ batch \in [Batches -> Batch] /\ change \in Change
  BY PresentLedger DEF QualificationInv, TypeOK
<1>1. /\ cell.batch = 0 /\ \A n \in S : Selectable(n)
      /\ cell' = Invalidated(cell, Len(block) + 1)
      /\ block' = Append(Bound(S), NewBlock("change", TRUE, NoOrigin))
      /\ UNCHANGED <<boot, serving, host, producer, link, ack, faults, policy, change, ticket,
                     batch, task, reads, network, receipt, busy>>
  BY DEF BeginRequalification, activationVars
<1>2. Bound(S) \in Seq(Block) /\ Len(Bound(S)) = Len(block)
  BY <1>0, <1>1, BoundBlocks
<1>3. NewBlock("change", TRUE, NoOrigin) \in Block
  BY <1>0, NewBlocks
<1>4. /\ cell' \in Cell /\ block' \in Seq(Block) /\ cell'.blocks \subseteq 1..Len(block')
      /\ cell.blocks \subseteq cell'.blocks /\ cell'.batch = 0
  <2> DEFINE s == Bound(S)
             b == NewBlock("change", TRUE, NoOrigin)
  <2>1. s \in Seq(Block) /\ Len(s) = Len(block) /\ b \in Block /\ cell.blocks \subseteq 1..Len(s)
    BY <1>0, <1>2, <1>3
  <2> HIDE DEF s, b
  <2>2. /\ Invalidated(cell, Len(s) + 1) \in Cell /\ Append(s, b) \in Seq(Block)
        /\ Invalidated(cell, Len(s) + 1).blocks \subseteq 1..Len(Append(s, b))
        /\ Invalidated(cell, Len(s) + 1).blocks = cell.blocks \cup {Len(s) + 1}
        /\ Invalidated(cell, Len(s) + 1).batch = cell.batch
    BY <1>0, <2>1, InvalidatedCell
  <2> QED BY <1>1, <2>1, <2>2 DEF s, b
<1>5. (Present \in States)'
  BY <1>0, <1>1, <1>4, PresentLedger
<1>6. job' \in Job /\ DecidedIndependently'
  <2>1. /\ job' = [id |-> JobCount + 1, by |-> p, boot |-> boot, policy |-> policy.version,
                   changeRevision |-> change.revision, revision |-> cell.revision + 1,
                   epoch |-> cell.epoch + 1, selected |-> S, targets |-> S \cup {Len(block) + 1},
                   report |-> 0, ready |-> FALSE, recorder |-> Nil,
                   decision |-> "None", decisions |-> 0, decided |-> 0, decider |-> Nil]
    BY DEF BeginRequalification
  <2>2. /\ JobCount + 1 \in Nat /\ boot \in Nat /\ policy.version \in Nat
        /\ change.revision \in Nat /\ cell.revision + 1 \in Nat /\ cell.epoch + 1 \in Nat
    <3>1. JobCount + 1 \in Nat
      <4>1. CASE job = Nil
        BY <4>1 DEF JobCount
      <4>2. CASE job # Nil
        BY <1>0, <4>2 DEF JobCount, ReviewType, Job
      <4> QED BY <4>1, <4>2
    <3>2. boot \in Nat /\ policy.version \in Nat
      BY <1>0 DEF PeerType, ReviewType
    <3>3. change.revision \in Nat /\ cell.revision + 1 \in Nat /\ cell.epoch + 1 \in Nat
      BY <1>0 DEF Cell, Change
    <3> QED BY <3>1, <3>2, <3>3
  <2>3. S \in SUBSET Nat /\ S \cup {Len(block) + 1} \in SUBSET Nat
    BY <1>0, LenProperties
  <2>4. job' \in Job
    BY <2>1, <2>2, <2>3 DEF Job
  <2> QED BY <2>1, <2>4 DEF DecidedIndependently
<1>7. PeerType' /\ ReviewType' /\ DeliveryType'
  BY <1>0, <1>1, <1>6 DEF PeerType, ReviewType, DeliveryType
<1>8. CertificateIsBacked' /\ CertifiedIsAccepted'
  BY <1>1, <1>4, UncertifiedStays
<1> QED BY <1>4, <1>5, <1>6, <1>7, <1>8, KeptByParts

\* The update of a request by a report is typed.
LEMMA ReportedJob ==
  ASSUME NEW j \in Job, NEW p \in People, NEW r \in BOOLEAN
  PROVE  LET k == [j EXCEPT !.report = @ + 1, !.ready = r, !.recorder = p]
         IN  k \in Job /\ k.report = j.report + 1 /\ k.decided = j.decided
<1>1. j.report + 1 \in Nat
  BY DEF Job
<1> QED BY <1>1 DEF Job

\* Reports and decisions: only while the cell has no certificate, and an
\* approval only of what its ticket was written for.
LEMMA DecisionKeeps ==
  ASSUME QualificationInv, UNCHANGED activationVars,
         \/ \E p \in People, r \in ReportVerdicts : RecordReport(p, r)
         \/ \E p \in People : RejectReport(p) \/ PrepareApproval(p)
         \/ CommitApproval \/ DropApproval
  PROVE  Kept
<1>0. /\ TypeOK /\ PeerType /\ ReviewType /\ DeliveryType /\ DecidedIndependently
  BY DEF QualificationInv, TypeOK
<1>1. UNCHANGED <<boot, serving, cell, block, host, producer, link, ack, faults, policy, change,
                  batch, task, reads, network, receipt, busy>>
  BY DEF RecordReport, RejectReport, PrepareApproval, CommitApproval, DropApproval,
         restrictionVars, activationVars
<1>2. /\ job' \in Job \cup {Nil} /\ ticket' \in Approval \cup Activation \cup {Nil}
      /\ DecidedIndependently' /\ (job' = job \/ cell.batch = 0)
  <2>1. ASSUME NEW p \in People, NEW r \in ReportVerdicts, RecordReport(p, r)
        PROVE  /\ job' \in Job /\ ticket' = ticket /\ cell.batch = 0 /\ DecidedIndependently'
    <3>1. /\ job \in Job /\ cell.batch = 0 /\ ticket' = ticket /\ job # Nil /\ r \in BOOLEAN
          /\ job' = [job EXCEPT !.report = @ + 1, !.ready = r, !.recorder = p]
      BY <1>0, <2>1 DEF RecordReport, JobCurrent, ReviewType, ReportVerdicts
    <3>2. /\ job' \in Job /\ job'.report = job.report + 1 /\ job'.decided = job.decided
      BY <3>1, ReportedJob
    <3>3. job'.decided < job'.report
      BY <1>0, <3>1, <3>2 DEF DecidedIndependently, Job
    <3> QED BY <3>1, <3>2, <3>3 DEF DecidedIndependently, Job
  <2>2. ASSUME NEW choice \in {"Approve", "Reject"}, NEW p \in People, JobCurrent,
               Independent(p), job' = Decided(choice, p)
        PROVE  /\ job' \in Job /\ cell.batch = 0 /\ DecidedIndependently'
    <3>1. job \in Job /\ cell.batch = 0 /\ p # job.by /\ p # job.recorder /\ p # Nil
      BY <1>0, <2>2, QualificationConstants DEF JobCurrent, ReviewType, Independent
    <3>2. /\ job' \in Job /\ job'.report = job.report /\ job'.decided = job.report
          /\ job'.decider = p /\ job'.by = job.by /\ job'.recorder = job.recorder
      <4>1. LET k == [job EXCEPT !.decision = choice, !.decisions = @ + 1,
                                 !.decided = job.report, !.decider = p]
            IN  /\ k \in Job /\ k.report = job.report /\ k.decided = job.report
                /\ k.decider = p /\ k.by = job.by /\ k.recorder = job.recorder
        <5>1. job.decisions + 1 \in Nat /\ job.report \in Nat
          BY <3>1 DEF Job
        <5> QED BY <3>1, <5>1 DEF Job
      <4> QED BY <2>2, <4>1 DEF Decided
    <3>3. job.report \in Nat
      BY <3>1 DEF Job
    <3> QED BY <3>1, <3>2, <3>3 DEF DecidedIndependently
  <2>3. ASSUME NEW p \in People, RejectReport(p)
        PROVE  /\ job' \in Job /\ ticket' = ticket /\ cell.batch = 0 /\ DecidedIndependently'
    BY <2>2, <2>3 DEF RejectReport
  <2>4. ASSUME NEW p \in People, PrepareApproval(p)
        PROVE  job' = job /\ ticket' \in Approval
    <3>1. job \in Job /\ job' = job
      BY <1>0, <2>4 DEF PrepareApproval, JobCurrent, ReviewType
    <3> QED BY <2>4, <3>1 DEF PrepareApproval, Approval, Job
  <2>5. CASE CommitApproval
    <3>1. ticket \in Approval
      BY <1>0, <2>5 DEF CommitApproval, ReviewType, Approval, Activation
    <3>2. /\ ticket.by \in People /\ JobCurrent /\ Independent(ticket.by)
          /\ job' = Decided("Approve", ticket.by) /\ ticket' = Nil
      BY <2>5, <3>1 DEF CommitApproval, ApprovalCurrent, Approval
    <3> QED BY <2>2, <3>2
  <2>6. CASE DropApproval
    BY <1>0, <2>6 DEF DropApproval, ReviewType, DecidedIndependently
  <2>7. job' = job => DecidedIndependently'
    BY <1>0 DEF DecidedIndependently
  <2> QED BY <1>0, <2>1, <2>3, <2>4, <2>5, <2>6, <2>7 DEF ReviewType
<1>3. PeerType' /\ ReviewType' /\ DeliveryType'
  BY <1>0, <1>1, <1>2 DEF PeerType, ReviewType, DeliveryType
<1>4. (Present \in States)'
  BY <1>0, <1>1, PresentLedger DEF TypeOK
<1>5. CertificateIsBacked' /\ CertifiedIsAccepted'
  BY <1>1, <1>2, UncertifiedStays, CertificateStays
<1> QED BY <1>1, <1>2, <1>3, <1>4, <1>5, KeptByParts

LEMMA ReviewKeeps ==
  ASSUME QualificationInv, Review
  PROVE  Kept
<1>1. ASSUME NEW p \in People, NEW S \in Choices(Selectable), BeginRequalification(p, S)
      PROVE  Kept
  <2>1. S \in SUBSET cell.blocks
    BY DEF Choices
  <2>2. UNCHANGED activationVars
    BY DEF Review
  <2> QED BY <1>1, <2>1, <2>2, BeginKeeps
<1> QED BY <1>1, DecisionKeeps DEF Review

\* A revocation, and the suspensions that follow it in the same transaction,
\* start from a typed ledger.
LEMMA RevokedLedger ==
  ASSUME QualificationInv, NEW b \in Block, NEW c \in Cell,
         c.blocks = Invalidated(cell, Len(block) + 1).blocks
  PROVE  LET R == [Present EXCEPT !.cell = c, !.block = Append(block, b)]
         IN  /\ R \in States /\ R.batch = batch /\ R.change = change /\ R.cell = c
             /\ cell.blocks \subseteq R.cell.blocks
<1>0. /\ cell \in Cell /\ block \in Seq(Block) /\ cell.blocks \subseteq 1..Len(block)
      /\ batch \in [Batches -> Batch] /\ change \in Change
  BY PresentLedger DEF QualificationInv, TypeOK
<1>1. /\ Append(block, b) \in Seq(Block) /\ c.blocks \subseteq 1..Len(Append(block, b))
      /\ cell.blocks \subseteq c.blocks
  BY <1>0, InvalidatedCell
<1> DEFINE R == [Present EXCEPT !.cell = c, !.block = Append(block, b)]
<1>2. R.cell = c /\ R.block = Append(block, b) /\ R.batch = batch /\ R.change = change
  BY DEF Present
<1>3. R \in [cell : Cell, block : Seq(Block), batch : [Batches -> Batch], change : Change]
  BY <1>0, <1>1 DEF Present
<1> QED BY <1>1, <1>2, <1>3 DEF States

\* A new policy suspends what rests on the old one.
LEMMA ConfigureKeeps ==
  ASSUME QualificationInv, NEW v \in {1, 2}, ConfigureRequalification(v)
  PROVE  Kept
<1> DEFINE p == [boot |-> boot, version |-> v]
           S == ChangedRoots(p, boot)
<1>0. /\ TypeOK /\ PeerType /\ ReviewType /\ DeliveryType /\ Present \in States
      /\ cell.blocks \subseteq Present.cell.blocks
      /\ Present.batch = batch /\ Present.change = change /\ Present.cell = cell
  BY DEF QualificationInv, TypeOK, Present
<1>1. S \in SUBSET Batches
  BY DEF ChangedRoots, ActiveBatches
<1>2. /\ Becomes(SuspendAll(Present, S)) /\ policy' = p
      /\ faults' = faults \/ faults' = faults + 1
      /\ UNCHANGED <<boot, serving, host, producer, link, ack, job, ticket,
                     task, reads, network, receipt, busy>>
  BY DEF ConfigureRequalification, Fault
<1>3. policy' \in [boot : Nat, version : Nat] /\ faults' \in Nat
  BY <1>0, <1>2 DEF PeerType
<1> HIDE DEF S
<1>4. PeerType' /\ ReviewType' /\ DeliveryType'
  BY <1>0, <1>2, <1>3 DEF PeerType, ReviewType, DeliveryType
<1>5. /\ (Present \in States)' /\ cell.blocks \subseteq cell'.blocks
      /\ CertificateIsBacked' /\ CertifiedIsAccepted' /\ DecidedIndependently'
  BY <1>0, <1>1, <1>2, SuspendKeeps
<1> QED BY <1>4, <1>5, KeptByParts

\* An operator suspends a batch.
LEMMA SuspendQualificationKeeps ==
  ASSUME QualificationInv, NEW b \in Batches, SuspendQualification(b)
  PROVE  Kept
<1>0. /\ TypeOK /\ PeerType /\ ReviewType /\ DeliveryType /\ Present \in States
      /\ cell.blocks \subseteq Present.cell.blocks
      /\ Present.batch = batch /\ Present.change = change /\ Present.cell = cell
  BY DEF QualificationInv, TypeOK, Present
<1>1. /\ Becomes(SuspendAll(Present, {b})) /\ {b} \in SUBSET Batches /\ faults' = faults + 1
      /\ UNCHANGED <<boot, serving, host, producer, link, ack, policy, job, ticket,
                     task, reads, network, receipt, busy>>
  BY DEF SuspendQualification, Fault
<1>2. PeerType' /\ ReviewType' /\ DeliveryType'
  BY <1>0, <1>1 DEF PeerType, ReviewType, DeliveryType
<1>3. /\ (Present \in States)' /\ cell.blocks \subseteq cell'.blocks
      /\ CertificateIsBacked' /\ CertifiedIsAccepted' /\ DecidedIndependently'
  BY <1>0, <1>1, SuspendKeeps
<1> QED BY <1>2, <1>3, KeptByParts

\* A new executor revokes, and every open batch is suspended.
LEMMA ReplaceExecutorKeeps ==
  ASSUME QualificationInv, ReplaceExecutor
  PROVE  Kept
<1> DEFINE owned == \E b \in ActiveBatches : batch[b].boot = boot /\ cell.batch = b
           new == NewBlock("revoked", owned, NoOrigin)
           c == Invalidated(cell, Len(block) + 1)
           R == [Present EXCEPT !.cell = c, !.block = Append(block, new)]
<1>0. /\ TypeOK /\ PeerType /\ ReviewType /\ DeliveryType
      /\ cell \in Cell /\ block \in Seq(Block) /\ cell.blocks \subseteq 1..Len(block)
  BY PresentLedger DEF QualificationInv, TypeOK
<1>1. new \in Block
  <2>1. owned \in BOOLEAN
    OBVIOUS
  <2> HIDE DEF owned
  <2> QED BY <1>0, <2>1, NewBlocks
<1>2. /\ Becomes(SuspendAll(R, OpenBatches)) /\ faults' = faults + 1
      /\ UNCHANGED <<boot, serving, host, producer, link, ack, policy, job, ticket,
                     task, reads, network, receipt, busy>>
  BY DEF ReplaceExecutor, Fault
<1> HIDE DEF new
<1>3. c \in Cell /\ c.batch = cell.batch
  BY <1>0, <1>1, InvalidatedCell
<1>4. /\ R \in States /\ R.batch = batch /\ R.change = change /\ R.cell = c
      /\ cell.blocks \subseteq R.cell.blocks
  BY <1>1, <1>3, RevokedLedger
<1> HIDE DEF R, c
<1>5. OpenBatches \in SUBSET Batches
  BY DEF OpenBatches
<1>6. PeerType' /\ ReviewType' /\ DeliveryType'
  BY <1>0, <1>2 DEF PeerType, ReviewType, DeliveryType
<1>7. /\ (Present \in States)' /\ cell.blocks \subseteq cell'.blocks
      /\ CertificateIsBacked' /\ CertifiedIsAccepted' /\ DecidedIndependently'
  BY <1>2, <1>3, <1>4, <1>5, SuspendKeeps
<1> QED BY <1>6, <1>7, KeptByParts

\* A restart takes the certificate away first; every active batch is of an
\* earlier boot, so all of them are suspended.
LEMMA RestartKeeps ==
  ASSUME QualificationInv, Restart
  PROVE  Kept
<1> DEFINE i == Invalidated(cell, Len(block) + 1)
           c == [i EXCEPT !.batch = 0]
           owned == cell.batch # 0
           new == NewBlock("restart", owned, RestartOrigin)
           R == [Present EXCEPT !.cell = c, !.block = Append(block, new)]
           S == ChangedRoots(policy, boot + 1)
<1>0. /\ TypeOK /\ PeerType /\ ReviewType /\ DeliveryType
      /\ cell \in Cell /\ block \in Seq(Block) /\ cell.blocks \subseteq 1..Len(block)
      /\ CertificateIsBacked /\ MaxBatches \in Nat /\ boot \in Nat
  BY PresentLedger, QualificationConstants DEF QualificationInv, TypeOK, PeerType
<1>1. new \in Block
  <2>1. owned \in BOOLEAN
    OBVIOUS
  <2> HIDE DEF owned
  <2> QED BY <1>0, <2>1, NewBlocks
<1>2. /\ Becomes(SuspendAll(R, S)) /\ boot' = boot + 1 /\ serving' = TRUE
      /\ faults' = faults \/ faults' = faults + 1
      /\ ticket' = Nil /\ reads' = {} /\ network' = {}
      /\ UNCHANGED <<host, producer, link, ack, policy, job, task, receipt, busy>>
  BY DEF Restart
<1> HIDE DEF new
<1>3. i \in Cell
  BY <1>0, <1>1, InvalidatedCell
<1>4. c \in Cell /\ c.batch = 0 /\ c.blocks = i.blocks
  <2> HIDE DEF i
  <2> QED BY <1>0, <1>3 DEF Cell
<1>5. /\ R \in States /\ R.batch = batch /\ R.change = change /\ R.cell = c
      /\ cell.blocks \subseteq R.cell.blocks
  <2> HIDE DEF c
  <2> QED BY <1>1, <1>4, RevokedLedger
<1>6. S \in SUBSET Batches /\ ActiveBatches \subseteq S
  BY <1>0 DEF ChangedRoots, ActiveBatches, CertificateIsBacked
<1> HIDE DEF R, c, i, S
<1>7. PeerType' /\ ReviewType' /\ DeliveryType'
  <2>1. serving' \in BOOLEAN
    BY <1>2
  <2>2. boot' \in Nat /\ faults' \in Nat
    BY <1>0, <1>2 DEF PeerType
  <2> QED BY <1>0, <1>2, <2>1, <2>2 DEF PeerType, ReviewType, DeliveryType
<1>8. /\ (Present \in States)' /\ cell.blocks \subseteq cell'.blocks
      /\ CertificateIsBacked' /\ CertifiedIsAccepted' /\ DecidedIndependently'
  BY <1>2, <1>4, <1>5, <1>6, SuspendKeeps
<1> QED BY <1>7, <1>8, KeptByParts

\* A step that leaves cell, batches and request alone and takes no receipt
\* back keeps the certificate.
LEMMA ReceiptsStay ==
  ASSUME QualificationInv, UNCHANGED <<boot, cell, block, batch, change, policy, job>>,
         PeerType', DeliveryType', ticket' \in Approval \cup Activation \cup {Nil},
         \A b \in Batches, h \in Hosts :
             task[b][h].receipt = "Accepted" => task'[b][h].receipt = "Accepted"
  PROVE  Kept
<1>0. /\ TypeOK /\ ReviewType /\ cell \in Cell /\ cell.batch \in 0..MaxBatches
      /\ CertificateIsBacked /\ CertifiedIsAccepted /\ DecidedIndependently
      /\ MaxBatches \in Nat /\ Batches = 1..MaxBatches
  BY PresentLedger, QualificationConstants DEF QualificationInv, TypeOK, Cell, Batches
<1>1. (Present \in States)' /\ cell'.blocks = cell.blocks
  BY <1>0, PresentLedger DEF TypeOK
<1>2. ReviewType'
  BY <1>0 DEF ReviewType
<1>3. CertificateIsBacked' /\ DecidedIndependently'
  BY <1>0 DEF CertificateIsBacked, DecidedIndependently, ActiveBatches
<1>4. CertifiedIsAccepted'
  BY <1>0 DEF CertifiedIsAccepted
<1> QED BY <1>1, <1>2, <1>3, <1>4, KeptByParts

\* A batch is issued under a number that no cell is certified by.
LEMMA IssueKeeps ==
  ASSUME QualificationInv, Issue
  PROVE  Kept
<1>0. /\ TypeOK /\ PeerType /\ ReviewType /\ DeliveryType
      /\ cell \in Cell /\ block \in Seq(Block) /\ cell.blocks \subseteq 1..Len(block)
      /\ batch \in [Batches -> Batch] /\ change \in Change
      /\ CertificateIsBacked /\ CertifiedIsAccepted /\ DecidedIndependently
  BY PresentLedger DEF QualificationInv, TypeOK
<1>1. PICK b \in Batches, S \in SUBSET cell.blocks : CommitIssue(b, S)
  BY DEF Issue, Choices
<1>2. /\ job \in Job /\ cell.batch = 0 /\ change.state = "AppliedUnqualified"
      /\ batch[b].state = "None"
      /\ batch' = [batch EXCEPT ![b] =
           [state |-> "Pending", job |-> job.id, boot |-> boot, epoch |-> job.epoch,
            revision |-> 1, clear |-> S]]
      /\ task' = [task EXCEPT ![b] =
           [h \in Hosts |-> [NoTask EXCEPT !.gen = link[h].gen, !.phase = "AwaitingSnapshot"]]]
      /\ UNCHANGED <<boot, serving, cell, block, host, producer, link, ack, faults, policy,
                     change, job, ticket, reads, network, receipt, busy>>
  BY <1>0, <1>1 DEF CommitIssue, IssueAllowed, JobCurrent, ReviewType, restrictionVars,
                    reviewVars
<1>3. batch' \in [Batches -> Batch]
  <2>1. S \in SUBSET Nat
    BY <1>0 DEF Cell
  <2>2. [state |-> "Pending", job |-> job.id, boot |-> boot, epoch |-> job.epoch,
         revision |-> 1, clear |-> S] \in Batch
    BY <1>0, <1>2, <2>1 DEF Batch, Job, PeerType
  <2> QED BY <1>0, <1>2, <2>2
<1>4. task' \in [Batches -> [Hosts -> Task]]
  <2>1. \A h \in Hosts :
           [NoTask EXCEPT !.gen = link[h].gen, !.phase = "AwaitingSnapshot"] \in Task
    BY <1>0 DEF NoTask, Task, Receipt, PeerType, Registration
  <2>2. [h \in Hosts |-> [NoTask EXCEPT !.gen = link[h].gen, !.phase = "AwaitingSnapshot"]]
          \in [Hosts -> Task]
    BY <2>1
  <2> QED BY <1>0, <1>2, <2>2 DEF DeliveryType
<1>5. (Present \in States)'
  BY <1>0, <1>2, <1>3, PresentLedger
<1>6. PeerType' /\ ReviewType' /\ DeliveryType'
  BY <1>0, <1>2, <1>4 DEF PeerType, ReviewType, DeliveryType
<1>7. \A a \in Batches : batch'[a].state = "Active" <=> batch[a].state = "Active"
  BY <1>0, <1>2
<1>8. ActiveBatches' = ActiveBatches /\ ActiveBatches = {}
  BY <1>0, <1>2, <1>7 DEF ActiveBatches, CertificateIsBacked, Batches
<1>9. CertificateIsBacked' /\ CertifiedIsAccepted' /\ DecidedIndependently'
  BY <1>0, <1>2, <1>8 DEF CertificateIsBacked, CertifiedIsAccepted, DecidedIndependently
<1> QED BY <1>2, <1>5, <1>6, <1>9, KeptByParts

\* The exchange with the hosts, without the lookup: no receipt changes in a task.
LEMMA ExchangeKeeps ==
  ASSUME QualificationInv, NEW b \in Batches, NEW h \in Hosts,
         \/ BindRequest(b, h) \/ EnterSend(b, h) \/ RecordIssue(b, h)
         \/ HostReceives(b, h) \/ LoseRequest(b, h)
  PROVE  Kept
<1>0. /\ TypeOK /\ PeerType /\ ReviewType /\ DeliveryType /\ task[b][h] \in Task
      /\ UNCHANGED <<boot, serving, cell, block, host, producer, link, ack, batch, change,
                     policy, job, ticket, reads, busy>>
  BY DEF QualificationInv, TypeOK, DeliveryType, BindRequest, EnterSend, RecordIssue, HostReceives,
         LoseRequest, restrictionVars, reviewVars
<1>1. /\ task' \in [Batches -> [Hosts -> Task]]
      /\ \A a \in Batches, g \in Hosts : task'[a][g].receipt = task[a][g].receipt
  <2> DEFINE phases == {"None", "AwaitingSnapshot", "Prepared", "SendEntered"}
             issues == {"None", "ReceiptMissing", "Other", "Mismatch", "GenerationChanged"}
  <2>1. \A phase \in phases, issue \in issues :
            [task[b][h] EXCEPT !.phase = phase, !.issue = issue] \in Task
    BY <1>0 DEF Task
  <2>2. \A issue \in issues : [task[b][h] EXCEPT !.issue = issue] \in Task
    BY <1>0 DEF Task
  <2>3. CASE BindRequest(b, h)
    <3>1. task' = [task EXCEPT ![b][h].phase = "Prepared", ![b][h].issue = "None"]
      BY <2>3 DEF BindRequest
    <3>2. [task[b][h] EXCEPT !.phase = "Prepared", !.issue = "None"] \in Task
      BY <2>1
    <3> QED BY <1>0, <3>1, <3>2 DEF DeliveryType, Task
  <2>4. CASE EnterSend(b, h)
    <3>1. task' = [task EXCEPT ![b][h].phase = "SendEntered", ![b][h].issue = "None"]
      BY <2>4 DEF EnterSend
    <3>2. [task[b][h] EXCEPT !.phase = "SendEntered", !.issue = "None"] \in Task
      BY <2>1
    <3> QED BY <1>0, <3>1, <3>2 DEF DeliveryType, Task
  <2>5. CASE RecordIssue(b, h)
    <3>1. task' = [task EXCEPT ![b][h].issue = "Other"]
      BY <2>5 DEF RecordIssue
    <3>2. [task[b][h] EXCEPT !.issue = "Other"] \in Task
      BY <2>2
    <3> QED BY <1>0, <3>1, <3>2 DEF DeliveryType, Task
  <2>6. CASE HostReceives(b, h) \/ LoseRequest(b, h)
    BY <1>0, <2>6 DEF DeliveryType, HostReceives, LoseRequest
  <2> QED BY <2>3, <2>4, <2>5, <2>6
<1>2. network' \subseteq Batches \X Hosts
  BY <1>0 DEF DeliveryType, BindRequest, EnterSend, RecordIssue, HostReceives, LoseRequest
<1>3. faults' \in Nat /\ receipt' \in [Hosts -> [Batches -> Receipt]]
  <2>1. faults' = faults \/ faults' = faults + 1
    BY DEF BindRequest, EnterSend, RecordIssue, HostReceives, LoseRequest, restrictionVars, Fault
  <2>2. CASE receipt' = receipt
    BY <1>0, <2>1, <2>2 DEF PeerType
  <2>3. CASE HostReceives(b, h)
    <3>1. PICK r \in Receipt : receipt' = [receipt EXCEPT ![h][b] = r]
      BY <1>0, <2>3 DEF HostReceives, PeerType, Receipt
    <3> QED BY <1>0, <2>1, <3>1 DEF PeerType
  <2> QED BY <2>2, <2>3 DEF BindRequest, EnterSend, RecordIssue, HostReceives, LoseRequest
<1>4. PeerType' /\ DeliveryType'
  BY <1>0, <1>1, <1>2, <1>3 DEF PeerType, DeliveryType
<1> QED BY <1>0, <1>1, <1>4, ReceiptsStay DEF ReviewType

\* A lookup records the first receipt it finds and never replaces it; what it
\* finds may suspend the batch.
LEMMA ObserveKeeps ==
  ASSUME QualificationInv, NEW b \in Batches, NEW h \in Hosts, Observe(b, h)
  PROVE  Kept
<1> DEFINE S == IF task'[b][h].issue \in {"Mismatch", "GenerationChanged"}
                  THEN {b} \cap ActiveBatches ELSE {}
<1>0. /\ TypeOK /\ PeerType /\ ReviewType /\ DeliveryType /\ Present \in States
      /\ cell.blocks \subseteq Present.cell.blocks
      /\ Present.batch = batch /\ Present.change = change /\ Present.cell = cell
      /\ task[b][h] \in Task /\ receipt[h][b] \in Receipt
  BY DEF QualificationInv, TypeOK, DeliveryType, PeerType, Present
<1>1. /\ Becomes(SuspendAll(Present, S)) /\ task' = [task EXCEPT ![b][h] = Seen(b, h)]
      /\ reads' = reads \cup {<<b, h>>}
      /\ UNCHANGED <<boot, serving, host, producer, link, ack, faults, policy, job, ticket,
                     network, receipt, busy>>
  BY DEF Observe
<1>2. S \in SUBSET Batches
  OBVIOUS
<1> HIDE DEF S
<1>3. /\ Seen(b, h) \in Task
      /\ Seen(b, h).receipt = IF task[b][h].receipt = "None" THEN receipt[h][b]
                              ELSE task[b][h].receipt
  <2> DEFINE t == task[b][h]
             disputed == t.disputed \/ (t.receipt # "None" /\ receipt[h][b] # t.receipt)
             issue == CASE disputed -> "Mismatch"
                        [] ~disputed /\ host[h].gen # t.gen -> "GenerationChanged"
                        [] ~disputed /\ host[h].gen = t.gen
                             /\ host[h].epoch # batch[b].epoch -> "Mismatch"
                        [] ~disputed /\ host[h].gen = t.gen
                             /\ host[h].epoch = batch[b].epoch ->
                               IF receipt[h][b] = "None" THEN "ReceiptMissing" ELSE "None"
             matches == HostMatches(b, h)
             r == IF t.receipt = "None" THEN receipt[h][b] ELSE t.receipt
  <2>1. disputed \in BOOLEAN /\ matches \in BOOLEAN
    BY DEF HostMatches
  <2>2. issue \in {"None", "ReceiptMissing", "Other", "Mismatch", "GenerationChanged"}
    <3> HIDE DEF disputed
    <3> QED BY <2>1
  <2>3. r \in Receipt
    BY <1>0 DEF Task
  <2>4. Seen(b, h) = [t EXCEPT !.disputed = disputed, !.issue = issue, !.matches = matches,
                               !.receipt = r]
    BY DEF Seen
  <2> HIDE DEF disputed, issue, matches, r
  <2>5. Seen(b, h) \in Task /\ Seen(b, h).receipt = r
    BY <1>0, <2>1, <2>2, <2>3, <2>4 DEF Task
  <2> QED BY <2>5 DEF r
<1>4. /\ task' \in [Batches -> [Hosts -> Task]]
      /\ \A a \in Batches, g \in Hosts :
             task[a][g].receipt = "Accepted" => task'[a][g].receipt = "Accepted"
  BY <1>0, <1>1, <1>3 DEF DeliveryType
<1>5. PeerType' /\ ReviewType' /\ DeliveryType'
  BY <1>0, <1>1, <1>4 DEF PeerType, ReviewType, DeliveryType
<1>6. /\ (Present \in States)' /\ cell.blocks \subseteq cell'.blocks
      /\ CertificateIsBacked' /\ CertifiedIsAccepted' /\ DecidedIndependently'
  BY <1>0, <1>1, <1>2, <1>4, SuspendKeeps
<1> QED BY <1>5, <1>6, KeptByParts

\* What does not touch cell, batch, request or receipts.
LEMMA QuietStepsKeep ==
  ASSUME QualificationInv,
         \/ ReadsExpire \/ DropActivation \/ StartWork \/ SettleWork
         \/ \E b \in Batches : PrepareActivation(b)
         \/ \E h \in Hosts : HostLosesJournal(h)
  PROVE  Kept
<1>0. /\ TypeOK /\ PeerType /\ ReviewType /\ DeliveryType
      /\ UNCHANGED <<boot, serving, cell, block, producer, link, ack, batch, change, policy, job,
                     task, network>>
  BY DEF QualificationInv, TypeOK, ReadsExpire, DropActivation, StartWork, SettleWork,
         PrepareActivation, HostLosesJournal, restrictionVars, reviewVars, activationVars
<1>1. ticket' \in Approval \cup Activation \cup {Nil}
  <2>1. ASSUME NEW b \in Batches, PrepareActivation(b)
        PROVE  ticket' \in Activation
    <3>1. batch[b].revision \in Nat /\ cell.revision \in Nat
      BY <1>0, PresentLedger DEF TypeOK, Batch, Cell
    <3> QED BY <2>1, <3>1 DEF PrepareActivation, Activation
  <2>2. CASE ticket' = ticket \/ ticket' = Nil
    BY <1>0, <2>2 DEF ReviewType
  <2> QED BY <2>1, <2>2 DEF ReadsExpire, DropActivation, StartWork, SettleWork, HostLosesJournal,
                            reviewVars
<1>2. reads' \subseteq Batches \X Hosts
  BY <1>0 DEF DeliveryType, ReadsExpire, DropActivation, StartWork, SettleWork,
              PrepareActivation, HostLosesJournal, activationVars
<1>3. busy' \in BOOLEAN
  BY <1>0 DEF DeliveryType, ReadsExpire, DropActivation, StartWork, SettleWork,
              PrepareActivation, HostLosesJournal, activationVars
<1>4. DeliveryType'
  BY <1>0, <1>2, <1>3 DEF DeliveryType
<1>5. PeerType'
  <2>1. ASSUME NEW h \in Hosts, HostLosesJournal(h)
        PROVE  PeerType'
    <3>1. /\ host[h] \in Registration /\ host' = [host EXCEPT ![h].gen = @ + 1]
          /\ receipt' = [receipt EXCEPT ![h] = [b \in Batches |-> "None"]]
          /\ faults' = faults + 1
      BY <1>0, <2>1 DEF PeerType, HostLosesJournal, Fault
    <3>2. [host[h] EXCEPT !.gen = host[h].gen + 1] \in Registration
      BY <3>1 DEF Registration
    <3>3. host' \in [Hosts -> Registration]
      BY <1>0, <3>1, <3>2 DEF PeerType
    <3>4. [b \in Batches |-> "None"] \in [Batches -> Receipt]
      BY DEF Receipt
    <3>5. receipt' \in [Hosts -> [Batches -> Receipt]]
      BY <1>0, <3>1, <3>4 DEF PeerType
    <3> QED BY <1>0, <3>1, <3>3, <3>5 DEF PeerType
  <2>2. CASE UNCHANGED <<host, receipt, faults>>
    BY <1>0, <2>2 DEF PeerType
  <2> QED BY <2>1, <2>2 DEF ReadsExpire, DropActivation, StartWork, SettleWork,
                            PrepareActivation, restrictionVars, activationVars
<1> QED BY <1>0, <1>1, <1>4, <1>5, ReceiptsStay

\* Taking over the sender only moves the batch's revision.
LEMMA TakeOverKeeps ==
  ASSUME QualificationInv, NEW b \in Batches, TakeOverSender(b)
  PROVE  Kept
<1>0. /\ TypeOK /\ PeerType /\ ReviewType /\ DeliveryType
      /\ cell \in Cell /\ block \in Seq(Block) /\ cell.blocks \subseteq 1..Len(block)
      /\ batch \in [Batches -> Batch] /\ change \in Change
      /\ CertificateIsBacked /\ CertifiedIsAccepted /\ DecidedIndependently
  BY PresentLedger DEF QualificationInv, TypeOK
<1>1. /\ batch' = [batch EXCEPT ![b].revision = @ + 1] /\ cell.batch = 0
      /\ UNCHANGED <<boot, serving, cell, block, host, producer, link, ack, faults, policy,
                     change, job, ticket, task, reads, network, receipt, busy>>
  BY DEF TakeOverSender, PendingCurrent, JobCurrent, restrictionVars, reviewVars
<1>2. batch[b] \in Batch /\ [batch[b] EXCEPT !.revision = batch[b].revision + 1] \in Batch
  <2>1. batch[b] \in Batch
    BY <1>0
  <2>2. batch[b].revision + 1 \in Nat
    BY <2>1 DEF Batch
  <2> QED BY <2>1, <2>2 DEF Batch
<1>3. /\ batch' \in [Batches -> Batch]
      /\ \A a \in Batches : batch'[a].state = batch[a].state
  BY <1>0, <1>1, <1>2 DEF Batch
<1>4. (Present \in States)'
  BY <1>0, <1>1, <1>3, PresentLedger
<1>5. PeerType' /\ ReviewType' /\ DeliveryType'
  BY <1>0, <1>1 DEF PeerType, ReviewType, DeliveryType
<1>6. ActiveBatches' = ActiveBatches /\ ActiveBatches = {}
  BY <1>0, <1>1, <1>3 DEF ActiveBatches, CertificateIsBacked, Batches
<1>7. CertificateIsBacked' /\ CertifiedIsAccepted' /\ DecidedIndependently'
  BY <1>0, <1>1, <1>6 DEF CertificateIsBacked, CertifiedIsAccepted, DecidedIndependently
<1> QED BY <1>1, <1>4, <1>5, <1>7, KeptByParts

\* The activation: the only step that certifies and the only one that lifts.
LEMMA CommitActivationKeeps ==
  ASSUME QualificationInv, CommitActivation
  PROVE  Kept
<1> DEFINE b == ticket.batch
<1>0. /\ TypeOK /\ PeerType /\ ReviewType /\ DeliveryType
      /\ cell \in Cell /\ block \in Seq(Block) /\ cell.blocks \subseteq 1..Len(block)
      /\ batch \in [Batches -> Batch] /\ change \in Change
      /\ CertificateIsBacked /\ CertifiedIsAccepted /\ DecidedIndependently
      /\ MaxBatches \in Nat /\ Batches = 1..MaxBatches
  BY PresentLedger, QualificationConstants DEF QualificationInv, TypeOK, Batches
<1>1. ticket \in Activation /\ b \in Batches
  BY <1>0 DEF CommitActivation, ReviewType, Approval, Activation
<1>2. /\ PendingCurrent(b) /\ FreshHosts(b) /\ OwnedClear(batch[b].clear)
      /\ cell' = [cell EXCEPT !.batch = b, !.blocks = @ \ batch[b].clear, !.revision = @ + 1]
      /\ batch' = [batch EXCEPT ![b].state = "Active", ![b].revision = @ + 1]
      /\ change' = [state |-> "QualifiedActive", revision |-> change.revision + 1, batch |-> b]
      /\ ticket' = Nil
      /\ UNCHANGED <<boot, serving, block, host, producer, link, ack, faults, policy, job,
                     task, reads, network, receipt, busy>>
  BY DEF CommitActivation, ActivationCurrent
<1>3. /\ job # Nil /\ job \in Job /\ cell.batch = 0 /\ batch[b].boot = boot
      /\ batch[b].job = job.id /\ job.ready
      /\ job.decision = "Approve" /\ job.decided = job.report
      /\ \A n \in job.selected : Releasable(n)
  BY <1>0, <1>2 DEF PendingCurrent, JobCurrent, Approved, JobCount, ReviewType
<1> HIDE DEF b
<1>4. /\ cell' \in Cell /\ cell'.batch = b /\ cell'.blocks = cell.blocks \ batch[b].clear
  <2>1. cell.revision + 1 \in Nat /\ cell.blocks \ batch[b].clear \in SUBSET Nat
        /\ b \in 0..MaxBatches
    BY <1>0, <1>1 DEF Cell
  <2> QED BY <1>0, <1>2, <2>1 DEF Cell
<1>5. /\ batch' \in [Batches -> Batch] /\ batch'[b].state = "Active"
      /\ batch'[b].boot = batch[b].boot /\ batch'[b].job = batch[b].job
      /\ \A a \in Batches \ {b} : batch'[a] = batch[a]
  <2>1. batch[b] \in Batch /\ batch[b].revision + 1 \in Nat
    BY <1>0, <1>1 DEF Batch
  <2>2. [batch[b] EXCEPT !.state = "Active", !.revision = batch[b].revision + 1] \in Batch
    BY <2>1 DEF Batch
  <2>3. /\ batch'[b] = [batch[b] EXCEPT !.state = "Active", !.revision = batch[b].revision + 1]
        /\ batch' \in [Batches -> Batch]
        /\ \A a \in Batches \ {b} : batch'[a] = batch[a]
    BY <1>0, <1>1, <1>2, <2>2
  <2> QED BY <2>1, <2>3 DEF Batch
<1>6. change' \in Change /\ change'.state = "QualifiedActive" /\ change'.batch = b
  BY <1>0, <1>1, <1>2 DEF Change
<1>7. (Present \in States)'
  BY <1>0, <1>2, <1>4, <1>5, <1>6, PresentLedger
<1>8. PeerType' /\ ReviewType' /\ DeliveryType'
  BY <1>0, <1>2 DEF PeerType, ReviewType, DeliveryType
<1>9. ActiveBatches' = {b}
  <2>1. \A a \in Batches : batch[a].state # "Active"
    BY <1>0, <1>3 DEF CertificateIsBacked, ActiveBatches
  <2> QED BY <1>1, <1>5, <2>1 DEF ActiveBatches
<1>10. CertificateIsBacked'
  BY <1>2, <1>3, <1>4, <1>5, <1>6, <1>9 DEF CertificateIsBacked
<1>11. CertifiedIsAccepted'
  <2>1. \A h \in Hosts : task[b][h].receipt = "Accepted"
    BY <1>2 DEF FreshHosts
  <2>2. job.decider \notin {job.by, job.recorder, Nil}
    BY <1>0, <1>3 DEF DecidedIndependently
  <2> QED BY <1>2, <1>3, <1>4, <1>5, <2>1, <2>2 DEF CertifiedIsAccepted
<1>12. DecidedIndependently'
  BY <1>0, <1>2 DEF DecidedIndependently
<1>13. LiftsWhatIsOver
  <2> SUFFICES ASSUME NEW n \in cell.blocks \ cell'.blocks
               PROVE  /\ block[n].owned /\ block[n].reason # "hold"
                      /\ block[n].origin.kind \in {"producer", "source"} =>
                             link[block[n].origin.host].epoch >= block[n].origin.epoch
                      /\ block[n].origin.kind = "producer" =>
                             link[block[n].origin.host].gen # block[n].origin.gen
                      /\ block[n].origin.kind = "stop" => block[n].origin.boot # boot
    BY DEF LiftsWhatIsOver
  <2>1. n \in batch[b].clear /\ n \in 1..Len(block)
    BY <1>0, <1>4
  <2>2. block[n] \in Block
    BY <1>0, <2>1, ElementOfSeq
  <2>3. block[n].owned /\ (block[n].origin.kind # "none" => n \in job.selected)
    BY <1>2, <2>1 DEF OwnedClear, HasOrigin
  <2>4. block[n].reason # "hold"
    BY <2>2, <2>3 DEF Block
  <2>5. block[n].origin.kind # "none" => Releasable(n)
    BY <1>3, <2>3
  <2>6. block[n].origin.kind \in {"producer", "source"} => Relinked(block[n].origin)
    BY <2>5 DEF Releasable
  <2>7. block[n].origin.kind = "stop" => Ended(block[n].origin)
    BY <2>5 DEF Releasable
  <2> QED BY <2>3, <2>4, <2>6, <2>7 DEF Relinked, Ended
<1> QED BY <1>7, <1>8, <1>10, <1>11, <1>12, <1>13 DEF Kept, QualificationInv, TypeOK

-----------------------------------------------------------------------------
(* The theorems.                                                           *)

\* A new cell has no certificate.
LEMMA QualificationInvInit == Init => QualificationInv
<1> SUFFICES ASSUME Init PROVE QualificationInv
  OBVIOUS
<1>0. MaxBatches \in Nat /\ Batches = 1..MaxBatches
  BY QualificationConstants DEF Batches
<1>1. Present \in States
  <2>1. cell \in Cell /\ cell.blocks = {}
    BY <1>0 DEF Init, RestrictionInit, Cell
  <2>2. block \in Seq(Block)
    BY DEF Init, RestrictionInit
  <2>3. NoBatch \in Batch
    BY DEF NoBatch, Batch
  <2>4. batch \in [Batches -> Batch]
    BY <2>3 DEF Init
  <2>5. change \in Change
    BY <1>0 DEF Init, ReviewInit, Change
  <2> QED BY <2>1, <2>2, <2>4, <2>5, PresentLedger
<1>2. PeerType
  BY DEF Init, RestrictionInit, PeerType, Registration, Receipt
<1>3. ReviewType
  BY DEF Init, ReviewInit, ReviewType
<1>4. DeliveryType
  <2>1. NoTask \in Task
    BY DEF NoTask, Task, Receipt
  <2>2. task \in [Batches -> [Hosts -> Task]]
    BY <2>1 DEF Init
  <2>3. busy \in BOOLEAN
    BY DEF Init
  <2> QED BY <2>2, <2>3 DEF Init, DeliveryType
<1>5. ActiveBatches = {}
  BY DEF ActiveBatches, Init, NoBatch
<1>6. CertificateIsBacked /\ CertifiedIsAccepted /\ DecidedIndependently
  BY <1>5 DEF Init, RestrictionInit, ReviewInit, CertificateIsBacked, CertifiedIsAccepted,
              DecidedIndependently
<1> QED BY <1>1, <1>2, <1>3, <1>4, <1>6 DEF QualificationInv, TypeOK

\* Every step keeps the invariant and lifts only what is over.
LEMMA QualificationInvStep ==
  QualificationInv /\ [Next]_vars => QualificationInv' /\ [LiftsWhatIsOver]_vars
<1> SUFFICES ASSUME QualificationInv, [Next]_vars
             PROVE  QualificationInv' /\ [LiftsWhatIsOver]_vars
  OBVIOUS
<1>1. CASE UNCHANGED vars
  <2>1. /\ UNCHANGED <<boot, serving, cell, block, host, producer, link, ack, faults>>
        /\ UNCHANGED <<policy, change, job, ticket, batch, task, reads, network, receipt, busy>>
    BY <1>1 DEF vars, restrictionVars, reviewVars, activationVars
  <2>2. PeerType' /\ ReviewType' /\ DeliveryType' /\ (Present \in States)'
    BY <2>1, PresentLedger DEF QualificationInv, TypeOK, PeerType, ReviewType, DeliveryType
  <2>3. CertificateIsBacked' /\ CertifiedIsAccepted' /\ DecidedIndependently'
    BY <2>1, CertificateStays
  <2> QED BY <1>1, <2>2, <2>3 DEF QualificationInv, TypeOK
<1>2. CASE Next
  <2> SUFFICES Kept
    BY DEF Kept
  <2>1. CASE Disturbance
    BY <2>1, DisturbanceKeeps
  <2>2. CASE HostWork
    BY <2>2, HostWorkKeeps
  <2>3. CASE Review
    BY <2>3, ReviewKeeps
  <2>4. CASE Issue
    BY <2>4, IssueKeeps
  <2>5. CASE Delivery
    BY <2>5, ExchangeKeeps, ObserveKeeps DEF Delivery
  <2>6. CASE Restart
    BY <2>6, RestartKeeps
  <2>7. CASE ReplaceExecutor
    BY <2>7, ReplaceExecutorKeeps
  <2>8. ASSUME NEW v \in {1, 2}, ConfigureRequalification(v)
        PROVE  Kept
    BY <2>8, ConfigureKeeps
  <2>9. ASSUME NEW b \in Batches, SuspendQualification(b)
        PROVE  Kept
    BY <2>9, SuspendQualificationKeeps
  <2>10. ASSUME NEW b \in Batches, TakeOverSender(b)
         PROVE  Kept
    BY <2>10, TakeOverKeeps
  <2>11. CASE CommitActivation
    BY <2>11, CommitActivationKeeps
  <2>12. CASE \/ ReadsExpire \/ DropActivation \/ StartWork \/ SettleWork
              \/ \E b \in Batches : PrepareActivation(b)
              \/ \E h \in Hosts : HostLosesJournal(h)
    BY <2>12, QuietStepsKeep
  <2> QED
    BY <1>2, <2>1, <2>2, <2>3, <2>4, <2>5, <2>6, <2>7, <2>8, <2>9, <2>10, <2>11, <2>12 DEF Next
<1> QED BY <1>1, <1>2

LEMMA QualificationInvariant == Spec => []QualificationInv
BY QualificationInvInit, QualificationInvStep, PTL DEF Spec

\* No suspension, restart, replacement or crossing of tickets leaves a
\* certificate without its one active batch of this runtime, or an active batch
\* that nobody can suspend (qualification_activation: suspend,
\* suspend_changed_roots, commit_qualification_activation; Engine::open).
THEOREM CertificateIsAlwaysBacked == Spec => []CertificateIsBacked
<1>1. QualificationInv => CertificateIsBacked
  BY DEF QualificationInv
<1> QED BY <1>1, QualificationInvariant, PTL

\* A certificate always rests on the acceptance of every host and on an approval
\* of the newest report by somebody independent, in whatever order reports,
\* tickets and lookups crossed (fresh_hosts, record_qualification_observation,
\* commit_requalification_decision).
THEOREM CertifiedIsAlwaysAccepted == Spec => []CertifiedIsAccepted
<1>1. QualificationInv => CertifiedIsAccepted
  BY DEF QualificationInv
<1> QED BY <1>1, QualificationInvariant, PTL

\* No step lifts a restriction before what it stands for is over: the host was
\* linked again since, the runtime that stopped is gone, and a hold is never
\* lifted this way (owned_clear, relinked, ended).
THEOREM LiftedBlocksAreAlwaysOver == Spec => LiftedBlocksAreOver
BY QualificationInvariant, QualificationInvStep, PTL DEF Spec, LiftedBlocksAreOver
=============================================================================
