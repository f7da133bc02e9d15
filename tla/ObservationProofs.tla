------------------------- MODULE ObservationProofs -------------------------
(***************************************************************************)
(* What a run rests on is alive and no incident is outlived, for every     *)
(* number of cells, sources and readings and every delay.                  *)
(*                                                                         *)
(* The argument has three parts.  Of a condition: it passes exactly while  *)
(* every clause has a living reading (PassesWhenLiving), so valid_until is *)
(* exact as long as no reading is from the future (UntilIsExact).  Of      *)
(* accept_facts: what a batch leaves behind is computed reading by reading *)
(* (RecordedReadings), and what it leaves behind makes the same batch idle *)
(* (AcceptedAgainIsIdle).  Of the steps: ObservationInv, which adds to the *)
(* two run properties that the readings issued are finitely many and that  *)
(* neither they nor the facts are from the future, is kept by each.        *)
(***************************************************************************)
EXTENDS Observations, FiniteSetTheorems, WellFoundedInduction, NaturalsInduction, TLAPS

(* A set of naturals that is not empty has a least element, and a greatest  *)
(* one when it is bounded: what Min and Max choose.                         *)
LEMMA MinIsLeast ==
    ASSUME NEW S \in SUBSET Nat, S # {}
    PROVE  Min(S) \in S /\ \A y \in S : Min(S) <= y
<1>1. \E x \in S : \A y \in S : x <= y
  <2>1. PICK x \in S : \A y \in S : ~(<<y, x>> \in OpToRel(<, Nat))
    BY NatLessThanWellFounded, WFMin
  <2>2. \A y \in S : ~(y < x)
    BY <2>1 DEF OpToRel
  <2> QED
    BY <2>2
<1> QED
  BY <1>1 DEF Min

(* ... and the greatest: count down from the bound.                         *)
LEMMA MaxIsGreatest ==
    ASSUME NEW S \in SUBSET Nat, S # {}, NEW b \in Nat, \A y \in S : y <= b
    PROVE  Max(S) \in S /\ \A y \in S : y <= Max(S)
<1> DEFINE T == {b - y : y \in S}
<1>0. \A y \in S : y \in Nat /\ b - y \in Nat
  OBVIOUS
<1>1. T \in SUBSET Nat /\ T # {}
  BY <1>0
<1>2. PICK z \in T : \A y \in T : z <= y
  <2> HIDE DEF T
  <2> QED
    BY <1>1, MinIsLeast
<1>3. PICK x \in S : z = b - x
  BY <1>2
<1>4. \A y \in S : x >= y
  BY <1>2, <1>3
<1> QED
  BY <1>4 DEF Max

-----------------------------------------------------------------------------
(* condition.rs: when conditions pass.                                      *)

(* The stored reading of the source supports a passing leaf at time t.      *)
Lives(d, c, s, t) == d.fact[c][s] # Nil /\ Usable(d.fact[c][s], c, t) /\ d.fact[c][s].value

(* leaf: a source passes exactly while its reading lives, until valid_until. *)
LEMMA LeafVerdict ==
    ASSUME NEW d, NEW c, NEW s, NEW t
    PROVE  /\ Leaf(d, c, s, t).verdict \in {"Pass", "Fail", "Unknown"}
           /\ Leaf(d, c, s, t).verdict = "Pass" <=> Lives(d, c, s, t)
           /\ Lives(d, c, s, t) => Leaf(d, c, s, t).until = ValidUntil(d.fact[c][s])
<1> DEFINE f == d.fact[c][s]
<1>1. CASE f = Nil \/ ~Usable(f, c, t)
  <2>1. Leaf(d, c, s, t) = Unknown
    BY <1>1 DEF Leaf
  <2> QED
    BY <1>1, <2>1 DEF Lives, Unknown
<1>2. CASE ~(f = Nil \/ ~Usable(f, c, t)) /\ f.value
  <2>1. Leaf(d, c, s, t) = [verdict |-> "Pass", until |-> ValidUntil(f)]
    BY <1>2 DEF Leaf
  <2> QED
    BY <1>2, <2>1 DEF Lives
<1>3. CASE ~(f = Nil \/ ~Usable(f, c, t)) /\ ~f.value
  <2>1. Leaf(d, c, s, t) = [verdict |-> "Fail", until |-> Nil]
    BY <1>3 DEF Leaf
  <2> QED
    BY <1>3, <2>1 DEF Lives
<1> QED
  BY <1>1, <1>2, <1>3

(* Any: one passing child is enough, and the longest lasting one counts.    *)
LEMMA AnyVerdict ==
    ASSUME NEW R, R # {}, \A r \in R : r.verdict \in {"Pass", "Fail", "Unknown"}
    PROVE  /\ AnyOf(R).verdict \in {"Pass", "Fail", "Unknown"}
           /\ AnyOf(R).verdict = "Pass" <=> \E r \in R : r.verdict = "Pass"
           /\ AnyOf(R).verdict = "Pass" =>
                 AnyOf(R).until = Max({r.until : r \in {p \in R : p.verdict = "Pass"}})
<1> DEFINE V == Verdicts(R)
           best == Max({r.until : r \in {p \in R : p.verdict = "Pass"}})
<1>0. "Pass" \in V <=> \E r \in R : r.verdict = "Pass"
  BY DEF Verdicts
<1>1. CASE "Pass" \in V
  <2>1. AnyOf(R) = [verdict |-> "Pass", until |-> best]
    BY <1>1 DEF AnyOf
  <2> QED
    BY <1>0, <1>1, <2>1
<1>2. CASE "Pass" \notin V /\ "Unknown" \in V
  <2>1. V # {"Fail"}
    BY <1>2
  <2>2. AnyOf(R) = Unknown
    BY <1>2, <2>1 DEF AnyOf
  <2> QED
    BY <1>0, <1>2, <2>2 DEF Unknown
<1>3. CASE "Pass" \notin V /\ "Unknown" \notin V
  <2>1. V = {"Fail"}
    BY <1>3 DEF Verdicts
  <2>2. AnyOf(R) = [verdict |-> "Fail", until |-> Nil]
    BY <1>3, <2>1 DEF AnyOf
  <2> QED
    BY <1>0, <1>3, <2>2
<1> QED
  BY <1>1, <1>2, <1>3

(* All: every child must pass, and the first one to lapse ends the group.   *)
LEMMA AllVerdict ==
    ASSUME NEW R, R # {}, \A r \in R : r.verdict \in {"Pass", "Fail", "Unknown"}
    PROVE  /\ AllOf(R).verdict = "Pass" <=> \A r \in R : r.verdict = "Pass"
           /\ AllOf(R).verdict = "Pass" => AllOf(R).until = Min({r.until : r \in R})
<1> DEFINE V == Verdicts(R)
           first == Min({r.until : r \in R})
<1>1. CASE "Fail" \in V
  <2>1. V # {"Pass"}
    BY <1>1
  <2>2. AllOf(R) = [verdict |-> "Fail", until |-> Nil]
    BY <1>1, <2>1 DEF AllOf
  <2> QED
    BY <1>1, <2>2 DEF Verdicts
<1>2. CASE "Fail" \notin V /\ "Unknown" \in V
  <2>1. V # {"Pass"}
    BY <1>2
  <2>2. AllOf(R) = Unknown
    BY <1>2, <2>1 DEF AllOf
  <2> QED
    BY <1>2, <2>2 DEF Verdicts, Unknown
<1>3. CASE "Fail" \notin V /\ "Unknown" \notin V
  <2>1. V = {"Pass"}
    BY <1>3 DEF Verdicts
  <2>2. AllOf(R) = [verdict |-> "Pass", until |-> first]
    BY <1>3, <2>1 DEF AllOf
  <2> QED
    BY <2>1, <2>2 DEF Verdicts
<1> QED
  BY <1>1, <1>2, <1>3

(* The conditions of a cell as ConfigurationAssumption has them.            *)
Conditions == {cs \in SUBSET SUBSET Sources : cs # {} /\ {} \notin cs}

(* When a clause of the conditions lapses.                                  *)
ClauseUntil(d, c, clause, t) == AnyOf({Leaf(d, c, s, t) : s \in clause}).until

(* evaluate_raw: the conditions pass exactly while every clause has a       *)
(* source whose reading lives.                                              *)
LEMMA PassesWhenLiving ==
    ASSUME NEW d, NEW c, NEW cs \in Conditions, NEW t
    PROVE  /\ Passes(d, c, cs, t) <=> \A clause \in cs : \E s \in clause : Lives(d, c, s, t)
           /\ Passes(d, c, cs, t) => Evaluate(d, c, cs, t).until =
                 Min({ClauseUntil(d, c, clause, t) : clause \in cs})
<1> DEFINE R(clause) == {Leaf(d, c, s, t) : s \in clause}
           A == {AnyOf(R(clause)) : clause \in cs}
<1>1. ASSUME NEW clause \in cs
      PROVE  /\ AnyOf(R(clause)).verdict \in {"Pass", "Fail", "Unknown"}
             /\ AnyOf(R(clause)).verdict = "Pass" <=> \E s \in clause : Lives(d, c, s, t)
  <2>1. R(clause) # {} /\ \A r \in R(clause) : r.verdict \in {"Pass", "Fail", "Unknown"}
    BY LeafVerdict DEF Conditions
  <2>2. (\E r \in R(clause) : r.verdict = "Pass") <=> \E s \in clause : Lives(d, c, s, t)
    BY LeafVerdict
  <2> QED
    <3> HIDE DEF R
    <3> QED
      BY <2>1, <2>2, AnyVerdict
<1>2. A # {} /\ \A a \in A : a.verdict \in {"Pass", "Fail", "Unknown"}
  <2> HIDE DEF R
  <2> QED
    BY <1>1 DEF Conditions
<1>3. /\ AllOf(A).verdict = "Pass" <=> \A a \in A : a.verdict = "Pass"
      /\ AllOf(A).verdict = "Pass" => AllOf(A).until = Min({a.until : a \in A})
  <2> HIDE DEF A
  <2> QED
    BY <1>2, AllVerdict
<1>4. Evaluate(d, c, cs, t) = AllOf(A)
  BY DEF Evaluate
<1>5. {a.until : a \in A} = {ClauseUntil(d, c, clause, t) : clause \in cs}
  <2>1. \A clause \in cs : AnyOf(R(clause)).until = ClauseUntil(d, c, clause, t)
    BY DEF ClauseUntil
  <2> HIDE DEF R
  <2> QED
    BY <2>1
<1>6. (\A a \in A : a.verdict = "Pass") <=> \A clause \in cs : \E s \in clause : Lives(d, c, s, t)
  <2> HIDE DEF R
  <2> QED
    BY <1>1
<1> QED
  <2> HIDE DEF A
  <2> QED
    BY <1>3, <1>4, <1>5, <1>6 DEF Passes

(* A passing clause lasts as long as the longest lived of its readings.     *)
LEMMA ClauseLasts ==
    ASSUME TypeOK, NEW c \in Cells, NEW clause \in SUBSET Sources,
           \E s \in clause : Lives(db, c, s, now)
    PROVE  LET u == ClauseUntil(db, c, clause, now) IN
           /\ u \in Nat
           /\ \E s \in clause : Lives(db, c, s, now) /\ u = ValidUntil(db.fact[c][s])
           /\ \A s \in clause : Lives(db, c, s, now) => ValidUntil(db.fact[c][s]) <= u
<1> DEFINE R == {Leaf(db, c, s, now) : s \in clause}
           P == {p \in R : p.verdict = "Pass"}
           U == {r.until : r \in P}
           u == ClauseUntil(db, c, clause, now)
<1>1. ASSUME NEW s \in clause, Lives(db, c, s, now)
      PROVE  ValidUntil(db.fact[c][s]) \in 0 .. (MaxTime + MaxAge)
  <2>1. db.fact[c][s] \in Reading
    BY <1>1 DEF TypeOK, Store, Lives
  <2> QED
    BY <1>1, <2>1, ConfigurationAssumption DEF Lives, Usable, ValidUntil, Reading, TypeOK
<1>2. R # {} /\ \A r \in R : r.verdict \in {"Pass", "Fail", "Unknown"}
  BY LeafVerdict
<1>3. \E r \in R : r.verdict = "Pass"
  BY LeafVerdict
<1>4. u = Max(U)
  <2>1. u = AnyOf(R).until
    BY DEF ClauseUntil
  <2> HIDE DEF R
  <2> QED
    BY <1>2, <1>3, <2>1, AnyVerdict
<1>5. U = {ValidUntil(db.fact[c][s]) : s \in {x \in clause : Lives(db, c, x, now)}}
  <2>1. ASSUME NEW x \in U
        PROVE  x \in {ValidUntil(db.fact[c][s]) : s \in {y \in clause : Lives(db, c, y, now)}}
    <3>1. PICK s \in clause : Leaf(db, c, s, now).verdict = "Pass" /\ x = Leaf(db, c, s, now).until
      BY <2>1
    <3> QED
      BY <3>1, LeafVerdict
  <2>2. ASSUME NEW s \in clause, Lives(db, c, s, now) PROVE ValidUntil(db.fact[c][s]) \in U
    <3>1. Leaf(db, c, s, now) \in P /\ Leaf(db, c, s, now).until = ValidUntil(db.fact[c][s])
      BY <2>2, LeafVerdict
    <3> QED
      BY <3>1
  <2> QED
    BY <2>1, <2>2
<1>6. U \in SUBSET Nat /\ U # {} /\ MaxTime + MaxAge \in Nat /\ \A y \in U : y <= MaxTime + MaxAge
  <2> HIDE DEF U
  <2>1. MaxTime \in Nat /\ MaxAge \in Nat
    BY ConfigurationAssumption
  <2>2. \A y \in U : y \in 0 .. (MaxTime + MaxAge)
    BY <1>1, <1>5
  <2> QED
    BY <1>5, <2>1, <2>2
<1>7. Max(U) \in U /\ \A y \in U : y <= Max(U)
  <2> HIDE DEF U
  <2> QED
    BY <1>6, MaxIsGreatest
<1> QED
  <2> HIDE DEF U, R
  <2> QED
    BY <1>4, <1>5, <1>6, <1>7 DEF R

(* No reading comes from the future: one of this boot was taken before now. *)
Past(f) == f.clock <= clock /\ (f.clock = clock => f.at <= now)

(* A reading that lives now lives on exactly until its valid_until, and one *)
(* that does not live now never does again.                                 *)
LEMMA ReadingLasts ==
    ASSUME TypeOK, NEW c \in Cells, NEW s \in Sources,
           db.fact[c][s] # Nil => Past(db.fact[c][s]), NEW t \in Nat, now <= t
    PROVE  Lives(db, c, s, t) <=> Lives(db, c, s, now) /\ t <= ValidUntil(db.fact[c][s])
<1> DEFINE f == db.fact[c][s]
<1>1. CASE f = Nil
  BY <1>1 DEF Lives
<1>2. CASE f # Nil
  <2>1. /\ f.at \in Nat /\ f.uncertainty \in Nat /\ f.clock \in Nat /\ clock \in Nat
        /\ now \in Nat /\ MaxAge \in Nat
    <3>1. db.fact \in [Cells -> [Sources -> Reading \cup {Nil}]]
      BY DEF TypeOK, Store
    <3>2. f \in Reading
      BY <1>2, <3>1
    <3>3. /\ MaxTime \in Nat /\ MaxUncertainty \in Nat /\ MaxBoots \in Nat
          /\ MaxAge \in Nat
      BY ConfigurationAssumption
    <3>4. f.at \in Nat /\ f.uncertainty \in Nat /\ f.clock \in Nat
      BY <3>2, <3>3 DEF Reading
    <3>5. clock \in Nat /\ now \in Nat
      BY <3>3 DEF TypeOK
    <3> QED
      BY <3>3, <3>4, <3>5
  <2> QED
    BY <1>2, <2>1 DEF Past, Lives, Usable, ValidUntil
<1> QED
  BY <1>1, <1>2

(* valid_until of an evaluation is exact: the first clause to run out of    *)
(* living readings ends it.                                                 *)
LEMMA UntilIsExact ==
    ASSUME TypeOK, NEW c \in Cells, NEW cs \in Conditions,
           \A s \in Sources : db.fact[c][s] # Nil => Past(db.fact[c][s]),
           Passes(db, c, cs, now), NEW t \in Nat, now <= t
    PROVE  Passes(db, c, cs, t) <=> t <= Evaluate(db, c, cs, now).until
<1> DEFINE u(clause) == ClauseUntil(db, c, clause, now)
           U == {u(clause) : clause \in cs}
           e == Evaluate(db, c, cs, now).until
<1>1. ASSUME NEW clause \in cs
      PROVE  /\ u(clause) \in Nat
             /\ \E s \in clause : Lives(db, c, s, now) /\ u(clause) = ValidUntil(db.fact[c][s])
             /\ \A s \in clause : Lives(db, c, s, now) => ValidUntil(db.fact[c][s]) <= u(clause)
             /\ clause \subseteq Sources
  <2>1. clause \in SUBSET Sources /\ \E s \in clause : Lives(db, c, s, now)
    BY PassesWhenLiving DEF Conditions
  <2> QED
    BY <2>1, ClauseLasts
<1>2. e = Min(U)
  BY PassesWhenLiving
<1> HIDE DEF u
<1>3. U \in SUBSET Nat /\ U # {}
  BY <1>1 DEF Conditions
<1>4. Min(U) \in U /\ \A y \in U : Min(U) <= y
  <2> HIDE DEF U
  <2> QED
    BY <1>3, MinIsLeast
<1>5. t <= e <=> \A clause \in cs : t <= u(clause)
  <2>1. \A clause \in cs : u(clause) \in Nat /\ e <= u(clause)
    BY <1>1, <1>2, <1>4
  <2>2. \E clause \in cs : e = u(clause)
    BY <1>2, <1>4
  <2> HIDE DEF e, U
  <2> QED
    BY <2>1, <2>2
<1>6. ASSUME NEW clause \in cs
      PROVE  t <= u(clause) <=> \E s \in clause : Lives(db, c, s, t)
  <2>1. ASSUME NEW s \in clause
        PROVE  Lives(db, c, s, t) <=> Lives(db, c, s, now) /\ t <= ValidUntil(db.fact[c][s])
    BY <1>1, ReadingLasts
  <2>2. ASSUME NEW s \in clause, Lives(db, c, s, now) PROVE ValidUntil(db.fact[c][s]) \in Int
    <3>1. db.fact[c][s] \in Reading
      BY <1>1, <2>2 DEF TypeOK, Store, Lives
    <3> QED
      BY <3>1, ConfigurationAssumption DEF Reading, ValidUntil
  <2> QED
    BY <1>1, <2>1, <2>2
<1> QED
  BY <1>5, <1>6, PassesWhenLiving

-----------------------------------------------------------------------------
(* accept_facts: what recording a batch does to the store.                  *)

(* The batch names each source and each identity once.                      *)
Distinct(batch) == \A q, r \in batch : q.source = r.source \/ q.id = r.id => q = r

(* The reading revokes the cells that depend on its source.                 *)
Revokes(d, c, r) == Conflicting(d, c, r) \/ Losing(d, c, r)

(* Cell x is stopped with the dependents of a reading of the batch.         *)
Stopped(d, c, batch, x) ==
    \E r \in batch : Revokes(d, c, r) /\ x \in Group(Dependents(r.source))

Noted(d, batch) == {r \in batch : ~Contradicts(d, r)}

KeptOf(d, c, batch) == {r \in batch : Kept(d, c, r)}

(* The store after the batch, field by field.                               *)
EvidenceOf(d, batch) ==
    [i \in 1 .. MaxReadings |-> IF \E r \in Noted(d, batch) : r.id = i
                                  THEN CHOOSE r \in Noted(d, batch) : r.id = i
                                  ELSE d.evidence[i]]

FactsOf(d, c, batch) ==
    [s \in Sources |-> IF \E r \in KeptOf(d, c, batch) : r.source = s
                         THEN AsFact(c, CHOOSE r \in KeptOf(d, c, batch) : r.source = s)
                         ELSE d.fact[c][s]]

LossesOf(d, c, batch) ==
    {Loss(c, r) : r \in {q \in KeptOf(d, c, batch) : ChangedGeneration(c, q)}}

StoppingOf(d, c, batch, x) ==
    {r \in {q \in batch : Conflicting(d, c, q) \/ Losing(d, c, q)} :
        x \in Group(Dependents(r.source))}

RunsOf(d, c, batch) ==
    [x \in Cells |-> IF StoppingOf(d, c, batch, x) # {} THEN "RecoveryRequired" ELSE d.run[x]]

BlocksOf(d, c, batch) ==
    [x \in Cells |-> d.blocks[x] \cup {Reason(d, c, r) : r \in StoppingOf(d, c, batch, x)}]

EpochsOf(d, c, batch) ==
    [x \in Cells |-> d.epoch[x] + Cardinality(StoppingOf(d, c, batch, x))]

(* Recorded changes every field at once.                                    *)
LEMMA RecordedFields ==
    ASSUME NEW d \in Store, NEW c \in Cells, NEW batch
    PROVE  Recorded(d, c, batch) =
             [fact |-> [d.fact EXCEPT ![c] = FactsOf(d, c, batch)],
              evidence |-> EvidenceOf(d, batch),
              incidents |-> d.incidents \cup (batch \ Noted(d, batch)),
              losses |-> d.losses \cup LossesOf(d, c, batch),
              run |-> RunsOf(d, c, batch), blocks |-> BlocksOf(d, c, batch),
              epoch |-> EpochsOf(d, c, batch)]
<1> DEFINE e == Recorded(d, c, batch)
<1>1. e = [d EXCEPT
            !.evidence = EvidenceOf(d, batch),
            !.fact[c] = FactsOf(d, c, batch),
            !.incidents = @ \cup (batch \ Noted(d, batch)),
            !.losses = @ \cup LossesOf(d, c, batch),
            !.run = RunsOf(d, c, batch),
            !.blocks = BlocksOf(d, c, batch),
            !.epoch = EpochsOf(d, c, batch)]
  BY Zenon DEF Recorded, EvidenceOf, FactsOf, LossesOf, StoppingOf, Noted, KeptOf,
               RunsOf, BlocksOf, EpochsOf
<1> QED
  BY <1>1 DEF Store

(* The evidence and the fact of each reading of the batch, and everything   *)
(* else, which stays.                                                       *)
LEMMA RecordedReadings ==
    ASSUME NEW d \in Store, NEW c \in Cells, NEW batch \in SUBSET Reading, Distinct(batch)
    PROVE  LET e == Recorded(d, c, batch) IN
           /\ \A r \in batch :
                 /\ e.evidence[r.id] = IF Contradicts(d, r) THEN d.evidence[r.id] ELSE r
                 /\ e.fact[c][r.source] =
                       IF Kept(d, c, r) THEN AsFact(c, r) ELSE d.fact[c][r.source]
           /\ \A i \in 1 .. MaxReadings :
                 (\A r \in batch : r.id # i) => e.evidence[i] = d.evidence[i]
           /\ \A s \in Sources :
                 (\A r \in batch : r.source # s) => e.fact[c][s] = d.fact[c][s]
           /\ \A x \in Cells \ {c} : e.fact[x] = d.fact[x]
<1> DEFINE e == Recorded(d, c, batch)
           N == Noted(d, batch)
           K == KeptOf(d, c, batch)
<1>1. e.evidence = EvidenceOf(d, batch) /\ e.fact = [d.fact EXCEPT ![c] = FactsOf(d, c, batch)]
  BY RecordedFields
<1>2. d.fact \in [Cells -> [Sources -> Reading \cup {Nil}]]
  BY DEF Store
<1>3. ASSUME NEW r \in batch
      PROVE  e.evidence[r.id] = IF Contradicts(d, r) THEN d.evidence[r.id] ELSE r
  <2>1. r.id \in 1 .. MaxReadings
    BY DEF Reading
  <2>2. CASE Contradicts(d, r)
    <3>1. ~ \E q \in N : q.id = r.id
      BY <2>2 DEF Noted, Distinct
    <3> QED
      BY <1>1, <2>1, <2>2, <3>1 DEF EvidenceOf
  <2>3. CASE ~Contradicts(d, r)
    <3>1. r \in N /\ \A q \in N : q.id = r.id => q = r
      BY <2>3 DEF Noted, Distinct
    <3>2. (CHOOSE q \in N : q.id = r.id) = r
      BY <3>1
    <3> QED
      BY <1>1, <2>1, <2>3, <3>1, <3>2 DEF EvidenceOf
  <2> QED
    BY <2>2, <2>3
<1>4. e.fact[c] = FactsOf(d, c, batch)
  BY <1>1, <1>2
<1>5. ASSUME NEW r \in batch
      PROVE  e.fact[c][r.source] = IF Kept(d, c, r) THEN AsFact(c, r) ELSE d.fact[c][r.source]
  <2>1. r.source \in Sources
    BY DEF Reading
  <2>2. CASE ~Kept(d, c, r)
    <3>1. ~ \E q \in K : q.source = r.source
      BY <2>2 DEF KeptOf, Distinct
    <3> QED
      BY <1>4, <2>1, <2>2, <3>1 DEF FactsOf
  <2>3. CASE Kept(d, c, r)
    <3>1. r \in K /\ \A q \in K : q.source = r.source => q = r
      BY <2>3 DEF KeptOf, Distinct
    <3>2. (CHOOSE q \in K : q.source = r.source) = r
      BY <3>1
    <3> QED
      BY <1>4, <2>1, <2>3, <3>1, <3>2 DEF FactsOf
  <2> QED
    BY <2>2, <2>3
<1>6. ASSUME NEW i \in 1 .. MaxReadings, \A r \in batch : r.id # i
      PROVE  e.evidence[i] = d.evidence[i]
  BY <1>1, <1>6 DEF EvidenceOf, Noted
<1>7. ASSUME NEW s \in Sources, \A r \in batch : r.source # s
      PROVE  e.fact[c][s] = d.fact[c][s]
  BY <1>4, <1>7 DEF FactsOf, KeptOf
<1>8. \A x \in Cells \ {c} : e.fact[x] = d.fact[x]
  BY <1>1, <1>2
<1> QED
  BY <1>3, <1>5, <1>6, <1>7, <1>8

(* A kept reading is a reading still, of the same source, clock and time.   *)
LEMMA AsFactIsReading ==
    ASSUME NEW c, NEW r \in Reading
    PROVE  /\ AsFact(c, r) \in Reading
           /\ AsFact(c, r).id = r.id /\ AsFact(c, r).disputed = r.disputed
           /\ AsFact(c, r).clock = r.clock /\ AsFact(c, r).at = r.at
           /\ AsFact(c, r).generation = r.generation
BY DEF AsFact, Reading

(* Recording a finite batch keeps the store typed and the evidence issued.  *)
LEMMA RecordedTyped ==
    ASSUME NEW d \in Store, NEW c \in Cells, NEW batch \in SUBSET Reading, Distinct(batch),
           IsFiniteSet(batch), sessions \in [Cells -> [Sources -> 0 .. MaxGeneration]]
    PROVE  LET e == Recorded(d, c, batch) IN
           /\ e \in Store
           /\ e.incidents = d.incidents \cup {r \in batch : Contradicts(d, r)}
           /\ e.losses = d.losses \cup LossesOf(d, c, batch)
           /\ \A x \in Cells : e.run[x] = IF Stopped(d, c, batch, x)
                                            THEN "RecoveryRequired" ELSE d.run[x]
           /\ (\A x \in Cells : ~Stopped(d, c, batch, x)) =>
                 e.run = d.run /\ e.blocks = d.blocks /\ e.epoch = d.epoch
<1> DEFINE e == Recorded(d, c, batch)
           S(x) == StoppingOf(d, c, batch, x)
<1>0. /\ e.incidents = d.incidents \cup (batch \ Noted(d, batch))
      /\ e.losses = d.losses \cup LossesOf(d, c, batch)
      /\ e.run = RunsOf(d, c, batch) /\ e.blocks = BlocksOf(d, c, batch)
      /\ e.epoch = EpochsOf(d, c, batch)
  BY RecordedFields
<1>1. ASSUME NEW i \in 1 .. MaxReadings PROVE e.evidence[i] \in Reading \cup {Nil}
  <2>1. d.evidence[i] \in Reading \cup {Nil}
    BY DEF Store
  <2> QED
    BY <2>1, RecordedReadings
<1>2. ASSUME NEW s \in Sources PROVE e.fact[c][s] \in Reading \cup {Nil}
  <2>1. d.fact[c][s] \in Reading \cup {Nil}
    BY DEF Store
  <2> QED
    BY <2>1, RecordedReadings, AsFactIsReading
<1>3. e.evidence \in [1 .. MaxReadings -> Reading \cup {Nil}]
  <2>1. e.evidence = EvidenceOf(d, batch)
    BY RecordedFields
  <2> QED
    BY <1>1, <2>1 DEF EvidenceOf
<1>4. e.fact \in [Cells -> [Sources -> Reading \cup {Nil}]]
  <2>1. e.fact = [d.fact EXCEPT ![c] = FactsOf(d, c, batch)]
    BY RecordedFields
  <2>2. d.fact \in [Cells -> [Sources -> Reading \cup {Nil}]]
    BY DEF Store
  <2>3. e.fact[c] = FactsOf(d, c, batch)
    BY <2>1, <2>2
  <2>4. FactsOf(d, c, batch) \in [Sources -> Reading \cup {Nil}]
    BY <1>2, <2>3 DEF FactsOf
  <2> QED
    BY <2>1, <2>2, <2>4
<1>5. e.incidents = d.incidents \cup {r \in batch : Contradicts(d, r)} /\ e.incidents \in SUBSET Reading
  <2>1. batch \ Noted(d, batch) = {r \in batch : Contradicts(d, r)}
    BY DEF Noted
  <2>2. d.incidents \in SUBSET Reading
    BY DEF Store
  <2> HIDE DEF e
  <2> QED
    BY <1>0, <2>1, <2>2
<1>6. e.losses = d.losses \cup LossesOf(d, c, batch) /\ e.losses \in SUBSET Losses
  <2>1. LossesOf(d, c, batch) \subseteq Losses
    BY DEF LossesOf, KeptOf, Loss, Losses, Reading
  <2> QED
    BY <1>0, <2>1 DEF Store
<1>7. \A x \in Cells : S(x) # {} <=> Stopped(d, c, batch, x)
  BY DEF StoppingOf, Stopped, Revokes
<1>8. /\ e.run = [x \in Cells |-> IF S(x) # {} THEN "RecoveryRequired" ELSE d.run[x]]
      /\ e.blocks = [x \in Cells |-> d.blocks[x] \cup {Reason(d, c, r) : r \in S(x)}]
      /\ e.epoch = [x \in Cells |-> d.epoch[x] + Cardinality(S(x))]
  BY <1>0, Zenon DEF RunsOf, BlocksOf, EpochsOf
<1>9. ASSUME NEW x \in Cells PROVE Cardinality(S(x)) \in Nat
  <2>1. S(x) \in SUBSET batch
    BY DEF StoppingOf
  <2> QED
    BY <2>1, FS_Subset, FS_CardinalityType
<1> HIDE DEF S, e
<1>10. /\ e.run \in [Cells -> RunState]
       /\ e.blocks \in [Cells -> SUBSET {"IntegrityConflict", "DeviceRestart", "ConditionLost",
                                         "RuntimeRestart"}]
       /\ e.epoch \in [Cells -> Nat]
  BY <1>8, <1>9 DEF Store, RunState, Reason
<1>11. e = [fact |-> e.fact, evidence |-> e.evidence, incidents |-> e.incidents,
            losses |-> e.losses, run |-> e.run, blocks |-> e.blocks, epoch |-> e.epoch]
  BY RecordedFields DEF e
<1>12. e \in Store
  BY <1>3, <1>4, <1>5, <1>6, <1>10, <1>11 DEF Store
<1>13. ASSUME \A x \in Cells : ~Stopped(d, c, batch, x)
       PROVE  e.run = d.run /\ e.blocks = d.blocks /\ e.epoch = d.epoch
  <2>1. \A x \in Cells : S(x) = {}
    BY <1>7, <1>13
  <2>2. Cardinality({}) = 0
    BY FS_EmptySet
  <2>3. \A x \in Cells : e.run[x] = d.run[x] /\ e.blocks[x] = d.blocks[x] /\ e.epoch[x] = d.epoch[x]
    <3>1. ASSUME NEW x \in Cells
          PROVE  e.run[x] = d.run[x] /\ e.blocks[x] = d.blocks[x] /\ e.epoch[x] = d.epoch[x]
      <4>1. e.run[x] = d.run[x] /\ e.blocks[x] = d.blocks[x] \cup {} /\ e.epoch[x] = d.epoch[x] + 0
        BY <1>8, <2>1, <2>2
      <4> QED
        BY <4>1 DEF Store
    <3> QED
      BY <3>1
  <2> QED
    BY <1>10, <2>3 DEF Store
<1> QED
  BY <1>5, <1>6, <1>7, <1>8, <1>12, <1>13 DEF e

(* A store is what its fields are.                                          *)
LEMMA StoreByFields ==
    ASSUME NEW d \in Store, NEW e \in Store, d.fact = e.fact, d.evidence = e.evidence,
           d.incidents = e.incidents, d.losses = e.losses, d.run = e.run,
           d.blocks = e.blocks, d.epoch = e.epoch
    PROVE  d = e
<1>1. d = [fact |-> d.fact, evidence |-> d.evidence, incidents |-> d.incidents,
           losses |-> d.losses, run |-> d.run, blocks |-> d.blocks, epoch |-> d.epoch]
  BY DEF Store
<1>2. e = [fact |-> e.fact, evidence |-> e.evidence, incidents |-> e.incidents,
           losses |-> e.losses, run |-> e.run, blocks |-> e.blocks, epoch |-> e.epoch]
  BY DEF Store
<1> QED
  BY <1>1, <1>2

Reasons == {"IntegrityConflict", "DeviceRestart", "ConditionLost", "RuntimeRestart"}

(* invalidate_closure touches the runs, blocks and epochs of the group.     *)
LEMMA RevokedTyped ==
    ASSUME NEW d \in Store, NEW cells, NEW reason \in Reasons, NEW e,
           e = Revoked(d, cells, reason)
    PROVE
           /\ e \in Store /\ e.fact = d.fact /\ e.evidence = d.evidence
           /\ e.incidents = d.incidents /\ e.losses = d.losses
           /\ \A x \in Cells : /\ x \in Group(cells) => e.run[x] = "RecoveryRequired"
                               /\ x \notin Group(cells) => e.run[x] = d.run[x]
<1> DEFINE u == [x \in Cells |-> IF x \in Group(cells) THEN "RecoveryRequired" ELSE d.run[x]]
           k == [x \in Cells |-> IF x \in Group(cells) THEN d.blocks[x] \cup {reason} ELSE d.blocks[x]]
           p == [x \in Cells |-> IF x \in Group(cells) THEN d.epoch[x] + 1 ELSE d.epoch[x]]
<1>1. Revoked(d, cells, reason) = [d EXCEPT !.run = u, !.blocks = k, !.epoch = p]
  BY Zenon DEF Revoked
<1>2. /\ u \in [Cells -> RunState]
      /\ k \in [Cells -> SUBSET {"IntegrityConflict", "DeviceRestart", "ConditionLost",
                                 "RuntimeRestart"}]
      /\ p \in [Cells -> Nat]
  BY DEF Store, RunState, Reasons
<1>3. \A x \in Cells : u[x] = IF x \in Group(cells) THEN "RecoveryRequired" ELSE d.run[x]
  OBVIOUS
<1> HIDE DEF u, k, p
<1> QED
  BY <1>1, <1>2, <1>3 DEF Store

(* A cell that lists the source of a reading is stopped with its dependents. *)
LEMMA DependentIsInGroup ==
    ASSUME NEW x \in Cells, NEW s \in Specs[x]
    PROVE  x \in Dependents(s) /\ x \in Group(Dependents(s))
BY ConfigurationAssumption DEF Dependents, Group

(* accept_facts as a whole: the batch is recorded, and the reported cell    *)
(* does not go on when its maintained condition is lost.                    *)
LEMMA AcceptedTyped ==
    ASSUME NEW d \in Store, NEW c \in Cells, NEW batch \in SUBSET Reading, Distinct(batch),
           IsFiniteSet(batch), sessions \in [Cells -> [Sources -> 0 .. MaxGeneration]],
           batch # {}, \A r \in batch : r.source \in Specs[c]
    PROVE  LET e == Recorded(d, c, batch)
               a == AcceptFacts(d, c, batch)
           IN  /\ a \in Store /\ a.fact = e.fact /\ a.evidence = e.evidence
               /\ a.incidents = e.incidents /\ a.losses = e.losses
               /\ \A x \in Cells : a.run[x] \in {e.run[x], "RecoveryRequired"}
               /\ ~MaintainedLost(e, c) => a = e
               /\ MaintainedLost(e, c) => a.run[c] = "RecoveryRequired"
<1> DEFINE e == Recorded(d, c, batch)
           lost == UNION {Dependents(r.source) : r \in batch}
           a == AcceptFacts(d, c, batch)
<1>1. e \in Store
  BY RecordedTyped
<1>2. a = IF MaintainedLost(e, c) THEN Revoked(e, lost, "ConditionLost") ELSE e
  BY DEF AcceptFacts, LostRevoked
<1>3. c \in Group(lost)
  <2>1. PICK r \in batch : r.source \in Specs[c]
    OBVIOUS
  <2>2. c \in lost /\ c \in Closure[c]
    BY <2>1, DependentIsInGroup, ConfigurationAssumption
  <2> HIDE DEF lost
  <2> QED
    BY <2>2 DEF Group
<1> HIDE DEF e, a, lost
<1>4. CASE MaintainedLost(e, c)
  <2>1. a = Revoked(e, lost, "ConditionLost")
    BY <1>2, <1>4
  <2>2. /\ a \in Store /\ a.fact = e.fact /\ a.evidence = e.evidence
        /\ a.incidents = e.incidents /\ a.losses = e.losses
        /\ \A x \in Cells : /\ x \in Group(lost) => a.run[x] = "RecoveryRequired"
                            /\ x \notin Group(lost) => a.run[x] = e.run[x]
    <3>1. "ConditionLost" \in Reasons
      BY DEF Reasons
    <3> QED
      BY <1>1, <2>1, <3>1, RevokedTyped
  <2>3. a.run[c] = "RecoveryRequired" /\ \A x \in Cells : a.run[x] \in {e.run[x], "RecoveryRequired"}
    BY <1>3, <2>2
  <2> QED
    BY <1>4, <2>2, <2>3 DEF e, a
<1>5. CASE ~MaintainedLost(e, c)
  BY <1>1, <1>2, <1>5 DEF e, a
<1> QED
  BY <1>4, <1>5

(* A cut that was accepted is judged idle when it comes again.              *)
LEMMA AcceptedAgainIsIdle ==
    ASSUME NEW d \in Store, NEW c \in Cells, NEW batch \in SUBSET Reading, Distinct(batch),
           IsFiniteSet(batch), sessions \in [Cells -> [Sources -> 0 .. MaxGeneration]],
           batch # {}, \A r \in batch : r.source \in Specs[c]
    PROVE  LET a == AcceptFacts(d, c, batch) IN AcceptFacts(a, c, batch) = a
<1> DEFINE e == Recorded(d, c, batch)
           a == AcceptFacts(d, c, batch)
           b == Recorded(a, c, batch)
<1>1. /\ a \in Store /\ a.fact = e.fact /\ a.evidence = e.evidence
      /\ a.incidents = e.incidents /\ a.losses = e.losses
      /\ ~MaintainedLost(e, c) => a = e
      /\ MaintainedLost(e, c) => a.run[c] = "RecoveryRequired"
  BY AcceptedTyped
<1>2. /\ \A r \in batch :
            /\ e.evidence[r.id] = IF Contradicts(d, r) THEN d.evidence[r.id] ELSE r
            /\ e.fact[c][r.source] = IF Kept(d, c, r) THEN AsFact(c, r) ELSE d.fact[c][r.source]
      /\ e.incidents = d.incidents \cup {r \in batch : Contradicts(d, r)}
  BY RecordedReadings, RecordedTyped
<1> HIDE DEF e, a
<1>3. ASSUME NEW r \in batch
      PROVE  ~Kept(a, c, r) /\ ~Revokes(a, c, r) /\ (Contradicts(a, r) => r \in a.incidents)
             /\ (~Contradicts(a, r) => a.evidence[r.id] = r)
  <2>1. Contradicts(a, r) <=> Contradicts(d, r)
    BY <1>1, <1>2 DEF Contradicts
  <2>2. Contradicts(a, r) => r \in a.incidents
    BY <1>1, <1>2, <2>1
  <2>3. ~Contradicts(a, r) => a.evidence[r.id] = r
    BY <1>1, <1>2, <2>1
  <2>4. ~Contradicts(a, r) => PassedOver(a, c, r)
    <3>1. CASE Kept(d, c, r)
      <4>1. a.fact[c][r.source] = AsFact(c, r)
        BY <1>1, <1>2, <3>1
      <4>2. AsFact(c, r) # Nil /\ AsFact(c, r).id = r.id
        BY AsFactIsReading, ConfigurationAssumption
      <4> QED
        BY <4>1, <4>2 DEF PassedOver
    <3>2. CASE ~Kept(d, c, r)
      <4>1. a.fact[c][r.source] = d.fact[c][r.source]
        BY <1>1, <1>2, <3>2
      <4> QED
        BY <2>1, <3>2, <4>1 DEF Kept, PassedOver
    <3> QED
      BY <3>1, <3>2
  <2> QED
    BY <2>2, <2>3, <2>4 DEF Kept, Revokes, Conflicting, Losing
<1>4. b = a
  <2>1. KeptOf(a, c, batch) = {} /\ LossesOf(a, c, batch) = {}
    BY <1>3 DEF KeptOf, LossesOf
  <2>2. FactsOf(a, c, batch) = a.fact[c]
    <3>1. FactsOf(a, c, batch) = [s \in Sources |-> a.fact[c][s]]
      BY <2>1 DEF FactsOf
    <3>2. a.fact[c] \in [Sources -> Reading \cup {Nil}]
      BY <1>1 DEF Store
    <3> QED
      BY <3>1, <3>2
  <2>3. EvidenceOf(a, batch) = a.evidence
    <3>1. ASSUME NEW i \in 1 .. MaxReadings, NEW q \in Noted(a, batch), q.id = i
          PROVE  (CHOOSE r \in Noted(a, batch) : r.id = i) = a.evidence[i]
      <4> DEFINE z == CHOOSE r \in Noted(a, batch) : r.id = i
      <4>1. z \in Noted(a, batch) /\ z.id = i
        BY <3>1
      <4> HIDE DEF z
      <4> QED
        BY <1>3, <4>1 DEF Noted, z
    <3>2. a.evidence \in [1 .. MaxReadings -> Reading \cup {Nil}]
      BY <1>1 DEF Store
    <3>3. \A i \in 1 .. MaxReadings : EvidenceOf(a, batch)[i] = a.evidence[i]
      BY <3>1 DEF EvidenceOf
    <3>4. EvidenceOf(a, batch) = [i \in 1 .. MaxReadings |-> EvidenceOf(a, batch)[i]]
      BY DEF EvidenceOf
    <3> QED
      BY <3>2, <3>3, <3>4
  <2>4. a.incidents \cup (batch \ Noted(a, batch)) = a.incidents
    BY <1>3 DEF Noted
  <2>5. \A x \in Cells : ~Stopped(a, c, batch, x)
    BY <1>3 DEF Stopped
  <2>6. b.run = a.run /\ b.blocks = a.blocks /\ b.epoch = a.epoch
    BY <1>1, <2>5, RecordedTyped
  <2>7. /\ b.fact = [a.fact EXCEPT ![c] = FactsOf(a, c, batch)] /\ b.evidence = EvidenceOf(a, batch)
        /\ b.incidents = a.incidents \cup (batch \ Noted(a, batch))
        /\ b.losses = a.losses \cup LossesOf(a, c, batch) /\ b \in Store
    <3>1. b \in Store
      BY <1>1, RecordedTyped
    <3>2. b = [fact |-> [a.fact EXCEPT ![c] = FactsOf(a, c, batch)],
               evidence |-> EvidenceOf(a, batch),
               incidents |-> a.incidents \cup (batch \ Noted(a, batch)),
               losses |-> a.losses \cup LossesOf(a, c, batch),
               run |-> RunsOf(a, c, batch), blocks |-> BlocksOf(a, c, batch),
               epoch |-> EpochsOf(a, c, batch)]
      BY <1>1, RecordedFields
    <3> HIDE DEF b
    <3> QED
      BY <3>1, <3>2
  <2>8. [a.fact EXCEPT ![c] = a.fact[c]] = a.fact
    BY <1>1 DEF Store
  <2> HIDE DEF b
  <2>9. /\ b.fact = a.fact /\ b.evidence = a.evidence /\ b.incidents = a.incidents
        /\ b.losses = a.losses /\ b.run = a.run /\ b.blocks = a.blocks /\ b.epoch = a.epoch
    BY <2>1, <2>2, <2>3, <2>4, <2>6, <2>7, <2>8
  <2> QED
    BY <1>1, <2>7, <2>9, StoreByFields
<1>5. ~MaintainedLost(a, c)
  <2>1. CASE MaintainedLost(e, c)
    BY <1>1, <2>1 DEF MaintainedLost, Active
  <2>2. CASE ~MaintainedLost(e, c)
    BY <1>1, <2>2
  <2> QED
    BY <2>1, <2>2
<1>6. AcceptFacts(a, c, batch) = IF MaintainedLost(b, c)
         THEN Revoked(b, UNION {Dependents(r.source) : r \in batch}, "ConditionLost") ELSE b
  BY DEF AcceptFacts, LostRevoked
<1> HIDE DEF b
<1> QED
  BY <1>4, <1>5, <1>6 DEF a

-----------------------------------------------------------------------------
(* The inductive invariant.                                                 *)

(* RunsOnLivingFacts and RunOutlivesNoIncident are kept by every step once  *)
(* the store is typed; that valid_until is exact needs in addition that no  *)
(* reading, issued or stored, comes from the future.                        *)
ObservationInv ==
    /\ TypeOK
    /\ IsFiniteSet(sent)
    /\ \A r \in sent : Past(r)
    /\ \A c \in Cells, s \in Sources : db.fact[c][s] # Nil => Past(db.fact[c][s])
    /\ RunsOnLivingFacts
    /\ RunOutlivesNoIncident

(* The two run properties, for one cell.                                    *)
LivesOn(c) ==
    db.run[c] = "Executing" /\ Maintained[c] # {} =>
        \E t \in lastCheck .. now : Passes(db, c, Maintained[c], t) \/ t = begun[c].at

NoIncident(c) ==
    db.run[c] = "Executing" =>
        /\ Incidents(db, c).conflicts = begun[c].known.conflicts
        /\ Incidents(db, c).losses = begun[c].known.losses
        /\ \A s \in Incidents(db, c).disputed \ begun[c].known.disputed : Shadowed(c, s)

(* The run properties say the same of every cell.                           *)
LEMMA PerCell ==
    /\ RunsOnLivingFacts <=> \A c \in Cells : LivesOn(c)
    /\ RunOutlivesNoIncident <=> \A c \in Cells : NoIncident(c)
BY DEF RunsOnLivingFacts, RunOutlivesNoIncident, LivesOn, NoIncident

(* Conditions look at the facts of the cell, its sessions and the clock: the *)
(* next store judges as any store with the same facts of the cell.          *)
LEMMA PassesOfFacts ==
    ASSUME NEW c \in Cells, NEW d, NEW cs, NEW t, db'.fact[c] = d.fact[c],
           sessions'[c] = sessions[c], clock' = clock
    PROVE  Passes(db, c, cs, t)' <=> Passes(d, c, cs, t)
<1>1. \A s : Leaf(db, c, s, t)' = Leaf(d, c, s, t)
  BY DEF Leaf, Usable, ValidUntil, Unknown
<1>2. \A clause : {Leaf(db, c, s, t) : s \in clause}' = {Leaf(d, c, s, t) : s \in clause}
  BY <1>1
<1>3. {AnyOf({Leaf(db, c, s, t) : s \in clause}) : clause \in cs}'
        = {AnyOf({Leaf(d, c, s, t) : s \in clause}) : clause \in cs}
  BY <1>2
<1>4. Evaluate(db, c, cs, t)' = Evaluate(d, c, cs, t)
  BY <1>3 DEF Evaluate
<1> QED
  BY <1>4 DEF Passes

(* In particular, conditions of a cell whose facts stay are judged as before. *)
LEMMA PassesKept ==
    ASSUME NEW c \in Cells, NEW cs, NEW t, db'.fact[c] = db.fact[c],
           sessions'[c] = sessions[c], clock' = clock
    PROVE  Passes(db, c, cs, t)' <=> Passes(db, c, cs, t)
BY PassesOfFacts

(* A step that leaves the cell's facts, sessions and beginning alone and    *)
(* does not take the watchdog's look away keeps its run alive.              *)
LEMMA LivesOnKept ==
    ASSUME NEW c \in Cells, LivesOn(c), db'.fact[c] = db.fact[c], sessions'[c] = sessions[c],
           clock' = clock, begun'[c] = begun[c], lastCheck' = lastCheck,
           db'.run[c] = "Executing" => db.run[c] = "Executing",
           now \in Nat, now' \in Nat, lastCheck \in Nat, now <= now'
    PROVE  LivesOn(c)'
<1> SUFFICES ASSUME db'.run[c] = "Executing", Maintained[c] # {}
             PROVE  \E t \in lastCheck' .. now' :
                        Passes(db, c, Maintained[c], t)' \/ t = begun'[c].at
  BY DEF LivesOn
<1>1. PICK t \in lastCheck .. now : Passes(db, c, Maintained[c], t) \/ t = begun[c].at
  BY DEF LivesOn
<1>2. Passes(db, c, Maintained[c], t)' <=> Passes(db, c, Maintained[c], t)
  BY PassesKept
<1>3. t \in lastCheck' .. now'
  BY <1>1
<1> QED
  BY <1>1, <1>2, <1>3

(* A step that records no incident of the cell's sources keeps its run.     *)
LEMMA NoIncidentKept ==
    ASSUME NEW c \in Cells, NoIncident(c), begun'[c] = begun[c], sessions'[c] = sessions[c],
           clock' = clock, db'.run[c] = "Executing" => db.run[c] = "Executing",
           db'.run[c] = "Executing" =>
              /\ {r \in db'.incidents : r.source \in Specs[c]}
                    = {r \in db.incidents : r.source \in Specs[c]}
              /\ {l \in db'.losses : l[2] \in Specs[c]} = {l \in db.losses : l[2] \in Specs[c]}
              /\ db.losses \subseteq db'.losses
              /\ \A s \in Specs[c] :
                    db'.fact[c][s] # Nil /\ db'.fact[c][s].disputed
                       /\ db'.fact[c][s].generation = sessions[c][s]
                    => \/ /\ db.fact[c][s] # Nil /\ db.fact[c][s].disputed
                          /\ db.fact[c][s].generation = sessions[c][s]
                       \/ Shadowed(c, s)'
    PROVE  NoIncident(c)'
<1> SUFFICES ASSUME db'.run[c] = "Executing"
             PROVE  /\ Incidents(db, c)'.conflicts = begun'[c].known.conflicts
                    /\ Incidents(db, c)'.losses = begun'[c].known.losses
                    /\ \A s \in Incidents(db, c)'.disputed \ begun'[c].known.disputed :
                          Shadowed(c, s)'
  BY DEF NoIncident
<1>1. Incidents(db, c)'.conflicts = begun'[c].known.conflicts
  BY DEF NoIncident, Incidents
<1>2. Incidents(db, c)'.losses = begun'[c].known.losses
  BY DEF NoIncident, Incidents
<1>3. ASSUME NEW s \in Incidents(db, c)'.disputed, s \notin begun'[c].known.disputed
      PROVE  Shadowed(c, s)'
  <2>1. /\ s \in Specs[c] /\ db'.fact[c][s] # Nil /\ db'.fact[c][s].disputed
        /\ db'.fact[c][s].generation = sessions[c][s]
    BY <1>3 DEF Incidents
  <2>2. CASE Shadowed(c, s)'
    BY <2>2
  <2>3. CASE /\ db.fact[c][s] # Nil /\ db.fact[c][s].disputed
             /\ db.fact[c][s].generation = sessions[c][s]
    <3>1. s \in Incidents(db, c).disputed \ begun[c].known.disputed
      BY <1>3, <2>1, <2>3 DEF Incidents
    <3>2. Shadowed(c, s)
      BY <3>1 DEF NoIncident
    <3> QED
      BY <3>2 DEF Shadowed
  <2> QED
    BY <2>1, <2>2, <2>3
<1> QED
  BY <1>1, <1>2, <1>3

(* A step that changes no fact and no incident, and starts no run.          *)
LEMMA QuietStepKeeps ==
    ASSUME ObservationInv, TypeOK', IsFiniteSet(sent'), \A r \in sent' : Past(r)',
           UNCHANGED <<clock, sessions, begun, lastCheck>>, now <= now',
           db'.fact = db.fact, db'.incidents = db.incidents, db'.losses = db.losses,
           \A c \in Cells : db'.run[c] = "Executing" => db.run[c] = "Executing"
    PROVE  ObservationInv'
<1>1. TypeOK /\ RunsOnLivingFacts /\ RunOutlivesNoIncident
  BY DEF ObservationInv
<1>2. now \in Nat /\ now' \in Nat /\ lastCheck \in Nat /\ clock \in Nat
  BY <1>1 DEF TypeOK
<1>3. ASSUME NEW c \in Cells PROVE LivesOn(c)'
  <2>1. LivesOn(c)
    BY <1>1, PerCell
  <2> QED
    BY <1>2, <2>1, LivesOnKept
<1>4. ASSUME NEW c \in Cells PROVE NoIncident(c)'
  <2>1. NoIncident(c)
    BY <1>1, PerCell
  <2> QED
    BY <2>1, NoIncidentKept
<1>5. RunsOnLivingFacts' /\ RunOutlivesNoIncident'
  BY <1>3, <1>4 DEF RunsOnLivingFacts, RunOutlivesNoIncident, LivesOn, NoIncident
<1>6. ASSUME NEW c \in Cells, NEW s \in Sources, db'.fact[c][s] # Nil PROVE Past(db.fact[c][s])'
  <2>1. db.fact[c][s] \in Reading /\ Past(db.fact[c][s])
    BY <1>1, <1>6 DEF ObservationInv, TypeOK, Store
  <2> QED
    BY <1>2, <2>1 DEF Past, Reading
<1> QED
  BY <1>5, <1>6 DEF ObservationInv

(* The host and its devices: readings are issued with this boot's clock and *)
(* the present time.                                                        *)
LEMMA HostSteps ==
    ASSUME ObservationInv,
           \/ \E s \in Sources, k \in Kinds, u \in 0 .. MaxUncertainty : Acquire(s, k, u)
           \/ \E r \in sent : Contradict(r)
           \/ \E s \in Sources : DeviceRestart(s)
    PROVE  ObservationInv'
<1>0. TypeOK /\ IsFiniteSet(sent) /\ \A r \in sent : Past(r)
  BY DEF ObservationInv
<1> USE ConfigurationAssumption
<1>1. ASSUME NEW r \in Reading, Past(r), sent' = sent \cup {r},
             UNCHANGED <<now, clock, lastCheck, generation, sessions, db, begun>>
      PROVE  ObservationInv'
  <2>1. TypeOK'
    BY <1>0, <1>1 DEF TypeOK
  <2>2. IsFiniteSet(sent')
    BY <1>0, <1>1, FS_AddElement
  <2>3. \A q \in sent' : Past(q)'
    BY <1>0, <1>1 DEF Past
  <2>4. now \in Nat
    BY <1>0 DEF TypeOK
  <2> QED
    BY <1>1, <2>1, <2>2, <2>3, <2>4, QuietStepKeeps
<1>2. ASSUME NEW s \in Sources, NEW k \in Kinds, NEW u \in 0 .. MaxUncertainty, Acquire(s, k, u)
      PROVE  ObservationInv'
  <2> DEFINE r == [id |-> Cardinality(Issued) + 1, source |-> s,
                   generation |-> generation[s], clock |-> clock, at |-> now,
                   uncertainty |-> u, good |-> k # "bad", disputed |-> k = "disputed",
                   value |-> k # "no"]
  <2>1. Issued \in SUBSET (1 .. MaxReadings)
    BY <1>0 DEF Issued, TypeOK, Reading
  <2>2. Cardinality(Issued) \in Nat
    <3>1. IsFiniteSet(1 .. MaxReadings)
      BY FS_Interval
    <3> QED
      BY <2>1, <3>1, FS_Subset, FS_CardinalityType
  <2>3. Cardinality(Issued) + 1 \in 1 .. MaxReadings
    BY <1>2, <2>2 DEF Acquire
  <2>4. r \in Reading
    BY <1>0, <2>3 DEF Reading, TypeOK
  <2>5. Past(r)
    BY <1>0 DEF Past, TypeOK
  <2>6. sent' = sent \cup {r} /\ UNCHANGED <<now, clock, lastCheck, generation, sessions, db, begun>>
    BY <1>2 DEF Acquire
  <2> HIDE DEF r
  <2> QED
    BY <1>1, <2>4, <2>5, <2>6
<1>3. ASSUME NEW r \in sent, Contradict(r) PROVE ObservationInv'
  <2> DEFINE v == ~r.value
             q == [r EXCEPT !.value = v]
  <2>1. r \in Reading /\ v \in BOOLEAN
    BY <1>0 DEF TypeOK
  <2>2. q = [r EXCEPT !.value = ~@]
    OBVIOUS
  <2> HIDE DEF v
  <2>3. q \in Reading /\ q.clock = r.clock /\ q.at = r.at
    BY <2>1 DEF Reading
  <2>4. Past(q)
    BY <1>0, <2>3 DEF Past
  <2>5. sent' = sent \cup {q} /\ UNCHANGED <<now, clock, lastCheck, generation, sessions, db, begun>>
    BY <1>3, <2>2 DEF Contradict
  <2> HIDE DEF q
  <2> QED
    BY <1>1, <2>3, <2>4, <2>5
<1>4. ASSUME NEW s \in Sources, DeviceRestart(s) PROVE ObservationInv'
  <2>1. /\ generation[s] < MaxGeneration /\ generation' = [generation EXCEPT ![s] = @ + 1]
        /\ UNCHANGED <<now, clock, lastCheck, sessions, sent, db, begun>>
    BY <1>4 DEF DeviceRestart
  <2>2. generation' \in [Sources -> 0 .. MaxGeneration]
    BY <1>0, <2>1 DEF TypeOK
  <2>3. TypeOK'
    BY <1>0, <2>1, <2>2 DEF TypeOK
  <2>4. \A q \in sent' : Past(q)'
    BY <1>0, <2>1 DEF Past
  <2>5. now <= now'
    BY <1>0, <2>1 DEF TypeOK
  <2> QED
    BY <1>0, <2>1, <2>3, <2>4, <2>5, QuietStepKeeps
<1> QED
  BY <1>2, <1>3, <1>4

(* Time passes: the watchdog's last look stays, the window only grows.      *)
LEMMA TickStep ==
    ASSUME ObservationInv, Tick
    PROVE  ObservationInv'
<1>0. TypeOK /\ IsFiniteSet(sent) /\ \A r \in sent : Past(r)
  BY DEF ObservationInv
<1> USE ConfigurationAssumption
<1>1. /\ now < MaxTime /\ now' = now + 1
      /\ UNCHANGED <<clock, lastCheck, generation, sessions, sent, db, begun>>
  BY DEF Tick
<1>2. now \in Nat /\ now' \in 0 .. MaxTime /\ now <= now' /\ lastCheck \in 0 .. now'
  BY <1>0, <1>1 DEF TypeOK
<1>3. TypeOK'
  BY <1>0, <1>1, <1>2 DEF TypeOK
<1>4. \A r \in sent' : Past(r)'
  BY <1>0, <1>1, <1>2 DEF Past, TypeOK, Reading
<1> QED
  BY <1>0, <1>1, <1>2, <1>3, <1>4, QuietStepKeeps

(* start_run: the run is not executing yet.                                 *)
LEMMA RequestStep ==
    ASSUME ObservationInv, NEW c \in Cells, RequestStart(c)
    PROVE  ObservationInv'
<1>0. TypeOK /\ IsFiniteSet(sent) /\ \A r \in sent : Past(r)
  BY DEF ObservationInv
<1>1. /\ db' = [db EXCEPT !.run[c] = "Arming"]
      /\ UNCHANGED <<now, clock, lastCheck, generation, sessions, sent, begun>>
  BY DEF RequestStart
<1>2. db \in Store
  BY <1>0 DEF TypeOK
<1>3. /\ db' \in Store /\ db'.fact = db.fact /\ db'.evidence = db.evidence
      /\ db'.incidents = db.incidents /\ db'.losses = db.losses
      /\ \A x \in Cells : db'.run[x] = "Executing" => db.run[x] = "Executing"
  <2>1. [db.run EXCEPT ![c] = "Arming"] \in [Cells -> RunState]
    BY <1>2 DEF Store, RunState
  <2>2. db' = [db EXCEPT !.run = [db.run EXCEPT ![c] = "Arming"]]
    BY <1>1, <1>2 DEF Store
  <2>3. db'.run = [db.run EXCEPT ![c] = "Arming"]
    BY <1>2, <2>2 DEF Store
  <2>4. \A x \in Cells : db'.run[x] = "Executing" => db.run[x] = "Executing"
    BY <1>2, <2>3 DEF Store
  <2> QED
    BY <1>2, <2>1, <2>2, <2>4 DEF Store
<1>4. TypeOK'
  BY <1>0, <1>1, <1>3 DEF TypeOK
<1>5. \A r \in sent' : Past(r)'
  BY <1>0, <1>1 DEF Past
<1>6. now <= now'
  BY <1>0, <1>1 DEF TypeOK
<1> QED
  BY <1>0, <1>1, <1>3, <1>4, <1>5, <1>6, QuietStepKeeps

(* The watchdog: a run that goes on has a maintained condition that passes  *)
(* at the moment of the look.                                               *)
LEMMA WatchdogStep ==
    ASSUME ObservationInv, CheckMaintained
    PROVE  ObservationInv'
<1>0. /\ TypeOK /\ IsFiniteSet(sent) /\ RunOutlivesNoIncident
      /\ \A r \in sent : Past(r)
      /\ \A c \in Cells, s \in Sources : db.fact[c][s] # Nil => Past(db.fact[c][s])
  BY DEF ObservationInv
<1> DEFINE lost == {c \in Cells : MaintainedLost(db, c)}
<1>1. /\ db' = Revoked(db, lost, "ConditionLost") /\ lastCheck' = now
      /\ UNCHANGED <<now, clock, generation, sessions, sent, begun>>
  BY DEF CheckMaintained
<1>2. /\ db' \in Store /\ db'.fact = db.fact /\ db'.evidence = db.evidence
      /\ db'.incidents = db.incidents /\ db'.losses = db.losses
      /\ \A x \in Cells : /\ x \in Group(lost) => db'.run[x] = "RecoveryRequired"
                          /\ x \notin Group(lost) => db'.run[x] = db.run[x]
  <2>1. "ConditionLost" \in Reasons /\ db \in Store
    BY <1>0 DEF Reasons, TypeOK
  <2> HIDE DEF lost
  <2> QED
    BY <1>1, <2>1, RevokedTyped
<1>3. now \in 0 .. MaxTime /\ lastCheck' \in 0 .. now'
  BY <1>0, <1>1 DEF TypeOK
<1>4. TypeOK'
  BY <1>0, <1>1, <1>2, <1>3 DEF TypeOK
<1>5. ASSUME NEW c \in Cells, db'.run[c] = "Executing"
      PROVE  db.run[c] = "Executing" /\ (Maintained[c] # {} => Passes(db, c, Maintained[c], now))
  <2>1. c \notin Group(lost) /\ db.run[c] = "Executing"
    BY <1>2, <1>5
  <2>2. c \notin lost
    BY <2>1, ConfigurationAssumption DEF Group
  <2> QED
    BY <2>1, <2>2 DEF MaintainedLost, Active
<1>6. ASSUME NEW c \in Cells PROVE LivesOn(c)'
  <2> SUFFICES ASSUME db'.run[c] = "Executing", Maintained[c] # {}
               PROVE  \E t \in lastCheck' .. now' :
                          Passes(db, c, Maintained[c], t)' \/ t = begun'[c].at
    BY DEF LivesOn
  <2>1. Passes(db, c, Maintained[c], now)
    BY <1>5
  <2>2. (\A t : Passes(db, c, Maintained[c], t)' <=> Passes(db, c, Maintained[c], t))
    BY <1>1, <1>2, PassesKept
  <2>3. now \in lastCheck' .. now'
    BY <1>1, <1>3
  <2> QED
    BY <2>1, <2>2, <2>3
<1>7. ASSUME NEW c \in Cells PROVE NoIncident(c)'
  <2>1. NoIncident(c)
    BY <1>0, PerCell
  <2> QED
    BY <1>1, <1>2, <1>5, <2>1, NoIncidentKept
<1>8. /\ \A r \in sent' : Past(r)'
      /\ \A c \in Cells, s \in Sources : db'.fact[c][s] # Nil => Past(db.fact[c][s])'
  BY <1>0, <1>1, <1>2 DEF Past
<1>9. RunsOnLivingFacts' /\ RunOutlivesNoIncident'
  BY <1>6, <1>7 DEF RunsOnLivingFacts, RunOutlivesNoIncident, LivesOn, NoIncident
<1> QED
  BY <1>0, <1>1, <1>4, <1>8, <1>9 DEF ObservationInv

(* A restart revokes every cell, so no run executes after it; the clock     *)
(* stays as it is, or after a reboot is not the clock of any reading.       *)
LEMMA RestartStep ==
    ASSUME ObservationInv, Restart
    PROVE  ObservationInv'
<1>0. /\ TypeOK /\ IsFiniteSet(sent)
      /\ \A r \in sent : Past(r)
      /\ \A c \in Cells, s \in Sources : db.fact[c][s] # Nil => Past(db.fact[c][s])
  BY DEF ObservationInv
<1> USE ConfigurationAssumption
<1>1. /\ \/ clock' = clock /\ now' = now /\ lastCheck' = now
         \/ clock < MaxBoots /\ clock' = clock + 1 /\ now' = 0 /\ lastCheck' = 0
      /\ db' = Revoked(db, Cells, "RuntimeRestart")
      /\ UNCHANGED <<generation, sessions, sent, begun>>
  BY DEF Restart, ProcessRestart, MachineReboot
<1>2. /\ db' \in Store /\ db'.fact = db.fact /\ db'.evidence = db.evidence
      /\ db'.incidents = db.incidents /\ db'.losses = db.losses
      /\ \A x \in Cells : /\ x \in Group(Cells) => db'.run[x] = "RecoveryRequired"
                          /\ x \notin Group(Cells) => db'.run[x] = db.run[x]
  <2>1. "RuntimeRestart" \in Reasons /\ db \in Store
    BY <1>0 DEF Reasons, TypeOK
  <2> QED
    BY <1>1, <2>1, RevokedTyped
<1>3. \A c \in Cells : db'.run[c] # "Executing"
  BY <1>2 DEF Group
<1>4. clock \in Nat /\ clock' \in 0 .. MaxBoots /\ now' \in 0 .. MaxTime /\ lastCheck' \in 0 .. now'
  BY <1>0, <1>1 DEF TypeOK
<1>5. TypeOK'
  BY <1>0, <1>1, <1>2, <1>4 DEF TypeOK
<1>6. ASSUME NEW f \in Reading, Past(f) PROVE Past(f)'
  BY <1>1, <1>4, <1>6 DEF Past, Reading
<1>7. \A r \in sent' : Past(r)'
  BY <1>0, <1>1, <1>6 DEF TypeOK
<1>8. ASSUME NEW c \in Cells, NEW s \in Sources, db'.fact[c][s] # Nil PROVE Past(db.fact[c][s])'
  <2>1. db.fact[c][s] \in Reading /\ Past(db.fact[c][s])
    BY <1>0, <1>2, <1>8 DEF TypeOK, Store
  <2> QED
    BY <1>1, <1>2, <1>4, <2>1 DEF Past, Reading
<1>9. RunsOnLivingFacts' /\ RunOutlivesNoIncident'
  BY <1>3 DEF RunsOnLivingFacts, RunOutlivesNoIncident
<1> QED
  BY <1>0, <1>1, <1>5, <1>7, <1>8, <1>9 DEF ObservationInv

(* The mandate is created: the run begins now and knows every incident.     *)
LEMMA CommitStep ==
    ASSUME ObservationInv, NEW c \in Cells, CommitStart(c)
    PROVE  ObservationInv'
<1>0. /\ TypeOK /\ IsFiniteSet(sent) /\ RunsOnLivingFacts /\ RunOutlivesNoIncident
      /\ \A r \in sent : Past(r)
      /\ \A x \in Cells, s \in Sources : db.fact[x][s] # Nil => Past(db.fact[x][s])
  BY DEF ObservationInv
<1> DEFINE here == [at |-> now, known |-> Incidents(db, c)]
<1>1. /\ db' = [db EXCEPT !.run[c] = "Executing"] /\ begun' = [begun EXCEPT ![c] = here]
      /\ UNCHANGED <<now, clock, lastCheck, generation, sessions, sent>>
  BY DEF CommitStart
<1>2. db \in Store /\ now \in Nat /\ lastCheck \in 0 .. now /\ begun \in [Cells -> Beginning \cup {Nil}]
  BY <1>0 DEF TypeOK
<1>3. /\ db' \in Store /\ db'.fact = db.fact /\ db'.evidence = db.evidence
      /\ db'.incidents = db.incidents /\ db'.losses = db.losses
      /\ \A x \in Cells \ {c} : db'.run[x] = db.run[x]
  <2>1. [db.run EXCEPT ![c] = "Executing"] \in [Cells -> RunState]
    BY <1>2 DEF Store, RunState
  <2>2. db' = [db EXCEPT !.run = [db.run EXCEPT ![c] = "Executing"]]
    BY <1>1, <1>2 DEF Store
  <2>3. db'.run = [db.run EXCEPT ![c] = "Executing"]
    BY <1>2, <2>2 DEF Store
  <2>4. \A x \in Cells \ {c} : db'.run[x] = db.run[x]
    BY <1>2, <2>3 DEF Store
  <2> QED
    BY <1>2, <2>1, <2>2, <2>4 DEF Store
<1>4. here \in Beginning
  <2>1. Incidents(db, c).conflicts \in SUBSET Reading /\ Incidents(db, c).losses \in SUBSET Losses
    BY <1>2 DEF Incidents, Store
  <2>2. Incidents(db, c).disputed \in SUBSET Sources
    BY ConfigurationAssumption DEF Incidents
  <2>3. Incidents(db, c) = [conflicts |-> Incidents(db, c).conflicts,
                            losses |-> Incidents(db, c).losses,
                            disputed |-> Incidents(db, c).disputed]
    BY DEF Incidents
  <2> QED
    BY <1>2, <2>1, <2>2, <2>3 DEF Beginning
<1>5. begun' \in [Cells -> Beginning \cup {Nil}] /\ begun'[c] = here
      /\ \A x \in Cells \ {c} : begun'[x] = begun[x]
  <2> HIDE DEF here
  <2> QED
    BY <1>1, <1>2, <1>4
<1>6. TypeOK'
  BY <1>0, <1>1, <1>3, <1>5 DEF TypeOK
<1>7. ASSUME NEW x \in Cells PROVE LivesOn(x)'
  <2>1. CASE x = c
    <3>1. now \in lastCheck' .. now' /\ now = begun'[c].at
      BY <1>1, <1>2, <1>5
    <3> QED
      BY <2>1, <3>1 DEF LivesOn
  <2>2. CASE x # c
    <3>1. LivesOn(x)
      BY <1>0, PerCell
    <3> QED
      BY <1>1, <1>2, <1>3, <1>5, <2>2, <3>1, LivesOnKept
  <2> QED
    BY <2>1, <2>2
<1>8. ASSUME NEW x \in Cells PROVE NoIncident(x)'
  <2>1. CASE x = c
    <3>1. begun'[c].known = Incidents(db, c)
      BY <1>5
    <3>2. Incidents(db, c)' = Incidents(db, c)
      BY <1>1, <1>3 DEF Incidents
    <3> QED
      BY <2>1, <3>1, <3>2 DEF NoIncident
  <2>2. CASE x # c
    <3>1. NoIncident(x)
      BY <1>0, PerCell
    <3> QED
      BY <1>1, <1>3, <1>5, <2>2, <3>1, NoIncidentKept
  <2> QED
    BY <2>1, <2>2
<1>9. /\ \A r \in sent' : Past(r)'
      /\ \A x \in Cells, s \in Sources : db'.fact[x][s] # Nil => Past(db.fact[x][s])'
  BY <1>0, <1>1, <1>3 DEF Past
<1>10. RunsOnLivingFacts' /\ RunOutlivesNoIncident'
  BY <1>7, <1>8 DEF RunsOnLivingFacts, RunOutlivesNoIncident, LivesOn, NoIncident
<1> QED
  BY <1>0, <1>1, <1>6, <1>9, <1>10 DEF ObservationInv

(* Readmission moves the sessions of a cell that has no executing run.      *)
LEMMA ReadmitStep ==
    ASSUME ObservationInv, NEW c \in Cells, Readmit(c)
    PROVE  ObservationInv'
<1>0. /\ TypeOK /\ IsFiniteSet(sent) /\ RunsOnLivingFacts /\ RunOutlivesNoIncident
      /\ \A r \in sent : Past(r)
      /\ \A x \in Cells, s \in Sources : db.fact[x][s] # Nil => Past(db.fact[x][s])
  BY DEF ObservationInv
<1>1. /\ sessions' = [sessions EXCEPT ![c] = generation]
      /\ db' = [db EXCEPT !.run[c] = "Prepared", !.blocks[c] = {}]
      /\ UNCHANGED <<now, clock, lastCheck, generation, sent, begun>>
  BY DEF Readmit
<1>2. db \in Store /\ now \in Nat /\ lastCheck \in Nat
  BY <1>0 DEF TypeOK
<1>3. /\ db' \in Store /\ db'.fact = db.fact /\ db'.evidence = db.evidence
      /\ db'.incidents = db.incidents /\ db'.losses = db.losses
      /\ db'.run[c] = "Prepared" /\ \A x \in Cells \ {c} : db'.run[x] = db.run[x]
  <2> DEFINE u == [db.run EXCEPT ![c] = "Prepared"]
             k == [db.blocks EXCEPT ![c] = {}]
  <2>1. u \in [Cells -> RunState] /\ k \in [Cells -> SUBSET Reasons]
    BY <1>2 DEF Store, RunState, Reasons
  <2>2. db' = [db EXCEPT !.run = u, !.blocks = k]
    BY <1>1, <1>2 DEF Store
  <2>3. u[c] = "Prepared" /\ \A x \in Cells \ {c} : u[x] = db.run[x]
    BY <1>2 DEF Store
  <2> HIDE DEF u, k
  <2> QED
    BY <1>2, <2>1, <2>2, <2>3 DEF Store, Reasons
<1>4. sessions' \in [Cells -> [Sources -> 0 .. MaxGeneration]]
      /\ \A x \in Cells \ {c} : sessions'[x] = sessions[x]
  BY <1>0, <1>1 DEF TypeOK
<1>5. TypeOK'
  BY <1>0, <1>1, <1>3, <1>4 DEF TypeOK
<1>6. ASSUME NEW x \in Cells PROVE LivesOn(x)'
  <2>1. CASE x = c
    BY <1>3, <2>1 DEF LivesOn
  <2>2. CASE x # c
    <3>1. LivesOn(x)
      BY <1>0, PerCell
    <3> QED
      BY <1>1, <1>2, <1>3, <1>4, <2>2, <3>1, LivesOnKept
  <2> QED
    BY <2>1, <2>2
<1>7. ASSUME NEW x \in Cells PROVE NoIncident(x)'
  <2>1. CASE x = c
    BY <1>3, <2>1 DEF NoIncident
  <2>2. CASE x # c
    <3>1. NoIncident(x)
      BY <1>0, PerCell
    <3> QED
      BY <1>1, <1>3, <1>4, <2>2, <3>1, NoIncidentKept
  <2> QED
    BY <2>1, <2>2
<1>8. /\ \A r \in sent' : Past(r)'
      /\ \A x \in Cells, s \in Sources : db'.fact[x][s] # Nil => Past(db.fact[x][s])'
  BY <1>0, <1>1, <1>3 DEF Past
<1>9. RunsOnLivingFacts' /\ RunOutlivesNoIncident'
  BY <1>6, <1>7 DEF RunsOnLivingFacts, RunOutlivesNoIncident, LivesOn, NoIncident
<1> QED
  BY <1>0, <1>1, <1>5, <1>8, <1>9 DEF ObservationInv

(* A report: whoever goes on depends on no reading that stops, and the      *)
(* reported cell's maintained condition passes on the facts as they now are. *)
LEMMA ReportStep ==
    ASSUME ObservationInv, NEW c \in Cells, NEW b \in Batches(c), Report(c, b)
    PROVE  ObservationInv'
<1>0. /\ TypeOK /\ IsFiniteSet(sent) /\ RunsOnLivingFacts /\ RunOutlivesNoIncident
      /\ \A r \in sent : Past(r)
      /\ \A x \in Cells, s \in Sources : db.fact[x][s] # Nil => Past(db.fact[x][s])
  BY DEF ObservationInv
<1> DEFINE e == Recorded(db, c, b)
<1>1. /\ db' = AcceptFacts(db, c, b)
      /\ UNCHANGED <<now, clock, lastCheck, generation, sessions, sent, begun>>
  BY DEF Report
<1>2. /\ db \in Store /\ now \in Nat /\ lastCheck \in 0 .. now /\ sent \subseteq Reading
      /\ clock \in 0 .. MaxBoots
      /\ sessions \in [Cells -> [Sources -> 0 .. MaxGeneration]]
  BY <1>0 DEF TypeOK
<1>3. /\ b \in SUBSET sent /\ b \in SUBSET Reading /\ b # {} /\ Distinct(b)
      /\ \A r \in b : r.source \in Specs[c]
  BY <1>2 DEF Batches, Distinct
<1>4. IsFiniteSet(b)
  BY <1>0, <1>3, FS_Subset
<1>5. /\ \A r \in b :
            /\ e.evidence[r.id] = IF Contradicts(db, r) THEN db.evidence[r.id] ELSE r
            /\ e.fact[c][r.source] = IF Kept(db, c, r) THEN AsFact(c, r) ELSE db.fact[c][r.source]
      /\ \A i \in 1 .. MaxReadings : (\A r \in b : r.id # i) => e.evidence[i] = db.evidence[i]
      /\ \A s \in Sources : (\A r \in b : r.source # s) => e.fact[c][s] = db.fact[c][s]
      /\ \A x \in Cells \ {c} : e.fact[x] = db.fact[x]
  BY <1>2, <1>3, RecordedReadings
<1>6. /\ e.incidents = db.incidents \cup {r \in b : Contradicts(db, r)}
      /\ e.losses = db.losses \cup LossesOf(db, c, b)
      /\ \A x \in Cells : e.run[x] = IF Stopped(db, c, b, x) THEN "RecoveryRequired" ELSE db.run[x]
  BY <1>2, <1>3, <1>4, RecordedTyped
<1>7. /\ db' \in Store /\ db'.fact = e.fact /\ db'.evidence = e.evidence
      /\ db'.incidents = e.incidents /\ db'.losses = e.losses
      /\ \A x \in Cells : db'.run[x] \in {e.run[x], "RecoveryRequired"}
      /\ MaintainedLost(e, c) => db'.run[c] = "RecoveryRequired"
  BY <1>1, <1>2, <1>3, <1>4, AcceptedTyped
<1> HIDE DEF e
<1>8. TypeOK'
  <2>1. ASSUME NEW i \in 1 .. MaxReadings PROVE db'.evidence[i] \in sent' \cup {Nil}
    <3>1. db.evidence[i] \in sent \cup {Nil}
      BY <1>0 DEF TypeOK
    <3> QED
      BY <1>1, <1>3, <1>5, <1>7, <3>1
  <2>2. db'.incidents \subseteq sent'
    BY <1>0, <1>1, <1>3, <1>6, <1>7 DEF TypeOK
  <2> QED
    BY <1>0, <1>1, <1>7, <2>1, <2>2 DEF TypeOK
<1>9. ASSUME NEW x \in Cells, db'.run[x] = "Executing"
      PROVE  /\ db.run[x] = "Executing" /\ e.run[x] = "Executing"
             /\ \A r \in b : r.source \in Specs[x] => ~Conflicting(db, c, r) /\ ~Losing(db, c, r)
  <2>1. e.run[x] = "Executing" /\ ~Stopped(db, c, b, x) /\ db.run[x] = "Executing"
    BY <1>6, <1>7, <1>9
  <2>2. \A r \in b : r.source \in Specs[x] => x \in Group(Dependents(r.source))
    BY DependentIsInGroup
  <2> QED
    BY <2>1, <2>2 DEF Stopped, Revokes
<1>10. ASSUME NEW x \in Cells PROVE LivesOn(x)'
  <2>1. CASE x # c
    <3>1. LivesOn(x)
      BY <1>0, PerCell
    <3>2. db'.fact[x] = db.fact[x]
      BY <1>5, <1>7, <2>1
    <3> QED
      BY <1>1, <1>2, <1>9, <3>1, <3>2, LivesOnKept
  <2>2. CASE x = c
    <3> SUFFICES ASSUME db'.run[c] = "Executing", Maintained[c] # {}
                 PROVE  \E t \in lastCheck' .. now' :
                            Passes(db, c, Maintained[c], t)' \/ t = begun'[c].at
      BY <2>2 DEF LivesOn
    <3>1. Passes(e, c, Maintained[c], now)
      BY <1>7, <1>9 DEF MaintainedLost, Active
    <3>2. db'.fact[c] = e.fact[c] /\ sessions'[c] = sessions[c] /\ clock' = clock
      BY <1>1, <1>7
    <3>3. (\A t : Passes(db, c, Maintained[c], t)' <=> Passes(e, c, Maintained[c], t))
      BY <3>2, PassesOfFacts
    <3>4. now \in lastCheck' .. now'
      BY <1>1, <1>2
    <3> QED
      BY <3>1, <3>3, <3>4
  <2> QED
    BY <2>1, <2>2
<1>11. ASSUME NEW x \in Cells PROVE NoIncident(x)'
  <2>1. NoIncident(x)
    BY <1>0, PerCell
  <2>2. ASSUME db'.run[x] = "Executing"
        PROVE  {r \in db'.incidents : r.source \in Specs[x]}
                  = {r \in db.incidents : r.source \in Specs[x]}
    BY <1>6, <1>7, <1>9, <2>2 DEF Conflicting
  <2>3. ASSUME db'.run[x] = "Executing"
        PROVE  {l \in db'.losses : l[2] \in Specs[x]} = {l \in db.losses : l[2] \in Specs[x]}
    <3>1. ASSUME NEW r \in b, Kept(db, c, r), ChangedGeneration(c, r), Loss(c, r)[2] \in Specs[x]
          PROVE  Loss(c, r) \in db.losses
      <4>1. r.source \in Specs[x]
        BY <3>1 DEF Loss
      <4> QED
        BY <1>9, <2>3, <3>1, <4>1 DEF Losing
    <3>2. \A l \in LossesOf(db, c, b) : l[2] \in Specs[x] => l \in db.losses
      BY <3>1 DEF LossesOf, KeptOf
    <3> QED
      BY <1>6, <1>7, <3>2
  <2>4. db.losses \subseteq db'.losses
    BY <1>6, <1>7
  <2>5. ASSUME db'.run[x] = "Executing", NEW s \in Specs[x],
               db'.fact[x][s] # Nil, db'.fact[x][s].disputed,
               db'.fact[x][s].generation = sessions[x][s]
        PROVE  \/ /\ db.fact[x][s] # Nil /\ db.fact[x][s].disputed
                  /\ db.fact[x][s].generation = sessions[x][s]
               \/ Shadowed(x, s)'
    <3>0. s \in Sources
      BY ConfigurationAssumption
    <3>1. CASE db'.fact[x][s] = db.fact[x][s]
      BY <2>5, <3>1
    <3>2. CASE db'.fact[x][s] # db.fact[x][s]
      <4>1. x = c
        BY <1>5, <1>7, <3>2
      <4>2. PICK r \in b : r.source = s
        BY <1>5, <1>7, <3>0, <3>2, <4>1
      <4>3. Kept(db, c, r) /\ db'.fact[c][s] = AsFact(c, r)
        BY <1>5, <1>7, <3>2, <4>1, <4>2
      <4>4. r \in Reading /\ r.disputed /\ r.generation = sessions[c][s]
        BY <1>3, <2>5, <4>1, <4>3, AsFactIsReading
      <4>5. ~Conflicting(db, c, r) /\ ~Losing(db, c, r)
        BY <1>9, <2>5, <4>1, <4>2
      <4>6. CASE ~ChangedGeneration(c, r)
        <5>1. AlreadyDisputed(db, c, r)
          BY <4>3, <4>4, <4>5, <4>6 DEF Conflicting
        <5> QED
          BY <4>1, <4>2, <4>4, <5>1 DEF AlreadyDisputed
      <4>7. CASE ChangedGeneration(c, r)
        <5>1. r.clock \in (0 .. MaxBoots) \ {clock}
          BY <4>2, <4>4, <4>7 DEF ChangedGeneration, Reading
        <5>2. Loss(c, r) = <<c, s, sessions[c][s], r.clock, sessions[c][s]>>
          BY <4>2, <4>4 DEF Loss
        <5>3. Loss(c, r) \in db'.losses
          BY <2>4, <4>3, <4>5, <4>7 DEF Losing
        <5> QED
          BY <1>1, <4>1, <5>1, <5>2, <5>3 DEF Shadowed
      <4> QED
        BY <4>6, <4>7
    <3> QED
      BY <3>1, <3>2
  <2> QED
    BY <1>1, <1>9, <2>1, <2>2, <2>3, <2>4, <2>5, NoIncidentKept
<1>12. ASSUME NEW x \in Cells, NEW s \in Sources, db'.fact[x][s] # Nil PROVE Past(db.fact[x][s])'
  <2>1. Past(db'.fact[x][s])
    <3>1. CASE db'.fact[x][s] = db.fact[x][s]
      BY <1>0, <1>12, <3>1
    <3>2. CASE db'.fact[x][s] # db.fact[x][s]
      <4>1. x = c
        BY <1>5, <1>7, <3>2
      <4>2. PICK r \in b : r.source = s
        BY <1>5, <1>7, <3>2, <4>1
      <4>3. db'.fact[x][s] = AsFact(c, r)
        BY <1>5, <1>7, <3>2, <4>1, <4>2
      <4>4. Past(r) /\ r \in Reading
        BY <1>0, <1>3
      <4>5. AsFact(c, r).clock = r.clock /\ AsFact(c, r).at = r.at
        BY <4>4, AsFactIsReading
      <4> QED
        BY <4>3, <4>4, <4>5 DEF Past
    <3> QED
      BY <3>1, <3>2
  <2> QED
    BY <1>1, <2>1 DEF Past
<1>13. \A r \in sent' : Past(r)'
  BY <1>0, <1>1 DEF Past
<1>14. RunsOnLivingFacts' /\ RunOutlivesNoIncident'
  BY <1>10, <1>11 DEF RunsOnLivingFacts, RunOutlivesNoIncident, LivesOn, NoIncident
<1> QED
  BY <1>0, <1>1, <1>8, <1>12, <1>13, <1>14 DEF ObservationInv

-----------------------------------------------------------------------------
(* The theorems.                                                            *)

(* The platform starts with no reading, no fact and no run.                 *)
LEMMA ObservationInitially ==
    Init => ObservationInv
<1> SUFFICES ASSUME Init PROVE ObservationInv
  OBVIOUS
<1> USE ConfigurationAssumption
<1>1. /\ now = 0 /\ clock = 0 /\ lastCheck = 0 /\ sent = {}
      /\ generation = [s \in Sources |-> 0]
      /\ sessions = [c \in Cells |-> [s \in Sources |-> 0]]
      /\ begun = [c \in Cells |-> Nil]
  BY DEF Init
<1>2. /\ db.fact = [c \in Cells |-> [s \in Sources |-> Nil]]
      /\ db.evidence = [i \in 1 .. MaxReadings |-> Nil]
      /\ db.incidents = {} /\ db.losses = {}
      /\ db.run = [c \in Cells |-> "Prepared"]
      /\ db.blocks = [c \in Cells |-> {}] /\ db.epoch = [c \in Cells |-> 0]
      /\ db = [fact |-> db.fact, evidence |-> db.evidence, incidents |-> db.incidents,
               losses |-> db.losses, run |-> db.run, blocks |-> db.blocks, epoch |-> db.epoch]
  BY DEF Init
<1>3. db \in Store
  <2>1. /\ db.fact \in [Cells -> [Sources -> Reading \cup {Nil}]]
        /\ db.evidence \in [1 .. MaxReadings -> Reading \cup {Nil}]
        /\ db.run \in [Cells -> RunState] /\ db.blocks \in [Cells -> SUBSET Reasons]
        /\ db.epoch \in [Cells -> Nat]
    BY <1>2 DEF RunState
  <2> QED
    BY <1>2, <2>1 DEF Store, Reasons
<1>4. TypeOK
  BY <1>1, <1>2, <1>3 DEF TypeOK
<1>5. IsFiniteSet(sent)
  BY <1>1, FS_EmptySet
<1>6. \A c \in Cells, s \in Sources : db.fact[c][s] = Nil
  BY <1>2
<1>7. RunsOnLivingFacts /\ RunOutlivesNoIncident
  BY <1>2 DEF RunsOnLivingFacts, RunOutlivesNoIncident
<1> QED
  BY <1>1, <1>4, <1>5, <1>6, <1>7 DEF ObservationInv

(* Every step of the host, the engine, the watchdog and the operator keeps  *)
(* the inductive invariant.                                                 *)
LEMMA ObservationStep ==
    ObservationInv /\ [Next]_vars => ObservationInv'
<1> SUFFICES ASSUME ObservationInv, [Next]_vars PROVE ObservationInv'
  OBVIOUS
<1>1. CASE UNCHANGED vars
  <2>1. TypeOK /\ IsFiniteSet(sent) /\ \A r \in sent : Past(r)
    BY DEF ObservationInv
  <2>2. UNCHANGED <<now, clock, lastCheck, generation, sessions, sent, db, begun>>
    BY <1>1 DEF vars
  <2>3. TypeOK' /\ now <= now'
    BY <2>1, <2>2 DEF TypeOK
  <2>4. \A r \in sent' : Past(r)'
    BY <2>1, <2>2 DEF Past
  <2> QED
    BY <2>1, <2>2, <2>3, <2>4, QuietStepKeeps
<1>2. CASE \/ \E s \in Sources, k \in Kinds, u \in 0 .. MaxUncertainty : Acquire(s, k, u)
           \/ \E r \in sent : Contradict(r)
           \/ \E s \in Sources : DeviceRestart(s)
  BY <1>2, HostSteps
<1>3. CASE \E c \in Cells : \E b \in Batches(c) : Report(c, b)
  BY <1>3, ReportStep
<1>4. CASE CheckMaintained
  BY <1>4, WatchdogStep
<1>5. CASE Tick
  BY <1>5, TickStep
<1>6. CASE Restart
  BY <1>6, RestartStep
<1>7. CASE \E c \in Cells : RequestStart(c) \/ CommitStart(c) \/ Readmit(c)
  BY <1>7, RequestStep, CommitStep, ReadmitStep
<1> QED
  BY <1>1, <1>2, <1>3, <1>4, <1>5, <1>6, <1>7 DEF Next

(* Hence the invariant holds in every state of every behaviour.             *)
LEMMA ObservationAlways ==
    Spec => []ObservationInv
BY ObservationInitially, ObservationStep, PTL DEF Spec

(* Whatever is reported late, twice, out of order or not at all, and        *)
(* whatever restarts: an executing run's maintained condition passed, on    *)
(* fresh readings of the registered generation, since the watchdog last     *)
(* looked, or the run started since; and valid_until is the exact moment    *)
(* the condition expires.                                                   *)
THEOREM FactsAreAlwaysAlive ==
    Spec => []FactsAreAlive
<1>1. ObservationInv => FactsAreAlive
  <2> SUFFICES ASSUME ObservationInv PROVE FactsAreAlive
    OBVIOUS
  <2>0. /\ TypeOK /\ RunsOnLivingFacts
        /\ \A c \in Cells, s \in Sources : db.fact[c][s] # Nil => Past(db.fact[c][s])
    BY DEF ObservationInv
  <2>1. ASSUME NEW c \in Cells, Maintained[c] # {}, Passes(db, c, Maintained[c], now),
               NEW t \in now .. now + MaxAge + MaxUncertainty + 1
        PROVE  Passes(db, c, Maintained[c], t) <=> t <= Evaluate(db, c, Maintained[c], now).until
    <3>1. Maintained[c] \in Conditions
      <4>1. UNION Maintained[c] \subseteq Sources /\ {} \notin Maintained[c]
        BY ConfigurationAssumption
      <4> QED
        BY <2>1, <4>1 DEF Conditions
    <3>2. t \in Nat /\ now <= t
      BY <2>0, <2>1, ConfigurationAssumption DEF TypeOK
    <3> QED
      BY <2>0, <2>1, <3>1, <3>2, UntilIsExact
  <2>2. ValidUntilIsExact
    BY <2>1 DEF ValidUntilIsExact, Passes
  <2> QED
    BY <2>0, <2>2 DEF FactsAreAlive
<1> QED
  BY <1>1, ObservationAlways, PTL

(* No executing run outlives a contradiction, a lost generation or a new    *)
(* dispute of a source its cell lists, whichever cell it was reported for,  *)
(* and a cut that is reported again changes nothing.                        *)
THEOREM IncidentsAlwaysEndRuns ==
    Spec => []IncidentsEndRuns
<1>1. ObservationInv => IncidentsEndRuns
  <2> SUFFICES ASSUME ObservationInv PROVE IncidentsEndRuns
    OBVIOUS
  <2>0. TypeOK /\ IsFiniteSet(sent) /\ RunOutlivesNoIncident
    BY DEF ObservationInv
  <2>1. ASSUME NEW c \in Cells, NEW b \in Batches(c)
        PROVE  LET once == AcceptFacts(db, c, b) IN AcceptFacts(once, c, b) = once
    <3>1. /\ db \in Store /\ sent \subseteq Reading
          /\ sessions \in [Cells -> [Sources -> 0 .. MaxGeneration]]
      BY <2>0 DEF TypeOK
    <3>2. /\ b \in SUBSET sent /\ b \in SUBSET Reading /\ b # {} /\ Distinct(b)
          /\ \A r \in b : r.source \in Specs[c]
      BY <3>1 DEF Batches, Distinct
    <3>3. IsFiniteSet(b)
      BY <2>0, <3>2, FS_Subset
    <3> QED
      BY <3>1, <3>2, <3>3, AcceptedAgainIsIdle
  <2>2. RepeatedReportIsIdle
    BY <2>1 DEF RepeatedReportIsIdle
  <2> QED
    BY <2>0, <2>2 DEF IncidentsEndRuns
<1> QED
  BY <1>1, ObservationAlways, PTL
=============================================================================
