--------------------------- MODULE ProcessFrontier ---------------------------
(***************************************************************************)
(* A compiled process and what may happen next in it: the structural       *)
(* validation, the order check of the process review and the planner that  *)
(* the platform and the executor share.                                    *)
(*                                                                         *)
(* Source: crates/rx-process-contract/src/{validation,frontier}.rs and     *)
(* check_predecessors of crates/rx-application/src/process_review.rs.      *)
(*                                                                         *)
(* A process is a tree given by                                            *)
(*   root, kind, kids   the node identities, their bodies, their children  *)
(*                      (of a Branch: when_true, then when_false),         *)
(*   uses               the resources of an operation node,                *)
(*   step               the cell step an operation's binding selects,      *)
(*   cond               the condition of a Branch or Wait,                 *)
(*   pred               the predecessors of every step in the configuration *)
(*                      that the review compares with.                     *)
(* Digests, size and depth limits and identities derived from the source   *)
(* are left out: a tree has one parent per node.                           *)
(***************************************************************************)
EXTENDS Operation, FiniteSetsExt, SequencesExt

CONSTANT Nil

NodesOf(p)     == DOMAIN p.kind
Kids(p, n)     == ToSet(p.kids[n])
OperationsOf(p) == {n \in NodesOf(p) : p.kind[n] = "Operation"}

\* n and everything under it.
Below(p) ==
    LET under[n \in NodesOf(p)] == {n} \cup UNION {under[c] : c \in Kids(p, n)}
    IN  under

-----------------------------------------------------------------------------
(* Validation and review.                                                   *)

ResourcesUnder(p, n) == UNION {p.uses[m] : m \in Below(p)[n] \cap OperationsOf(p)}

Validate(p) ==
    \A n \in NodesOf(p) :
        /\ p.kind[n] \in {"Sequence", "ParallelAll"} => p.kids[n] # <<>>
        /\ p.kind[n] = "ParallelAll" =>
              \A c, d \in Kids(p, n) :
                  c # d => ResourcesUnder(p, c) \cap ResourcesUnder(p, d) = {}

\* A slip for the mutation runs: what either side of a branch does counts as
\* done after it.
CheckPredecessorsUnion(p) ==
    LET check[n \in NodesOf(p), done \in SUBSET DOMAIN p.pred \cup {Nil}] ==
          CASE done = Nil -> Nil
            [] done # Nil /\ p.kind[n] = "Operation" ->
                  IF p.pred[p.step[n]] \subseteq done THEN done \cup {p.step[n]} ELSE Nil
            [] done # Nil /\ p.kind[n] = "Sequence" ->
                  FoldLeft(LAMBDA d, c : check[c, d], done, p.kids[n])
            [] done # Nil /\ p.kind[n] \in {"ParallelAll", "Branch"} ->
                  LET ends == {check[c, done] : c \in Kids(p, n)}
                  IN  IF Nil \in ends THEN Nil ELSE UNION ends
            [] OTHER -> done
    IN  check[p.root, {}]

\* The steps that are certainly done once the whole process is, or Nil when an
\* operation could start before a predecessor of its step.
CheckPredecessors(p) ==
    LET check[n \in NodesOf(p), done \in SUBSET DOMAIN p.pred \cup {Nil}] ==
          CASE done = Nil -> Nil
            [] done # Nil /\ p.kind[n] = "Operation" ->
                  IF p.pred[p.step[n]] \subseteq done THEN done \cup {p.step[n]} ELSE Nil
            [] done # Nil /\ p.kind[n] = "Sequence" ->
                  FoldLeft(LAMBDA d, c : check[c, d], done, p.kids[n])
            [] done # Nil /\ p.kind[n] = "ParallelAll" ->
                  LET ends == {check[c, done] : c \in Kids(p, n)}
                  IN  IF Nil \in ends THEN Nil ELSE UNION ends
            [] done # Nil /\ p.kind[n] = "Branch" ->
                  LET t == check[p.kids[n][1], done]
                      f == check[p.kids[n][2], done]
                  IN  IF Nil \in {t, f} THEN Nil ELSE t \cap f
            [] OTHER -> done
    IN  check[p.root, {}]

\* The review accepts no intervention node.
Reviewed(p) == /\ \A n \in NodesOf(p) : p.kind[n] # "Intervention"
               /\ CheckPredecessors(p) # Nil

\* A process of the provisioned configuration carries no predecessor lists.
Provisioned(p) == \A s \in DOMAIN p.pred : p.pred[s] = {}

-----------------------------------------------------------------------------
(* The planner.  A view v gives per node the operation (v.ops), the branch  *)
(* choice (v.branches) and the wait result (v.waits) that are stored, or    *)
(* Nil.  Clearances of interventions do not exist in the engine's views.    *)

InState(state) ==
    [state |-> state, operations |-> {}, decisions |-> {}, waits |-> {},
     handovers |-> {}, interventions |-> {}, pending |-> {}]

HasProgress(p, v, n) ==
    \E m \in Below(p)[n] : Nil # v.ops[m] \/ Nil # v.branches[m] \/ Nil # v.waits[m]

RequiresReconciliation(o) ==
    o.integrity = "Disputed" \/ o.outcome = "Unresolved" \/ o.knowledge = "Unknown"

OfOperation(v, n) ==
    LET o == v.ops[n]
    IN  CASE o = Nil -> [InState("Ready") EXCEPT !.operations = {n}]
          [] o # Nil /\ RequiresReconciliation(o) ->
                [InState("Blocked") EXCEPT !.pending = {n}]
          [] o # Nil /\ ~RequiresReconciliation(o) /\ o.outcome = "Succeeded" ->
                IF o.disposition = "Released" THEN InState("Completed")
                ELSE [InState("Running") EXCEPT !.handovers = {n}]
          [] o # Nil /\ ~RequiresReconciliation(o) /\ o.outcome = "None" ->
                [InState("Running") EXCEPT !.pending = {n}]
          [] OTHER -> InState("Failed")

\* F gives the frontiers of the children.
OfSequence(p, v, n, F) ==
    LET kids == p.kids[n]
        open == {i \in DOMAIN kids : F[kids[i]].state # "Completed"}
        crossed == \E j \in DOMAIN kids : j > Min(open) /\ HasProgress(p, v, kids[j])
    IN  IF open = {} THEN InState("Completed")
        ELSE IF crossed THEN InState("Error")
        ELSE F[kids[Min(open)]]

\* One child that failed or is blocked holds back everything new.
OfParallel(p, n, F) ==
    LET all     == {F[c] : c \in Kids(p, n)}
        blocked == \E r \in all : r.state = "Blocked"
        failed  == \E r \in all : r.state = "Failed"
        pending == UNION {r.pending : r \in all}
        new(S)  == IF blocked \/ failed THEN {} ELSE S
        ready   == UNION {r.operations : r \in all}
    IN  IF \E r \in all : r.state = "Error" THEN InState("Error")
        ELSE [state |-> CASE blocked \/ (failed /\ pending # {}) -> "Blocked"
                          [] ~blocked /\ failed /\ pending = {} -> "Failed"
                          [] ~blocked /\ ~failed /\ \A r \in all : r.state = "Completed" -> "Completed"
                          [] OTHER -> IF ready # {} THEN "Ready" ELSE "Running",
              operations |-> new(ready),
              decisions  |-> new(UNION {r.decisions : r \in all}),
              waits      |-> new(UNION {r.waits : r \in all}),
              handovers     |-> UNION {r.handovers : r \in all},
              interventions |-> UNION {r.interventions : r \in all},
              pending       |-> pending]

OfBranch(p, v, n, F) ==
    LET whenTrue  == p.kids[n][1]
        whenFalse == p.kids[n][2]
        choice    == v.branches[n]
        taken     == IF choice.chosen THEN whenTrue ELSE whenFalse
        left      == IF choice.chosen THEN whenFalse ELSE whenTrue
    IN  IF choice = Nil
          THEN IF HasProgress(p, v, whenTrue) \/ HasProgress(p, v, whenFalse)
                 THEN InState("Error")
                 ELSE [InState("Running") EXCEPT !.decisions = {n}]
          ELSE IF HasProgress(p, v, left) THEN InState("Error") ELSE F[taken]

OfWait(v, n) ==
    LET w == v.waits[n]
    IN  IF w = Nil THEN [InState("Running") EXCEPT !.waits = {n}]
        ELSE IF w.result = "Satisfied" THEN InState("Completed") ELSE InState("Failed")

Plan(p, v) ==
    LET eval[n \in NodesOf(p)] ==
          CASE p.kind[n] = "Operation"    -> OfOperation(v, n)
            [] p.kind[n] = "Sequence"     -> OfSequence(p, v, n, eval)
            [] p.kind[n] = "ParallelAll"  -> OfParallel(p, n, eval)
            [] p.kind[n] = "Branch"       -> OfBranch(p, v, n, eval)
            [] p.kind[n] = "Wait"         -> OfWait(v, n)
            [] p.kind[n] = "Intervention" ->
                  [InState("Blocked") EXCEPT !.interventions = {n}]
    IN  eval[p.root]
=============================================================================
