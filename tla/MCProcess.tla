----------------------------- MODULE MCProcess -----------------------------
(***************************************************************************)
(* What a visit decides on and what it is told, in two parts that share no *)
(* state; the initial state chooses one, and only that one moves.          *)
(*                                                                         *)
(* Visit: eight shapes of up to three operations, each with every          *)
(* assignment of two resources and several step orders, and two shapes of  *)
(* a wait and a branch for the checkpoints.                                *)
(* Journal: the evidence of one host that keeps its journal and of one     *)
(* that renumbers, repeats and contradicts itself; bodies about the work   *)
(* of each, and one about an operation the platform does not know.         *)
(***************************************************************************)
EXTENDS EvidenceJournal, TLC

CONSTANTS h1, h2, b1, b2, b3,
          Conditions, Timeout, MaxAge, MaxTime, MaxObservations, MaxProposals

VARIABLES process, runState, revision, part, activated, ops, branches, windows, waits,
          proposals, fact, now,
          moving              \* "visit" or "journal"

visitVars == <<process, runState, revision, part, activated, ops, branches, windows, waits,
               proposals, fact, now>>

Work == b1 :> h1 @@ b2 :> h2 @@ b3 :> Nil

\* A shape maps inner nodes to their kind and children.  a, b, c are
\* operations, w is a wait, x an intervention.
Leaf(n) == CASE n \in {"a", "b", "c"} -> "Operation"
             [] n = "w" -> "Wait"
             [] n = "x" -> "Intervention"

Inner(kind, kids) == [kind |-> kind, kids |-> kids]

Shape(inner, leaves, uses, step, pred) ==
    [root |-> "r",
     kind |-> [n \in DOMAIN inner \cup leaves |->
                  IF n \in leaves THEN Leaf(n) ELSE inner[n].kind],
     kids |-> [n \in DOMAIN inner \cup leaves |->
                  IF n \in leaves THEN <<>> ELSE inner[n].kids],
     uses |-> uses, step |-> step, pred |-> pred,
     cond |-> [n \in DOMAIN inner \cup leaves |-> "q"]]

R1(kind, kids)           == [r |-> Inner(kind, kids)]
R2(kind, kids, k2, kids2) == [r |-> Inner(kind, kids), s |-> Inner(k2, kids2)]
R3(kind, kids, k2, kids2, k3, kids3) ==
    [r |-> Inner(kind, kids), s |-> Inner(k2, kids2), t |-> Inner(k3, kids3)]

Three == {"a", "b", "c"}
Trees ==
    { <<R1("Sequence", <<"a", "b", "c">>), Three>>,
      <<R2("Sequence", <<"a", "s">>, "ParallelAll", <<"b", "c">>), Three>>,
      <<R2("Sequence", <<"s", "c">>, "ParallelAll", <<"a", "b">>), Three>>,
      <<R2("Sequence", <<"s", "c">>, "Branch", <<"a", "b">>), Three>>,
      <<R2("ParallelAll", <<"s", "c">>, "Sequence", <<"a", "b">>), Three>>,
      <<R3("Sequence", <<"s", "c">>, "ParallelAll", <<"t", "w">>,
           "Branch", <<"a", "b">>), Three \cup {"w"}>>,
      <<R3("ParallelAll", <<"s", "t">>, "Sequence", <<"a", "w">>,
           "Sequence", <<"b", "c">>), Three \cup {"w"}>>,
      <<R2("ParallelAll", <<"a", "s">>, "Sequence", <<"b", "x", "c">>), Three \cup {"x"}>> }

\* Each node its own step, or a and b two uses of one step.
Steps == { [a |-> "a", b |-> "b", c |-> "c"], [a |-> "a", b |-> "a", c |-> "c"] }

Orders == { [a |-> {}, b |-> {}, c |-> {}], [a |-> {}, b |-> {}, c |-> {"a"}],
            [a |-> {}, b |-> {"a"}, c |-> {}], [a |-> {}, b |-> {"a"}, c |-> {"a", "b"}] }

Uses == { [a |-> {"r1"}, b |-> {"r1"}, c |-> {"r1"}],
          [a |-> {"r1"}, b |-> {"r2"}, c |-> {"r1"}],
          [a |-> {"r1"}, b |-> {"r2"}, c |-> {"r2"}] }

Catalog == {Shape(t[1], t[2], u, s, o) : t \in Trees, u \in Uses, s \in Steps, o \in Orders}

\* Two decisions, one after the other and side by side.
Plain == [a |-> {"r1"}, b |-> {"r2"}, c |-> {"r1"}]
Own   == [a |-> "a", b |-> "b", c |-> "c"]
Free  == [a |-> {}, b |-> {}, c |-> {}]

Deciding ==
    { Shape(R2("Sequence", <<"w", "s">>, "Branch", <<"a", "b">>), {"w", "a", "b"},
            Plain, Own, Free),
      Shape(R2("ParallelAll", <<"w", "s">>, "Branch", <<"a", "b">>), {"w", "a", "b"},
            Plain, Own, Free) }

Offered == Catalog \cup Deciding

Visit == INSTANCE ProcessExecution WITH Processes <- Offered

ASSUME Visit!ProcessBounds

-----------------------------------------------------------------------------
\* A visit that does not move.
Resting == CHOOSE p \in Deciding : TRUE

PartsInit ==
    /\ Init /\ Visit!Init
    /\ moving \in {"visit", "journal"} /\ (moving = "journal" => process = Resting)

\* Bound: checkpoints are prepared beforehand, and facts change twice, only in
\* the two deciding processes, up to the first operation after the decisions.
Small ==
    \/ process \in Deciding /\ \A n \in Visit!Operations : ops[n] = Nil
    \/ proposals = {} /\ \A c \in Conditions : fact[c].id <= 1

PartsNext ==
    \/ moving = "visit" /\ Visit!Next /\ Small' /\ UNCHANGED <<vars, moving>>
    \/ moving = "journal" /\ Next /\ UNCHANGED <<visitVars, moving>>

\* No fair step of the journal is enabled in its initial state.
PartsSpec == PartsInit /\ [][PartsNext]_<<vars, visitVars, moving>> /\ Fairness

-----------------------------------------------------------------------------
(* What the planner and the review promise of every state of a visit: the   *)
(* plan agrees with the paths, a history the engine wrote is accepted, the  *)
(* reviewed order holds and what is next finds its resources free           *)
(* (evaluate, check_predecessors).                                          *)
ExecutionIsSound == Visit!ExecutionIsSound

(* Work starts only where the plan is open, and what a checkpoint decided   *)
(* was right when it became final and stays (submit_transition,             *)
(* commit_checkpoint).                                                      *)
StepsAreSound == Visit!StepsAreSound
=============================================================================
