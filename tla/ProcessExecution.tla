-------------------------- MODULE ProcessExecution --------------------------
(***************************************************************************)
(* One visit of a run through a compiled process: activation and           *)
(* submission of operations under the planner, branch and wait decisions   *)
(* taken at once or prepared first and committed later, and the end of the *)
(* part.                                                                   *)
(*                                                                         *)
(* Source: crates/rx-application/src/engine/{process,process_transition,   *)
(* checkpoint_change,workflow,dispatch,handover}.rs.                       *)
(*                                                                         *)
(* A run that loses its authority never executes again, and the same       *)
(* transaction saves it: its revision and state stand for session, boot,   *)
(* epoch and mandate.  Every call carries the revision it expects, so only *)
(* calls with the present revision appear.  A decision's identity is kept  *)
(* by its candidate and left out.  now is the platform's clock.            *)
(***************************************************************************)
EXTENDS ProcessFrontier

CONSTANTS Processes,        \* the processes offered to review or provisioning
          Conditions,
          Timeout,          \* of every wait
          MaxAge,           \* MAX_PROPOSAL_AGE_NS
          MaxTime, MaxObservations, MaxProposals

\* What the constants must satisfy.
ProcessBounds ==
    /\ {Timeout, MaxAge} \subseteq Nat \ {0}
    /\ {MaxTime, MaxObservations, MaxProposals} \subseteq Nat

VARIABLES process,     \* the installed process
          runState,    \* "Executing", "RecoveryRequired", "Completed"
          revision,    \* of the run row
          part,        \* "InProgress", "ConfirmedCompleted"
          activated,   \* nodes with an activation
          ops,         \* the operation of a node
          branches,    \* committed choices
          windows,     \* committed wait windows
          waits,       \* committed wait results
          proposals,   \* checkpoint candidates
          fact,        \* verdict of a condition and the evidence for it
          now

checkpointVars == <<branches, windows, waits>>
vars == <<process, runState, revision, part, activated, ops, checkpointVars,
          proposals, fact, now>>

Nodes      == NodesOf(process)
Operations == OperationsOf(process)
Waits      == {n \in Nodes : process.kind[n] = "Wait"}
Branches   == {n \in Nodes : process.kind[n] = "Branch"}
Verdicts   == {"Pass", "Fail", "Unknown"}

Init ==
    /\ process \in {p \in Processes : Validate(p) /\ (Reviewed(p) \/ Provisioned(p))}
    /\ runState = "Executing" /\ part = "InProgress" /\ revision = 1
    /\ activated = {} /\ proposals = {} /\ now = 0
    /\ ops = [n \in NodesOf(process) |-> Nil]
    /\ branches = [n \in NodesOf(process) |-> Nil]
    /\ windows = [n \in NodesOf(process) |-> Nil]
    /\ waits = [n \in NodesOf(process) |-> Nil]
    /\ fact = [c \in Conditions |-> [verdict |-> "Unknown", id |-> 0]]

\* process_view and the plan over it.
View     == [ops |-> ops, branches |-> branches, waits |-> waits]
Frontier == Plan(process, View)

ActiveRun == runState = "Executing"
SaveRun   == revision' = revision + 1

-----------------------------------------------------------------------------
(* Operations.                                                              *)

Eligible(n) == n \in Frontier.operations

ResolveActivation(n) ==
    /\ n \notin activated
    /\ ActiveRun /\ Eligible(n)
    /\ activated' = activated \cup {n}
    /\ SaveRun
    /\ UNCHANGED <<process, runState, part, ops, checkpointVars, proposals, fact, now>>

Submit(n) ==
    /\ n \in activated /\ ops[n] = Nil
    /\ ActiveRun /\ Eligible(n)
    /\ ops' = [ops EXCEPT ![n] = Admitted]
    /\ SaveRun
    /\ UNCHANGED <<process, runState, part, activated, checkpointVars, proposals,
                   fact, now>>

Submitted(n) == n \in Operations /\ ops[n] # Nil

\* The host's evidence, and the loss of it.  The run is not touched.
ChangeOperation(n, o) ==
    /\ ops' = [ops EXCEPT ![n] = o]
    /\ UNCHANGED <<process, runState, revision, part, activated, checkpointVars,
                   proposals, fact, now>>

ConcludeOperation(n, outcome) ==
    /\ Submitted(n) /\ ops[n].outcome = "None"
    /\ ChangeOperation(n, Conclude(ops[n], outcome, {"native"}))

NoteDeliveryAttention(n) ==
    /\ Submitted(n) /\ ops[n].outcome = "None" /\ ops[n].knowledge # "Unknown"
    /\ ChangeOperation(n, LoseContinuity(ops[n]))

\* Only under the authority the permit was issued for.
ReleaseResources(n) ==
    /\ ActiveRun
    /\ Submitted(n) /\ ops[n].disposition # "Released"
    /\ CanRelease(ops[n], {"handover"})
    /\ ChangeOperation(n, Release(ops[n], {"handover"}))

\* Open work of an invalidated cell: some never left, the rest is unknown, and
\* what still holds resources is quarantined.
Interrupted(o, unsent) ==
    IF o = Nil \/ o.disposition = "Released" THEN o
    ELSE Quarantine(IF o.outcome # "None" THEN o
                    ELSE IF unsent /\ o.knowledge = "NotSent"
                      THEN Conclude(o, "NotExecuted", {"void"})
                      ELSE LoseContinuity(o))

Revoke(work, unsent) ==
    /\ runState' = IF ActiveRun THEN "RecoveryRequired" ELSE runState
    /\ revision' = IF ActiveRun THEN revision + 1 ELSE revision
    /\ ops' = [n \in Nodes |-> Interrupted(work[n], n \in unsent)]
    /\ UNCHANGED <<process, part, activated, checkpointVars, proposals, fact, now>>

\* A stop, a restart, a pause or a hold.
Invalidate(unsent) == ActiveRun /\ Revoke(ops, unsent)

\* Evidence that contradicts the ledger, at any time.
DisputeOperation(n) ==
    /\ Submitted(n) /\ ops[n].integrity = "Valid"
    /\ Revoke([ops EXCEPT ![n] = Dispute(@)], {})

CompletePart ==
    /\ part = "InProgress" /\ ActiveRun
    /\ Frontier.state = "Completed"
    /\ part' = "ConfirmedCompleted" /\ runState' = "Completed"
    /\ SaveRun
    /\ UNCHANGED <<process, activated, ops, checkpointVars, proposals, fact, now>>

-----------------------------------------------------------------------------
(* Decisions.  New... is the decision that the present state gives, or Nil  *)
(* when there is none: it is already taken, it is not this node's turn, or  *)
(* the evidence does not say.  at is the time of preparation.               *)

NewBranch(n, at) ==
    LET f == fact[process.cond[n]]
    IN  IF branches[n] = Nil /\ n \in Frontier.decisions /\ f.verdict # "Unknown"
          THEN [chosen |-> f.verdict = "Pass", evidence |-> f.id, at |-> at]
          ELSE Nil

NewWindow(n, at) ==
    IF windows[n] = Nil /\ n \in Frontier.waits THEN [until |-> at + Timeout] ELSE Nil

NewWait(n, at) ==
    LET f == fact[process.cond[n]]
    IN  IF waits[n] # Nil \/ n \notin Frontier.waits \/ windows[n] = Nil THEN Nil
        ELSE IF now >= windows[n].until
          THEN [result |-> "TimedOut", evidence |-> 0, at |-> at]
        ELSE IF f.verdict = "Pass"
          THEN [result |-> "Satisfied", evidence |-> f.id, at |-> at]
        ELSE Nil

Targets == (Branches \X {"ChooseBranch"}) \cup (Waits \X {"StartWait", "CheckWait"})

Successor(t, at) ==
    CASE t[2] = "ChooseBranch" -> NewBranch(t[1], at)
      [] t[2] = "StartWait"    -> NewWindow(t[1], at)
      [] t[2] = "CheckWait"    -> NewWait(t[1], at)

\* save_checkpoint and the run.
Apply(t, d) ==
    /\ branches' = IF t[2] = "ChooseBranch" THEN [branches EXCEPT ![t[1]] = d] ELSE branches
    /\ windows' = IF t[2] = "StartWait" THEN [windows EXCEPT ![t[1]] = d] ELSE windows
    /\ waits' = IF t[2] = "CheckWait" THEN [waits EXCEPT ![t[1]] = d] ELSE waits
    /\ SaveRun
    /\ UNCHANGED <<process, runState, part, activated, ops, proposals, fact, now>>

\* Evaluated and made final in one transaction.
Decide(t) ==
    /\ ActiveRun
    /\ Successor(t, now) # Nil
    /\ Apply(t, Successor(t, now))

ChooseProcessBranch(n) == Decide(<<n, "ChooseBranch">>)
StartProcessWait(n)    == Decide(<<n, "StartWait">>)
CheckProcessWait(n)    == Decide(<<n, "CheckWait">>)

\* A slip for the mutation runs: the candidate is committed as it was prepared.
CommittableAsPrepared(q) ==
    /\ q.revision = revision
    /\ now < q.at + MaxAge
    /\ ActiveRun

\* A candidate is worth what the present state makes of it.
Committable(q) ==
    /\ q.revision = revision
    /\ now < q.at + MaxAge
    /\ ActiveRun
    /\ Successor(q.target, q.at) = q.decision

\* A candidate that still holds is handed out again.
PrepareCheckpoint(t) ==
    /\ Cardinality(proposals) < MaxProposals
    /\ ActiveRun
    /\ ~\E q \in proposals : q.target = t /\ Committable(q)
    /\ Successor(t, now) # Nil
    /\ proposals' = proposals \cup {[target |-> t, revision |-> revision, at |-> now,
                                     decision |-> Successor(t, now)]}
    /\ UNCHANGED <<process, runState, revision, part, activated, ops,
                   checkpointVars, fact, now>>

CommitCheckpoint(q) ==
    /\ Committable(q)
    /\ Apply(q.target, q.decision)

-----------------------------------------------------------------------------
(* Facts and time.                                                          *)

Observe(c, v) ==
    /\ fact[c].id < MaxObservations
    /\ fact' = [fact EXCEPT ![c] = [verdict |-> v, id |-> @.id + 1]]
    /\ UNCHANGED <<process, runState, revision, part, activated, ops,
                   checkpointVars, proposals, now>>

AgeOut(c) ==
    /\ fact[c].verdict # "Unknown"
    /\ fact' = [fact EXCEPT ![c].verdict = "Unknown"]
    /\ UNCHANGED <<process, runState, revision, part, activated, ops,
                   checkpointVars, proposals, now>>

\* MaxTime bounds the idle passing of time: an open window always runs out.
Tick ==
    /\ now < MaxTime \/ \E n \in Waits : windows[n] # Nil /\ now < windows[n].until
    /\ now' = now + 1
    /\ UNCHANGED <<process, runState, revision, part, activated, ops,
                   checkpointVars, proposals, fact>>

Results == {"Succeeded", "Failed"}

Next ==
    \/ \E n \in Operations :
          \/ ResolveActivation(n) \/ Submit(n)
          \/ \E x \in Results : ConcludeOperation(n, x)
          \/ NoteDeliveryAttention(n) \/ ReleaseResources(n) \/ DisputeOperation(n)
    \/ \E unsent \in SUBSET Operations : Invalidate(unsent)
    \/ CompletePart
    \/ \E n \in Branches : ChooseProcessBranch(n)
    \/ \E n \in Waits : StartProcessWait(n) \/ CheckProcessWait(n)
    \/ \E t \in Targets : PrepareCheckpoint(t)
    \/ \E q \in proposals : CommitCheckpoint(q)
    \/ \E c \in Conditions : AgeOut(c) \/ \E v \in Verdicts : Observe(c, v)
    \/ Tick

Spec == Init /\ [][Next]_vars

-----------------------------------------------------------------------------
(* A second definition of what may happen, by the path from the root to a   *)
(* node instead of by recursion over the tree.                              *)

Under(n)     == Below(process)[n]
Ancestors(n) == {a \in Nodes : a # n /\ n \in Under(a)}

\* A committed choice went the other way.
Skipped(n) ==
    \E b \in Ancestors(n) \cap Branches :
        /\ branches[b] # Nil
        /\ n \in Under(process.kids[b][IF branches[b].chosen THEN 2 ELSE 1])

Done(n) ==
    CASE process.kind[n] = "Operation" -> /\ Submitted(n)
                                          /\ ops[n].outcome = "Succeeded"
                                          /\ ops[n].integrity = "Valid"
                                          /\ ops[n].disposition = "Released"
      [] process.kind[n] = "Branch"    -> branches[n] # Nil
      [] process.kind[n] = "Wait"      -> waits[n] # Nil /\ waits[n].result = "Satisfied"
      [] process.kind[n] = "Intervention" -> FALSE
      [] OTHER -> TRUE

Finished(n) == \A m \in Under(n) : Skipped(m) \/ Done(m)

\* Control has come to n.
Reached(n) ==
    \A a \in Ancestors(n) :
        LET kids == process.kids[a]
            i    == CHOOSE i \in DOMAIN kids : n \in Under(kids[i])
        IN  /\ process.kind[a] = "Sequence" => \A j \in 1 .. i - 1 : Finished(kids[j])
            /\ process.kind[a] = "Branch" =>
                  branches[a] # Nil /\ i = (IF branches[a].chosen THEN 1 ELSE 2)

Stuck(n) ==
    /\ Reached(n)
    /\ \/ process.kind[n] = "Intervention"
       \/ process.kind[n] = "Wait" /\ waits[n] # Nil /\ waits[n].result = "TimedOut"
       \/ /\ Submitted(n)
          /\ \/ RequiresReconciliation(ops[n])
             \/ ops[n].outcome \notin {"None", "Succeeded"}

\* n is next, and nothing beside it in a parallel block is stuck.
Open(n) ==
    /\ Reached(n)
    /\ \A a \in Ancestors(n) :
          process.kind[a] = "ParallelAll" => ~\E m \in Under(a) : Stuck(m)

-----------------------------------------------------------------------------
(* Properties.                                                              *)

TypeOK ==
    /\ process \in Processes
    /\ runState \in {"Executing", "RecoveryRequired", "Completed"}
    /\ part \in {"InProgress", "ConfirmedCompleted"}
    /\ revision \in Nat \ {0} /\ now \in Nat
    /\ activated \subseteq Operations
    /\ \A n \in Nodes :
          /\ ops[n] \in OperationRecord({"native", "handover", "void"}) \cup {Nil}
          /\ branches[n] \in [chosen : BOOLEAN, evidence : 1 .. MaxObservations,
                              at : Nat] \cup {Nil}
          /\ windows[n] \in [until : Nat] \cup {Nil}
          /\ waits[n] \in [result : {"Satisfied", "TimedOut"},
                           evidence : 0 .. MaxObservations, at : Nat] \cup {Nil}
    /\ fact \in [Conditions -> [verdict : Verdicts, id : 0 .. MaxObservations]]
    /\ Cardinality(proposals) <= MaxProposals

\* The planner agrees with the path definition on every history the engine can
\* write: the same operations, decisions and waits are next, and the visit is
\* complete exactly when everything not skipped is done (evaluate).
PlanIsReference ==
    Frontier.state # "Error" =>
        /\ Frontier.operations = {n \in Operations : Open(n) /\ ops[n] = Nil}
        /\ Frontier.decisions = {n \in Branches : Open(n) /\ branches[n] = Nil}
        /\ Frontier.waits = {n \in Waits : Open(n) /\ waits[n] = Nil}
        /\ (Frontier.state = "Completed") = Finished(process.root)

\* The planner refuses a history, with which the run could neither go on nor be
\* read, only when a finished operation was disputed afterwards: no order of
\* activations, submissions and decisions produces one by itself.
HistoryIsAccepted ==
    Frontier.state = "Error" =>
        \E n \in Operations : Submitted(n) /\ ops[n].integrity = "Disputed"

\* Installing a reviewed process clears the predecessor lists of its steps, so
\* check_predecessors is all that keeps their order: no operation is ever
\* submitted before its step's predecessors succeeded, whichever branches are
\* taken and however parallel children interleave.
ReviewedOrderHolds ==
    Reviewed(process) =>
        \A n \in Operations : Submitted(n) =>
            \A s \in process.pred[process.step[n]] :
                \E m \in Operations : /\ process.step[m] = s
                                      /\ Submitted(m) /\ ops[m].outcome = "Succeeded"

\* The resources of an operation that is next are free of the rest of the
\* visit: what validation demands of parallel children, and the handover before
\* a sequence goes on, suffice, so the visit cannot wait for itself.
NextIsFree ==
    \A n \in Frontier.operations, m \in Operations :
        Submitted(m) /\ ops[m].disposition # "Released" =>
            process.uses[n] \cap process.uses[m] = {}

\* An operation is submitted only while it is next, although it was activated
\* earlier and a parallel sibling may have failed in between (eligible_node is
\* asked again in submit_transition).
SubmitsOnlyOpen ==
    \A n \in Operations : ops[n] = Nil /\ ops'[n] # Nil => Open(n)

\* A committed choice, wait window or wait result is never replaced: not by a
\* second candidate, not by a direct request, not when facts change.
CheckpointsStand ==
    \A n \in Nodes : /\ branches[n] # Nil => branches'[n] = branches[n]
                     /\ windows[n] # Nil => windows'[n] = windows[n]
                     /\ waits[n] # Nil => waits'[n] = waits[n]

\* A choice follows the evidence at the moment it becomes final, although it was
\* prepared earlier (validate_successor derives it again).
ChoiceIsCurrent ==
    \A n \in Branches :
       branches'[n] # branches[n] =>
           LET f == fact[process.cond[n]]
           IN  /\ branches'[n].chosen = (f.verdict = "Pass")
               /\ f.verdict # "Unknown" /\ branches'[n].evidence = f.id

\* A wait is satisfied only before its deadline and timed out only after it,
\* by the clock at the moment the result becomes final.
WaitEndsInTime ==
    \A n \in Waits :
       waits'[n] # waits[n] =>
           (waits'[n].result = "Satisfied") = (now < windows[n].until)

\* What the planner and the review promise of every state of a visit.
ExecutionIsSound ==
    TypeOK /\ PlanIsReference /\ HistoryIsAccepted /\ ReviewedOrderHolds /\ NextIsFree

\* What the engine promises of every step of a visit: work starts only where the
\* plan is open, and what a checkpoint decided was right when it became final and
\* stays (submit_transition, commit_checkpoint).
StepsAreSound ==
    [][SubmitsOnlyOpen /\ CheckpointsStand /\ ChoiceIsCurrent /\ WaitEndsInTime]_vars
=============================================================================
