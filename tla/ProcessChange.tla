---------------------------- MODULE ProcessChange ----------------------------
(* A process change replaces, or revalidates, the configuration of a cell and  *)
(* of every cell its scopes, hosts and resources connect it to: proposed,      *)
(* reviewed for impact, staged, prepared (the cells are blocked and fenced)    *)
(* and later applied and qualified.  The connected cells move together, so     *)
(* they are one "group" here.  Proposing and staging check in one transaction, *)
(* let a verifier read the package outside, and commit in another.             *)
(* Applying and what hosts are told is ConfigurationDispatch.                  *)
EXTENDS Naturals, FiniteSets

CONSTANTS
    Changes,     \* identities of process changes
    Mode,        \* Mode[c] is "replace" or "revalidate"
    Target,      \* Target[c]: the configuration a replacement selects
    Start,       \* configuration of the group at the start
    Runs,        \* runs of the group's cells
    Hosts,       \* hosts of the group's cells
    None,
    MaxEpoch, MaxBoot, MaxGen, MaxRev, MaxAttempt    \* bounds of the instance

VARIABLES
    boot,        \* incarnation of the runtime
    group,       \* configuration, epoch, owners of latched blocks, selection
    change,      \* change[c]: the stored change, or None
    approved,    \* changes whose process review still is the approved one
    tickets,     \* preflights held outside while the package is verified
    run,         \* run[r]: the run and its configuration binding, or None
    fences       \* fences[h]: epochs of the fence messages host h has not answered

changeVars == <<boot, group, change, approved, tickets, run, fences>>

Configs == {Start} \cup {Target[c] : c \in Changes}
Attempts == [attempt : 1..MaxAttempt, boot : 1..MaxBoot, epoch : 1..MaxEpoch]

ChangeRecord ==
    [state : {"proposed", "reviewed", "staged", "applied", "qualified"},
     rev : 1..MaxRev, before : Configs, after : Configs, prep : Attempts \cup {None}]
RunRecord == [live : BOOLEAN, origin : Configs, bound : Configs \cup {None}]

ASSUME ChangeAssumption ==
    /\ Mode \in [Changes -> {"replace", "revalidate"}]
    /\ Hosts # {}
    /\ "restart" \notin Changes /\ None \notin Changes \cup Configs
    /\ None \notin Attempts /\ None \notin ChangeRecord /\ None \notin RunRecord
    /\ {MaxEpoch, MaxBoot, MaxGen, MaxRev, MaxAttempt} \subseteq Nat \ {0}

Applied(c) == change[c] # None /\ change[c].state \in {"applied", "qualified"}

Live(r) == run[r] # None /\ run[r].live

(* Any run may be a legacy one, stored before runs had a binding. *)
InitChange ==
    /\ boot = 1
    /\ group = [config |-> Start, epoch |-> 1, blocks |-> {}, selection |-> None]
    /\ change = [c \in Changes |-> None]
    /\ approved = Changes
    /\ tickets = {}
    /\ run \in [Runs -> {None, [live |-> TRUE, origin |-> Start, bound |-> None]}]
    /\ fences = [h \in Hosts |-> {}]

-----------------------------------------------------------------------------

(* An applied change that selected the live configuration already carries its  *)
(* qualification lineage.                                                      *)
RootAvailable(c, config) ==
    /\ group.config = config
    /\ \A d \in Changes \ {c} : Applied(d) => change[d].after # config

(* The review of c is the one it was proposed with, approved, and was made for *)
(* the configuration the cell has now.                                         *)
ReviewHolds(c, before) == c \in approved /\ group.config = before

Current(c) ==
    /\ ReviewHolds(c, change[c].before)
    /\ Mode[c] = "revalidate" => RootAvailable(c, change[c].before)

(* What a commit checks again of a ticket its verification returned.           *)
CheckPrepared(t) ==
    /\ t.boot = boot
    /\ ReviewHolds(t.change, t.before)
    /\ Mode[t.change] = "revalidate" => RootAvailable(t.change, t.before)

AtRevision(c, state, rev) ==
    change[c] # None /\ change[c].state = state /\ change[c].rev = rev

Recorded(c, state) == change' = [change EXCEPT ![c].state = state, ![c].rev = @ + 1]

Revise(c) == change[c] # None /\ change[c].rev < MaxRev

Preflight(c, action, rev) ==
    tickets' = tickets \cup
        {[change |-> c, action |-> action, rev |-> rev, boot |-> boot,
          before |-> group.config]}

(* Blocks the group on behalf of a change and revokes its authority: the epoch *)
(* moves and every host is owed a fence.                                       *)
Invalidated(g, owner) ==
    [g EXCEPT !.epoch = @ + 1, !.blocks = @ \cup {owner}]

FencesOwed == [h \in Hosts |-> fences[h] \cup {group.epoch + 1}]

-----------------------------------------------------------------------------
PrepareChange(c) ==
    /\ change[c] = None
    /\ c \in approved
    /\ Mode[c] = "revalidate" => RootAvailable(c, group.config)
    /\ Preflight(c, "propose", 0)
    /\ UNCHANGED <<boot, group, change, approved, run, fences>>

(* The configuration built from the verified package: a replacement differs    *)
(* from the reviewed one, a revalidation is exactly it.                        *)
Built(t) == IF Mode[t.change] = "replace" THEN Target[t.change] ELSE t.before
Buildable(t) == Mode[t.change] = "replace" => Built(t) # t.before

CommitChange(t) ==
    /\ t \in tickets /\ t.action = "propose"
    /\ Buildable(t)
    /\ change[t.change] = None
    /\ CheckPrepared(t)
    /\ change' = [change EXCEPT ![t.change] =
                    [state |-> "proposed", rev |-> 1, before |-> t.before,
                     after |-> Built(t), prep |-> None]]
    /\ tickets' = tickets \ {t}
    /\ UNCHANGED <<boot, group, approved, run, fences>>

(* A verifier other than the proposer accepts the impact, perhaps again.       *)
ReviewImpact(c) ==
    /\ Revise(c)
    /\ change[c].state \in {"proposed", "reviewed"}
    /\ Current(c)
    /\ Recorded(c, "reviewed")
    /\ UNCHANGED <<boot, group, approved, tickets, run, fences>>

PrepareStage(c) ==
    /\ change[c] # None
    /\ change[c].state = "reviewed"
    /\ Current(c)
    /\ Preflight(c, "stage", change[c].rev)
    /\ UNCHANGED <<boot, group, change, approved, run, fences>>

CommitStage(t) ==
    /\ t \in tickets /\ t.action = "stage"
    /\ AtRevision(t.change, "reviewed", t.rev)
    /\ Revise(t.change)
    /\ CheckPrepared(t)
    /\ Recorded(t.change, "staged")
    /\ tickets' = tickets \ {t}
    /\ UNCHANGED <<boot, group, approved, run, fences>>

(* The verification failed, took longer than the ticket lives, or its commit   *)
(* is refused.                                                                 *)
DropTicket(t) ==
    /\ t \in tickets
    /\ tickets' = tickets \ {t}
    /\ UNCHANGED <<boot, group, change, approved, run, fences>>

Exclusive(c) ==
    \A d \in Changes \ {c} :
        ~(change[d] # None /\ change[d].prep # None /\ change[d].state # "qualified")

(* The first preparation or a refresh of one that went stale.                  *)
BeginPreparation(c) ==
    /\ Revise(c)
    /\ change[c].state = "staged"
    /\ Current(c)
    /\ Exclusive(c)
    /\ group.epoch < MaxEpoch
    /\ LET attempt == IF change[c].prep = None THEN 1 ELSE change[c].prep.attempt + 1 IN
       /\ attempt <= MaxAttempt
       /\ change' = [change EXCEPT ![c].rev = @ + 1,
             ![c].prep = [attempt |-> attempt, boot |-> boot, epoch |-> group.epoch + 1]]
    /\ group' = Invalidated(group, c)
    /\ fences' = FencesOwed
    /\ UNCHANGED <<boot, approved, tickets, run>>

(* The requalification of an applied change lifts the blocks it owns and those *)
(* of a restart; another change's stay.                                        *)
Qualify(c) ==
    /\ Revise(c)
    /\ change[c].state = "applied"
    /\ group.config = change[c].after
    /\ \A r \in Runs : ~Live(r)
    /\ Recorded(c, "qualified")
    /\ group' = [group EXCEPT !.blocks = @ \ {c, "restart"}]
    /\ UNCHANGED <<boot, approved, tickets, run, fences>>

SuspendQualification(c) ==
    /\ Revise(c)
    /\ change[c].state = "qualified"
    /\ group.epoch < MaxEpoch
    /\ Recorded(c, "applied")
    /\ group' = Invalidated(group, c)
    /\ fences' = FencesOwed
    /\ UNCHANGED <<boot, approved, tickets, run>>

-----------------------------------------------------------------------------
(* A run starts only in an unblocked cell and keeps a reference to the         *)
(* configuration it was started under.                                         *)
StartRun(r) ==
    /\ run[r] = None
    /\ group.blocks = {}
    /\ run' = [run EXCEPT ![r] =
                 [live |-> TRUE, origin |-> group.config, bound |-> group.config]]
    /\ UNCHANGED <<boot, group, change, approved, tickets, fences>>

(* The run completes with its last part, or an operator abandons it.          *)
FinishRun(r) ==
    /\ Live(r)
    /\ run' = [run EXCEPT ![r].live = FALSE]
    /\ UNCHANGED <<boot, group, change, approved, tickets, fences>>

(* A run without a binding is given the configuration the cell has before the  *)
(* first replacement; a binding is never rewritten.                            *)
BindRun(r) ==
    IF run[r] # None /\ run[r].bound = None
    THEN [run[r] EXCEPT !.bound = group.config]
    ELSE run[r]

(* The configuration a run is read under; None: the store reports an integrity *)
(* failure.                                                                    *)
RunConfiguration(r) ==
    IF run[r].bound # None THEN run[r].bound
    ELSE IF group.selection # None THEN None
    ELSE group.config

WithdrawReview(c) ==
    /\ c \in approved
    /\ approved' = approved \ {c}
    /\ UNCHANGED <<boot, group, change, tickets, run, fences>>
=============================================================================
