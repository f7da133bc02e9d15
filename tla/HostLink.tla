------------------------------ MODULE HostLink ------------------------------
(***************************************************************************)
(* Linking one equipment host to its cells: a plan is prepared in one      *)
(* transaction, the host is fenced and grants its resources, the link is   *)
(* committed in another; the grant is renewed; a replaced generation (boot *)
(* or session) of the host needs an approved re-admission.                 *)
(*                                                                         *)
(* Source: crates/rx-application/src/engine/{host_link,host_readmission,   *)
(* producer}.rs and crates/rx-host-client/src/connection.rs.  Times are    *)
(* the ticks that are left.  Both journals of the host are one identity;   *)
(* binding changes and the bootstrap provenance are left out.              *)
(***************************************************************************)
EXTENDS Naturals, FiniteSets, FiniteSetsExt

CONSTANTS
    LinkedCells,
    Resources,
    ResOf,          \* [Cells -> SUBSET Resources]: resources of the host's steps in a cell
    Unset,
    PlanTTL,        \* ticks a plan may be committed (100 ms in the code)
    TTL,            \* ticks of a grant (ttl_ms, 30 s at most)
    MaxBoot, MaxJournal, MaxRuntimeBoot, MaxSessions, \* bounds on what is replaced
    MaxCellEpoch,   \* bound: epochs of a cell
    MaxFence,       \* bound: fences, and so plans
    MaxApprovals    \* bound: re-admissions approved

(* The shapes of what is stored, and of what the host and its client keep.    *)
Fences == 0..MaxFence
Ticks == 0..TTL
Generations == [boot : Nat, journal : Nat, session : Nat]
Equipment == [boot : Nat, journal : Nat, fence : [Resources -> Fences],
              epoch : [LinkedCells -> Nat]]
Grants == [cell : LinkedCells, fence : Fences, left : Ticks]
GrantRequests == [cell : LinkedCells, boot : Nat, fence : Fences]
Plans == [gen : Generations, runtime : Nat, epoch : Nat, revision : Nat, fence : Fences,
          left : Nat, grant : Ticks, bound : BOOLEAN, readmission : Nat]
Registrations == [boot : Nat, journal : Nat, session : Nat, epoch : Nat, fence : Fences,
                  left : Ticks]
Renewals == [left : Ticks, completed : BOOLEAN]
Approvals == [id : Nat, gen : Generations, cells : SUBSET LinkedCells,
              open : SUBSET LinkedCells]
Clients == [phase : {"idle", "read", "planned", "fenced", "granted", "bound", "renewing",
                     "renewed"},
            snapshot : Equipment \cup {Unset}]

\* What the constants must satisfy.
ASSUME LinkConstants ==
    /\ ResOf \in [LinkedCells -> SUBSET Resources]
    /\ PlanTTL \in Nat \ {0} /\ TTL \in Nat \ {0} /\ MaxFence \in Nat
    /\ Unset \notin Equipment /\ Unset \notin Grants /\ Unset \notin Plans
    /\ Unset \notin Registrations /\ Unset \notin Renewals /\ Unset \notin Approvals
    /\ Unset \notin Generations

VARIABLES
    equipment,  \* external: boot, journal, fence of each resource, epoch of each cell
    granted,    \* external: [Resources -> Unset or cell, fence, left]
    late,       \* grant requests the client gave up and the host may still receive
    boots,      \* boots of the platform
    evidence,   \* the host's evidence producer: boot, journal, session, runtime
    sessions,   \* producer sessions opened
    cell,       \* [Cells -> epoch, revision, blocked, executing]
    sent,       \* [Cells -> Unset or the generation whose sent work is not settled]
    stored,     \* [Resources -> fence]: host-link-fence
    plan,       \* [Cells -> Unset or the current plan]: host-link-current
    registration, \* [Cells -> Unset or HostRegistration]
    history,    \* [Cells -> set of generations that were replaced]
    renewal,    \* [Cells -> Unset or the renewal of the current plan]
    approval,   \* Unset or the last re-admission: id, generation, cells consumed
    link        \* [Cells -> phase of the client, snapshot it read]

records == <<boots, evidence, sessions, cell, sent, stored, plan, registration, history,
              renewal, approval>>
linkVars == <<equipment, granted, late, records, link>>

Idle == [phase |-> "idle", snapshot |-> Unset]

LinkInit ==
    /\ equipment = [boot |-> 1, journal |-> 1, fence |-> [r \in Resources |-> 0],
               epoch |-> [c \in LinkedCells |-> 1]]
    /\ granted = [r \in Resources |-> Unset] /\ late = {}
    /\ boots = 1 /\ sessions = 1
    /\ evidence = [boot |-> 1, journal |-> 1, session |-> 1, runtime |-> 1]
    /\ cell = [c \in LinkedCells |-> [epoch |-> 1, revision |-> 1, blocked |-> FALSE,
                                executing |-> FALSE]]
    /\ sent = [c \in LinkedCells |-> Unset]
    /\ stored = [r \in Resources |-> 0]
    /\ plan = [c \in LinkedCells |-> Unset]
    /\ registration = [c \in LinkedCells |-> Unset]
    /\ history = [c \in LinkedCells |-> {}]
    /\ renewal = [c \in LinkedCells |-> Unset]
    /\ approval = Unset
    /\ link = [c \in LinkedCells |-> Idle]

-----------------------------------------------------------------------------
(* The generations of the host.                                            *)
GenOf(x) == [boot |-> x.boot, journal |-> x.journal, session |-> x.session]

Generation == GenOf(evidence)

Registered == {c \in LinkedCells : registration[c] # Unset}

\* The producer's session is of this runtime.
LiveSession == evidence.runtime = boots

SessionRetired(s) == s # evidence.session \/ ~LiveSession

\* The approval that is current: not yet consumed by every cell it names.
ApprovalCurrent == approval # Unset /\ approval.open # {}

\* The approval replaces the registration of c by generation g.
Covers(c, g) ==
    /\ ApprovalCurrent /\ c \in approval.open
    /\ GenOf(registration[c]) = approval.gen
    /\ g.boot # approval.gen.boot \/ SessionRetired(registration[c].session)
    /\ g.journal = approval.gen.journal

GenerationIdle(cs) == \A c \in cs : ~cell[c].executing /\ sent[c] = Unset

Alive(c) == registration[c] # Unset /\ registration[c].left > 0

\* The registration of c lets generation g link: covered by the approval,
\* or the same generation.
Replaces(c, g) == GenOf(registration[c]) # g /\ Covers(c, g)
Continues(c, g) == GenOf(registration[c]) = g

\* No registration of the host contradicts the generation that links.
ContinuityProven(g) == \A c \in Registered : Replaces(c, g) \/ Continues(c, g)

\* No grant of this boot that the platform still counts on overlaps.
GrantsLapsed(c, g) ==
    \A d \in Registered :
        Alive(d) /\ registration[d].boot = g.boot => d # c /\ ResOf[d] \cap ResOf[c] = {}

MaxOf(S) == IF S = {} THEN 0 ELSE Max(S)

NextFence(c, s) ==
    MaxOf({s.fence[r] : r \in ResOf[c]} \cup {stored[r] : r \in ResOf[c]}) + 1

-----------------------------------------------------------------------------
(* The client reads the host, then asks the platform for a plan.           *)
ReadBootstrap(c) ==
    /\ link[c].phase = "idle" /\ LiveSession
    /\ link' = [link EXCEPT ![c] = [phase |-> "read", snapshot |-> equipment]]
    /\ UNCHANGED <<equipment, granted, late, records>>

\* The producer on record speaks for the boot and storage that were read,
\* and the host is not ahead of the cell.
Presented(c, s) ==
    /\ evidence.boot = s.boot /\ evidence.journal = s.journal
    /\ s.epoch[c] <= cell[c].epoch

\* The current plan still stands: it is handed out again, bound or not.
ReusePlan(c) ==
    LET s == link[c].snapshot IN
    /\ link[c].phase = "read" /\ LiveSession /\ Presented(c, s)
    /\ plan[c] # Unset /\ plan[c].left > 0
    /\ plan[c].gen = Generation /\ plan[c].epoch = cell[c].epoch
    /\ plan[c].runtime = boots
    /\ link' = [link EXCEPT ![c] =
           [phase |-> IF plan[c].bound THEN "bound" ELSE "planned", snapshot |-> Unset]]
    /\ UNCHANGED <<equipment, granted, late, records>>

\* Work of the cells an approval names must be settled before it is used.
IdleForReadmission == GenerationIdle(approval.cells)

\* A new plan: its fence overtakes every earlier plan on these resources.
PrepareHostLink(c) ==
    LET s == link[c].snapshot
        g == [Generation EXCEPT !.boot = s.boot, !.journal = s.journal]
        f == NextFence(c, s)
        replaced == c \in Registered /\ Replaces(c, g)
    IN
    /\ link[c].phase = "read" /\ LiveSession /\ Presented(c, s)
    /\ plan[c] # Unset /\ plan[c].gen.boot = g.boot => plan[c].gen.journal = g.journal
    /\ ContinuityProven(g) /\ GrantsLapsed(c, g)
    /\ replaced => IdleForReadmission
    /\ ~cell[c].executing
    /\ f <= MaxFence
    /\ stored' = [r \in Resources |-> IF r \in ResOf[c] THEN f ELSE stored[r]]
    /\ plan' = [plan EXCEPT ![c] =
           [gen |-> g, runtime |-> boots, epoch |-> cell[c].epoch,
            revision |-> cell[c].revision, fence |-> f, left |-> PlanTTL,
            grant |-> TTL, bound |-> FALSE,
            readmission |-> IF replaced THEN approval.id ELSE 0]]
    /\ renewal' = [renewal EXCEPT ![c] = Unset]
    /\ link' = [link EXCEPT ![c] = [phase |-> "planned", snapshot |-> Unset]]
    /\ UNCHANGED <<equipment, granted, late, boots, evidence, sessions, cell, sent, registration,
                   history, approval>>

\* The host (external) takes the fence of the plan: it refuses a lower
\* epoch, and keeps the epoch across restarts.
HostTakesFence(c) ==
    /\ link[c].phase = "planned"
    /\ equipment.boot = plan[c].gen.boot /\ plan[c].epoch >= equipment.epoch[c]
    /\ equipment' = [equipment EXCEPT !.epoch[c] = plan[c].epoch]
    /\ link' = [link EXCEPT ![c].phase = "fenced"]
    /\ UNCHANGED <<granted, late, records>>

\* The host (external) grants a set of resources to the highest fence; a
\* repeated request changes nothing.
Grantable(c, f) ==
    \A r \in ResOf[c] : equipment.fence[r] < f

Grant(c, f) ==
    /\ equipment' = [equipment EXCEPT !.fence =
           [r \in Resources |-> IF r \in ResOf[c] THEN f ELSE @[r]]]
    /\ granted' = [r \in Resources |->
           IF r \in ResOf[c] THEN [cell |-> c, fence |-> f, left |-> TTL] ELSE granted[r]]

Holds(c, f) ==
    \A r \in ResOf[c] : granted[r] # Unset /\ granted[r].fence = f /\ granted[r].left > 0

HostGrants(c) ==
    LET f == plan[c].fence IN
    /\ link[c].phase = "fenced" /\ equipment.boot = plan[c].gen.boot
    /\ \/ Grantable(c, f) /\ Grant(c, f)
       \/ Holds(c, f) /\ UNCHANGED <<equipment, granted>>
    /\ link' = [link EXCEPT ![c].phase = "granted"]
    /\ UNCHANGED <<late, records>>

HostGrantsLate(m) ==
    /\ m \in late /\ late' = late \ {m}
    /\ m.boot = equipment.boot /\ Grantable(m.cell, m.fence)
    /\ Grant(m.cell, m.fence)
    /\ UNCHANGED <<records, link>>

\* A slip for the mutation runs: the fence is not looked at again.
FenceIsCurrentAlways(c) == TRUE

\* No later plan was prepared on one of these resources.
FenceIsCurrent(c) == \A r \in ResOf[c] : stored[r] = plan[c].fence

CellUnchanged(c) == cell[c].epoch = plan[c].epoch /\ cell[c].revision = plan[c].revision

\* The registration the plan would replace may be replaced now.
Admitted(c) ==
    \/ registration[c] = Unset /\ plan[c].readmission = 0
    \/ registration[c] # Unset /\ Continues(c, plan[c].gen)
    \/ /\ registration[c] # Unset /\ plan[c].readmission # 0
       /\ Covers(c, plan[c].gen) /\ approval.id = plan[c].readmission

\* The grant is counted from the time the plan was prepared, which was
\* before the host was asked.
Conservative(c) == plan[c].grant

CommitHostLink(c) ==
    LET replaced == registration[c] # Unset /\ ~Continues(c, plan[c].gen) IN
    /\ link[c].phase = "granted" /\ LiveSession
    /\ ~plan[c].bound /\ plan[c].gen = Generation
    /\ plan[c].left > 0 /\ CellUnchanged(c) /\ FenceIsCurrent(c)
    /\ plan[c].grant > 0 /\ Admitted(c)
    /\ registration' = [registration EXCEPT ![c] =
           [boot |-> plan[c].gen.boot, journal |-> plan[c].gen.journal,
            session |-> plan[c].gen.session, epoch |-> plan[c].epoch,
            fence |-> plan[c].fence, left |-> Conservative(c)]]
    /\ history' = IF replaced THEN [history EXCEPT ![c] = @ \cup {GenOf(registration[c])}]
                              ELSE history
    /\ approval' = IF replaced THEN [approval EXCEPT !.open = @ \ {c}] ELSE approval
    /\ plan' = [plan EXCEPT ![c].bound = TRUE, ![c].left = Conservative(c)]
    /\ link' = [link EXCEPT ![c].phase = "bound"]
    /\ UNCHANGED <<equipment, granted, late, boots, evidence, sessions, cell, sent, stored,
                   renewal>>

\* The client gives up and starts again; a request on its way stays there.
\* A bound link is left only for a replaced producer session (any other
\* failure of its workers ends the platform process).
Abandon(c) ==
    /\ link[c].phase # "idle"
    /\ link[c].phase \in {"bound", "renewing", "renewed"} =>
           plan[c].gen.session # evidence.session
    /\ late' = IF link[c].phase = "fenced"
                 THEN late \cup {[cell |-> c, boot |-> plan[c].gen.boot, fence |-> plan[c].fence]}
                 ELSE late
    /\ link' = [link EXCEPT ![c] = Idle]
    /\ UNCHANGED <<equipment, granted, records>>

-----------------------------------------------------------------------------
(* Renewal of a bound link, by the client that holds it.                   *)
RenewalContext(c) ==
    /\ LiveSession /\ plan[c].bound /\ plan[c].gen = Generation
    /\ GenOf(registration[c]) = plan[c].gen /\ registration[c].fence = plan[c].fence
    /\ registration[c].epoch = cell[c].epoch

\* An unfinished renewal is handed out again with the time of its first try.
PrepareHostRenewal(c) ==
    /\ link[c].phase = "bound" /\ RenewalContext(c)
    /\ \/ /\ renewal[c] # Unset /\ ~renewal[c].completed
          /\ UNCHANGED renewal
       \/ /\ (renewal[c] # Unset => renewal[c].completed)
          /\ registration[c].left > 0 /\ registration[c].left * 2 <= TTL
          /\ renewal' = [renewal EXCEPT ![c] = [left |-> TTL, completed |-> FALSE]]
    /\ link' = [link EXCEPT ![c].phase = "renewing"]
    /\ UNCHANGED <<equipment, granted, late, boots, evidence, sessions, cell, sent, stored,
                   plan, registration, history, approval>>

\* The host (external) prolongs a grant it still holds.
HostRenews(c) ==
    /\ link[c].phase = "renewing"
    /\ equipment.boot = plan[c].gen.boot /\ Holds(c, plan[c].fence)
    /\ granted' = [r \in Resources |->
           IF r \in ResOf[c] THEN [granted[r] EXCEPT !.left = TTL] ELSE granted[r]]
    /\ link' = [link EXCEPT ![c].phase = "renewed"]
    /\ UNCHANGED <<equipment, late, records>>

CommitHostRenewal(c) ==
    /\ link[c].phase = "renewed" /\ RenewalContext(c)
    /\ renewal[c] # Unset /\ ~renewal[c].completed /\ renewal[c].left > 0
    /\ registration' = [registration EXCEPT ![c].left = renewal[c].left]
    /\ plan' = [plan EXCEPT ![c].left = renewal[c].left]
    /\ renewal' = [renewal EXCEPT ![c].completed = TRUE]
    /\ link' = [link EXCEPT ![c].phase = "bound"]
    /\ UNCHANGED <<equipment, granted, late, boots, evidence, sessions, cell, sent, stored,
                   history, approval>>

\* A renewal that fails leaves the client with the link it had.
RenewalFails(c) ==
    /\ link[c].phase \in {"renewing", "renewed"}
    /\ link' = [link EXCEPT ![c].phase = "bound"]
    /\ UNCHANGED <<equipment, granted, late, records>>

\* The host acknowledges the fence of a later epoch; the registration of
\* the generation that answered follows, its grant is not prolonged.
FinishFenceDelivery(c) ==
    /\ c \in Registered /\ registration[c].epoch < cell[c].epoch
    /\ equipment.boot = registration[c].boot /\ GenOf(registration[c]) = Generation /\ LiveSession
    /\ equipment' = [equipment EXCEPT !.epoch[c] = cell[c].epoch]
    /\ registration' = [registration EXCEPT ![c].epoch = cell[c].epoch]
    /\ UNCHANGED <<granted, late, boots, evidence, sessions, cell, sent, stored, plan,
                   history, renewal, approval, link>>

-----------------------------------------------------------------------------
(* What replaces generations: the host restarts or loses its disk, the     *)
(* platform restarts, the producer reconnects, a person approves.          *)
HostBoots(j) ==
    /\ equipment.boot < MaxBoot /\ j <= MaxJournal
    /\ j \in {equipment.journal, equipment.journal + 1}
    /\ equipment' = [equipment EXCEPT !.boot = @ + 1, !.journal = j]
    /\ granted' = [r \in Resources |-> Unset]
    /\ UNCHANGED <<late, records, link>>

Blocked(cs) ==
    [c \in LinkedCells |-> IF c \in cs /\ cell[c].epoch < MaxCellEpoch
        THEN [epoch |-> cell[c].epoch + 1, revision |-> cell[c].revision + 1,
              blocked |-> TRUE, executing |-> FALSE]
        ELSE cell[c]]

RuntimeRestarts ==
    /\ boots < MaxRuntimeBoot /\ \A c \in LinkedCells : cell[c].epoch < MaxCellEpoch
    /\ boots' = boots + 1
    /\ cell' = Blocked(LinkedCells)
    /\ link' = [c \in LinkedCells |-> Idle]
    /\ UNCHANGED <<equipment, granted, late, evidence, sessions, sent, stored, plan, registration,
                   history, renewal, approval>>

\* A reconnect of the boot on record in the first platform boot after it keeps
\* the blocks that restart left; any other new session blocks the host's cells.
OpenEvidenceProducer ==
    LET same == equipment.boot = evidence.boot /\ equipment.journal = evidence.journal
        runtimeOnly == same /\ evidence.runtime = boots - 1
    IN
    /\ ~same \/ ~LiveSession
    /\ sessions < MaxSessions
    /\ \A c \in Registered : cell[c].epoch < MaxCellEpoch
    /\ sessions' = sessions + 1
    /\ evidence' = [boot |-> equipment.boot, journal |-> equipment.journal,
                    session |-> sessions + 1, runtime |-> boots]
    /\ cell' = IF runtimeOnly THEN cell ELSE Blocked(Registered)
    /\ UNCHANGED <<equipment, granted, late, boots, sent, stored, plan, registration, history,
                   renewal, approval, link>>

\* The cell is revoked for any other reason (the bound keeps epochs for the
\* sessions and restarts still to come).
InvalidateCell(c) ==
    /\ cell[c].epoch + (MaxSessions - sessions) + (MaxRuntimeBoot - boots) < MaxCellEpoch
    /\ cell' = Blocked({c})
    /\ UNCHANGED <<equipment, granted, late, boots, evidence, sessions, sent, stored, plan,
                   registration, history, renewal, approval, link>>

\* Blocks are lifted once the host of the cell was linked again.
Requalify(c) ==
    /\ cell[c].blocked /\ c \in Registered /\ GenOf(registration[c]) = Generation /\ LiveSession
    /\ cell' = [cell EXCEPT ![c].blocked = FALSE, ![c].revision = @ + 1]
    /\ UNCHANGED <<equipment, granted, late, boots, evidence, sessions, sent, stored, plan,
                   registration, history, renewal, approval, link>>

\* A run executes and sends work to the registered generation.
SendWork(c) ==
    /\ Alive(c) /\ ~cell[c].blocked /\ registration[c].epoch = cell[c].epoch
    /\ GenOf(registration[c]) = Generation /\ LiveSession
    /\ sent[c] = Unset
    /\ sent' = [sent EXCEPT ![c] = GenOf(registration[c])]
    /\ cell' = [cell EXCEPT ![c].executing = TRUE]
    /\ UNCHANGED <<equipment, granted, late, boots, evidence, sessions, stored, plan, registration,
                   history, renewal, approval, link>>

SettleWork(c) ==
    /\ sent[c] # Unset
    /\ sent' = [sent EXCEPT ![c] = Unset]
    /\ cell' = [cell EXCEPT ![c].executing = FALSE]
    /\ UNCHANGED <<equipment, granted, late, boots, evidence, sessions, stored, plan, registration,
                   history, renewal, approval, link>>

ApproveHostReadmission ==
    /\ Registered # {} /\ ~ApprovalCurrent
    /\ \A c, d \in Registered : GenOf(registration[c]) = GenOf(registration[d])
    /\ \A c \in Registered : plan[c].bound /\ plan[c].gen.boot = registration[c].boot
    /\ GenerationIdle(Registered)
    /\ approval # Unset => approval.id < MaxApprovals
    /\ approval' = [id |-> IF approval = Unset THEN 1 ELSE approval.id + 1,
                    gen |-> GenOf(registration[CHOOSE c \in Registered : TRUE]),
                    cells |-> Registered, open |-> Registered]
    /\ UNCHANGED <<equipment, granted, late, boots, evidence, sessions, cell, sent, stored,
                   plan, registration, history, renewal, link>>

Less(n) == IF n = 0 THEN 0 ELSE n - 1

\* Time passes; a snapshot that was read is then too old to be used.
Tick ==
    /\ granted' = [r \in Resources |->
           IF granted[r] = Unset THEN Unset ELSE [granted[r] EXCEPT !.left = Less(@)]]
    /\ plan' = [c \in LinkedCells |-> IF plan[c] = Unset THEN Unset
           ELSE [plan[c] EXCEPT !.left = Less(@), !.grant = Less(@)]]
    /\ registration' = [c \in LinkedCells |-> IF registration[c] = Unset THEN Unset
           ELSE [registration[c] EXCEPT !.left = Less(@)]]
    /\ renewal' = [c \in LinkedCells |-> IF renewal[c] = Unset THEN Unset
           ELSE [renewal[c] EXCEPT !.left = Less(@)]]
    /\ link' = [c \in LinkedCells |-> IF link[c].phase = "read" THEN Idle ELSE link[c]]
    /\ UNCHANGED <<equipment, late, boots, evidence, sessions, cell, sent, stored, history,
                   approval>>

LinkNext ==
    \/ \E c \in LinkedCells :
         \/ ReadBootstrap(c) \/ ReusePlan(c) \/ PrepareHostLink(c)
         \/ HostTakesFence(c) \/ HostGrants(c) \/ CommitHostLink(c) \/ Abandon(c)
         \/ PrepareHostRenewal(c) \/ HostRenews(c) \/ CommitHostRenewal(c) \/ RenewalFails(c)
         \/ FinishFenceDelivery(c) \/ InvalidateCell(c) \/ Requalify(c)
         \/ SendWork(c) \/ SettleWork(c)
    \/ \E m \in late : HostGrantsLate(m)
    \/ \E j \in 1..MaxJournal : HostBoots(j)
    \/ RuntimeRestarts \/ OpenEvidenceProducer \/ ApproveHostReadmission \/ Tick

LinkSpec == LinkInit /\ [][LinkNext]_linkVars

-----------------------------------------------------------------------------
\* Types; a client that has read holds what it read, one that is past that has
\* a plan, and one that is linked has a plan that was committed.
LinkTypeOK ==
    /\ equipment \in Equipment /\ granted \in [Resources -> Grants \cup {Unset}]
    /\ late \subseteq GrantRequests /\ boots \in Nat /\ sessions \in Nat
    /\ evidence \in [boot : Nat, journal : Nat, session : Nat, runtime : Nat]
    /\ cell \in [LinkedCells -> [epoch : Nat, revision : Nat, blocked : BOOLEAN,
                                 executing : BOOLEAN]]
    /\ sent \in [LinkedCells -> Generations \cup {Unset}]
    /\ stored \in [Resources -> Fences]
    /\ plan \in [LinkedCells -> Plans \cup {Unset}]
    /\ registration \in [LinkedCells -> Registrations \cup {Unset}]
    /\ history \in [LinkedCells -> SUBSET Generations]
    /\ renewal \in [LinkedCells -> Renewals \cup {Unset}]
    /\ approval \in Approvals \cup {Unset}
    /\ approval # Unset => approval.open \subseteq approval.cells
    /\ link \in [LinkedCells -> Clients]
    /\ \A c \in LinkedCells :
         /\ link[c].phase = "read" => link[c].snapshot # Unset
         /\ link[c].phase \notin {"idle", "read"} => plan[c] # Unset
         /\ link[c].phase \in {"bound", "renewing", "renewed"} => plan[c].bound

\* A later plan took over a resource of c after its grant had lapsed, and an
\* answer to an earlier renewal may count on the grant again: commit_host_renewal
\* looks at neither (the host still refuses the lower fence).
Overtaken(c) ==
    renewal[c] # Unset /\ \E r \in ResOf[c] : stored[r] # registration[c].fence

\* A grant the platform counts on is really held, unless it was overtaken before
\* its renewal came back: the boot that gave it has it with this fence on every
\* resource, for at least as long as the platform believes (prepare_host_link and
\* commit_host_link are two transactions with the host's answers between them;
\* requests of plans that were given up may reach the host late).
CountedGrantIsHeld ==
    \A c \in Registered :
        Alive(c) /\ registration[c].boot = equipment.boot /\ ~Overtaken(c) =>
            \A r \in ResOf[c] :
                /\ granted[r] # Unset /\ granted[r].fence = registration[c].fence
                /\ granted[r].left >= registration[c].left

\* Work that was sent and not settled belongs to the registered generation:
\* no re-admission replaced the generation that may still be acting.
OpenWorkIsOfTheRegistered ==
    \A c \in LinkedCells : sent[c] # Unset => c \in Registered /\ GenOf(registration[c]) = sent[c]

\* All generations a cell ever accepted have the storage of the first one,
\* whatever restarts, reinstalls and approvals happened between.
StorageIsKept ==
    \A c \in Registered : \A g \in history[c] : g.journal = registration[c].journal

\* What the two transactions of a link, its renewals and its re-admissions
\* keep, whatever restarts and arrives late between them: the three above.
LinksAreSound ==
    LinkTypeOK /\ CountedGrantIsHeld /\ OpenWorkIsOfTheRegistered /\ StorageIsKept
=============================================================================
