---------------------------- MODULE ChangeProofs ----------------------------
(* A process on its way to the equipment, for any number of packages, reviews, *)
(* plans, changes, attempts, hosts and runs.                                   *)
(*                                                                             *)
(* Reviews: an approval is made in the context its job pinned because a new    *)
(* registration of the policy gets a number nobody pinned, and because a       *)
(* boot's one free word bounds how many registrations there are.               *)
(*                                                                             *)
(* Changes: that hosts and runs agree after an application is not inductive.   *)
(* It rests on what a request can still do when it arrives late: one that is   *)
(* open belongs to the change being prepared, while nothing runs, and no later *)
(* attempt has a task while an earlier one is open (TaskFits, OneOpenSend).    *)
EXTENDS ConfigurationDispatch, ProcessReview, FiniteSetTheorems, TLAPS

-----------------------------------------------------------------------------
(* The reviews.                                                                *)

(* Every table of the reviews keeps its rows.                                  *)
ReviewTables ==
    /\ DOMAIN receipts = Intakes
    /\ DOMAIN deviceJobs = DeviceReviews
    /\ DOMAIN deviceVersions = DeviceReviews
    /\ DOMAIN deviceDecisions = DeviceReviews
    /\ DOMAIN plans = Plans
    /\ DOMAIN jobs = ProcessReviews
    /\ DOMAIN versions = ProcessReviews
    /\ DOMAIN decisions = ProcessReviews

(* The package service: a boot has one word that costs no turn, so a boot that *)
(* has not used it leaves room for one more generation.                        *)
ServiceFits ==
    /\ IntakeTypeOK
    /\ IsFiniteSet(reviewTickets)
    /\ reviewBoot <= turns + 1
    /\ service.boot # reviewBoot =>
            generations < reviewBoot + turns /\ trust < reviewBoot + turns

(* The parts of a stored plan.                                                 *)
PlanFields == {"state", "review", "version", "decision", "host", "base", "candidates",
               "issues", "builder", "impact", "by", "reviewer"}

(* A stored plan: what is open about it is what its host and configuration     *)
(* leave open, and its reviewer is somebody else than its proposer.            *)
PlanFits(plan) ==
    /\ DOMAIN plan = PlanFields
    /\ plan.by \in Principals
    /\ plan.state = "ImpactReviewed" <=> plan.reviewer # Absent
    /\ plan.reviewer # plan.by
    /\ plan.issues = OpenIssues(plan.host, plan.base)
    /\ plan.candidates.host = plan.host

(* Every stored plan does.                                                     *)
PlansFit == \A n \in Plans : plans[n] # Absent => PlanFits(plans[n])

(* A ticket that is out still names records that exist.                        *)
TicketFits(t) ==
    /\ t.kind \in Kinds
    /\ t.kind = "intake" =>
            t.intake \in Intakes /\ t.by \in Principals /\ t.reg \in Registrations
    /\ t.kind = "device report" =>
            /\ t.review \in DeviceReviews /\ deviceJobs[t.review] # Absent
            /\ t.report \in Reports /\ t.expected \in Nat /\ t.expected < MaxVersions
    /\ t.kind = "device decision" =>
            /\ t.review \in DeviceReviews /\ deviceVersions[t.review] # Absent
            /\ t.expected \in Nat /\ t.expected < MaxDecisions
    /\ t.kind = "plan" => t.plan \in Plans /\ t.by \in Principals
    /\ t.kind = "plan review" =>
            t.plan \in Plans /\ t.by \in Principals /\ PlanFits(plans[t.plan])
    /\ t.kind = "report" =>
            /\ t.review \in ProcessReviews /\ jobs[t.review] # Absent
            /\ t.report \in Reports /\ t.expected \in Nat /\ t.expected < MaxVersions
    /\ t.kind = "decision" =>
            /\ t.review \in ProcessReviews /\ versions[t.review] # Absent
            /\ t.expected \in Nat /\ t.expected < MaxDecisions

(* Every ticket that is out does.                                              *)
TicketsFit == \A t \in reviewTickets : TicketFits(t)

(* A device review: a registration it pinned that is still recorded has been   *)
(* so without a break; an approval was given in the context the review pinned. *)
DeviceRow(r) ==
    /\ deviceJobs[r] # Absent =>
            /\ deviceJobs[r].reg \in Registrations
            /\ service.reg = deviceJobs[r].reg => deviceJobs[r].trust = trust
    /\ deviceVersions[r] # Absent =>
            /\ deviceJobs[r] # Absent
            /\ deviceVersions[r].revision \in 1..MaxVersions
            /\ deviceVersions[r].ready => deviceVersions[r].report \in Passing
    /\ deviceDecisions[r] # Absent =>
            /\ deviceVersions[r] # Absent
            /\ deviceDecisions[r].revision \in 1..MaxDecisions
            /\ deviceDecisions[r].choice = "Approve" =>
                    /\ deviceDecisions[r].by # deviceJobs[r].by
                    /\ deviceDecisions[r].version.report \in Passing
                    /\ deviceDecisions[r].under =
                            <<deviceJobs[r].config, deviceJobs[r].reg,
                              deviceJobs[r].authority,
                              deviceDecisions[r].version.checker>>

(* Every device review does.                                                   *)
DeviceRows == \A r \in DeviceReviews : DeviceRow(r)

(* A process review: its plans were usable when it was requested, and an       *)
(* approval was given in its context, for a package compiled from it.          *)
ProcessRow(r) ==
    /\ jobs[r] # Absent =>
            \A n \in DOMAIN jobs[r].devices :
                /\ n \in Plans
                /\ PlanFits(jobs[r].devices[n])
                /\ jobs[r].devices[n].state = "ImpactReviewed"
                /\ jobs[r].devices[n].issues = {}
    /\ versions[r] # Absent =>
            /\ jobs[r] # Absent
            /\ versions[r].revision \in 1..MaxVersions
            /\ versions[r].ready => versions[r].report \in Passing
    /\ decisions[r] # Absent =>
            /\ versions[r] # Absent
            /\ decisions[r].revision \in 1..MaxDecisions
            /\ decisions[r].choice = "Approve" =>
                    /\ decisions[r].by # jobs[r].by
                    /\ decisions[r].version.report \in Passing
                    /\ Checked(jobs[r])
                    /\ decisions[r].under =
                            <<jobs[r].config, jobs[r].rules, jobs[r].authority,
                              decisions[r].version.checker>>

(* Every process review does.                                                  *)
ProcessRows == \A r \in ProcessReviews : ProcessRow(r)

(* A draft is saved before anything is bound to it.                            *)
DraftsFit ==
    /\ CompiledAsBound
    /\ bindings # Absent => draft # Absent
    /\ draft # Absent => draft.revision \in Nat

(* The inductive invariant of the reviews.                                     *)
ReviewInv ==
    /\ ReviewTables /\ ServiceFits /\ TicketsFit
    /\ DeviceRows /\ PlansFit /\ ProcessRows /\ DraftsFit

-----------------------------------------------------------------------------
(* Nothing that a ticket names is taken away by a step.                        *)
RecordsKept ==
    /\ generations \in Nat /\ generations' \in Nat /\ generations <= generations'
    /\ \A r \in DeviceReviews :
            /\ deviceJobs[r] # Absent => deviceJobs'[r] # Absent
            /\ deviceVersions[r] # Absent => deviceVersions'[r] # Absent
    /\ \A n \in Plans : PlanFits(plans[n]) => PlanFits(plans'[n])
    /\ \A r \in ProcessReviews :
            /\ jobs[r] # Absent => jobs'[r] # Absent
            /\ versions[r] # Absent => versions'[r] # Absent

(* A ticket stays as good as it was (the ticket tables of the package service).*)
LEMMA TicketStays ==
    ASSUME NEW t, TicketFits(t), RecordsKept
    PROVE  TicketFits(t)'
<1>1. Registrations \subseteq Registrations'
  BY DEF RecordsKept, Registrations
<1>2. t.kind = "plan review" => PlanFits(plans'[t.plan])
  BY DEF TicketFits, RecordsKept
<1>3. PlanFits(plans'[t.plan]) => PlanFits(plans[t.plan])'
  BY DEF PlanFits
<1>4. QED
  BY <1>1, <1>2, <1>3 DEF TicketFits, RecordsKept

(* The reviews start empty.                                                    *)
LEMMA ReviewsBegin == ReviewInit => ReviewInv
<1>1. ASSUME ReviewInit PROVE ReviewTables /\ TicketsFit /\ DeviceRows /\ PlansFit
                              /\ ProcessRows /\ DraftsFit
  BY <1>1 DEF ReviewInit, InitIntake, InitDevice, InitDraft, ReviewTables, TicketsFit,
              DeviceRows, DeviceRow, PlansFit, ProcessRows, ProcessRow, DraftsFit,
              CompiledAsBound
<1>2. ASSUME ReviewInit PROVE ServiceFits
  <2>1. IsFiniteSet(reviewTickets) /\ Cardinality(reviewTickets) = 0
    BY <1>2, FS_EmptySet DEF ReviewInit, InitIntake
  <2>2. QED
    BY <1>2, <2>1, IntakeAssumption DEF ReviewInit, InitIntake, ServiceFits, IntakeTypeOK
<1>3. QED
  BY <1>1, <1>2 DEF ReviewInv

-----------------------------------------------------------------------------
(* Tickets: a step that issues none leaves only tickets that were out before.  *)
LEMMA TicketsStay ==
    ASSUME TicketsFit, RecordsKept, reviewTickets' \subseteq reviewTickets
    PROVE  TicketsFit'
<1>1. ASSUME NEW t \in reviewTickets' PROVE TicketFits(t)'
  <2>1. TicketFits(t)
    BY <1>1 DEF TicketsFit
  <2>2. QED
    BY <2>1, TicketStays
<1>2. QED
  BY <1>1 DEF TicketsFit

(* A new ticket leaves the writer only while there is room for it.             *)
LEMMA TicketIssued ==
    ASSUME ServiceFits, TicketsFit, RecordsKept, NEW x, IssueTicket(x), TicketFits(x)'
    PROVE  /\ TicketsFit'
           /\ IsFiniteSet(reviewTickets') /\ Cardinality(reviewTickets') <= MaxTickets
<1>1. TicketsFit'
  <2>1. ASSUME NEW t \in reviewTickets' PROVE TicketFits(t)'
    <3>1. CASE t = x
      BY <3>1
    <3>2. CASE t # x
      <4>1. TicketFits(t)
        BY <2>1, <3>2 DEF TicketsFit, IssueTicket
      <4>2. QED
        BY <4>1, TicketStays
    <3>3. QED
      BY <3>1, <3>2
  <2>2. QED
    BY <2>1 DEF TicketsFit
<1>2. IsFiniteSet(reviewTickets) /\ Cardinality(reviewTickets) < MaxTickets
  BY DEF ServiceFits, IssueTicket
<1>3. /\ IsFiniteSet(reviewTickets \union {x})
      /\ \/ Cardinality(reviewTickets \union {x}) = Cardinality(reviewTickets)
         \/ Cardinality(reviewTickets \union {x}) = Cardinality(reviewTickets) + 1
  BY <1>2, FS_AddElement
<1>4. Cardinality(reviewTickets) \in Nat
  BY <1>2, FS_CardinalityType
<1>5. QED
  BY <1>1, <1>2, <1>3, <1>4, IntakeAssumption DEF IssueTicket

(* A ticket that comes back makes room.                                        *)
LEMMA TicketRedeemed ==
    ASSUME ServiceFits, NEW x, Redeem(x)
    PROVE  /\ reviewTickets' \subseteq reviewTickets
           /\ IsFiniteSet(reviewTickets') /\ Cardinality(reviewTickets') <= MaxTickets
<1>1. IsFiniteSet(reviewTickets) /\ Cardinality(reviewTickets) <= MaxTickets
  BY DEF ServiceFits, IntakeTypeOK
<1>2. reviewTickets' \subseteq reviewTickets
  BY DEF Redeem
<1>3. /\ IsFiniteSet(reviewTickets')
      /\ Cardinality(reviewTickets') <= Cardinality(reviewTickets)
  BY <1>1, <1>2, FS_Subset
<1>4. Cardinality(reviewTickets) \in Nat /\ Cardinality(reviewTickets') \in Nat
  BY <1>1, <1>3, FS_CardinalityType
<1>5. QED
  BY <1>1, <1>2, <1>3, <1>4, IntakeAssumption

(* A step that touches neither the records nor the numbers keeps the records.  *)
LEMMA RecordsStay ==
    ASSUME ServiceFits,
           UNCHANGED <<generations, deviceJobs, deviceVersions, plans, jobs, versions>>
    PROVE  RecordsKept
  BY DEF ServiceFits, IntakeTypeOK, RecordsKept

(* The service when only tickets move.                                         *)
LEMMA ServiceStays ==
    ASSUME ServiceFits, IsFiniteSet(reviewTickets'),
           Cardinality(reviewTickets') <= MaxTickets,
           UNCHANGED <<reviewBoot, release, service, generations, trust, site, receipts,
                       turns>>
    PROVE  ServiceFits'
  BY DEF ServiceFits, IntakeTypeOK, Registrations

(* A turn that is counted leaves no less room for generations.                 *)
LEMMA RoomGrows ==
    ASSUME NEW b \in Nat, NEW t \in Nat, NEW u \in Nat, t <= u
    PROVE  /\ b <= t + 1 => b <= u + 1
           /\ b + u \in Nat
           /\ \A g \in Nat : (g <= b + t => g <= b + u) /\ (g < b + t => g < b + u)
  OBVIOUS

(* The service when only a turn is counted or the site changes.                *)
LEMMA ServiceTurns ==
    ASSUME ServiceFits, Turn \/ UNCHANGED turns, site' \in Sites,
           UNCHANGED <<reviewBoot, release, service, generations, trust, receipts,
                       reviewTickets>>
    PROVE  ServiceFits'
<1>1. /\ turns \in Nat /\ reviewBoot \in Nat /\ generations \in Nat /\ trust \in Nat
      /\ turns' \in 0..MaxTurns /\ turns <= turns' /\ MaxTurns \in Nat
  BY IntakeAssumption DEF ServiceFits, IntakeTypeOK, Turn
<1>2. /\ reviewBoot' \in 1..(MaxTurns + 1) /\ reviewBoot' <= turns' + 1
      /\ generations' \in 0..(reviewBoot' + turns')
      /\ trust' \in 0..(reviewBoot' + turns')
      /\ service'.boot # reviewBoot' =>
            generations' < reviewBoot' + turns' /\ trust' < reviewBoot' + turns'
  <2>1. /\ reviewBoot \in 1..(MaxTurns + 1) /\ reviewBoot <= turns + 1
        /\ generations <= reviewBoot + turns /\ trust <= reviewBoot + turns
        /\ service.boot # reviewBoot =>
              generations < reviewBoot + turns /\ trust < reviewBoot + turns
    BY <1>1 DEF ServiceFits, IntakeTypeOK
  <2>2. turns' \in Nat
    BY <1>1
  <2>3. /\ reviewBoot <= turns' + 1 /\ reviewBoot + turns' \in Nat
        /\ \A g \in Nat : /\ g <= reviewBoot + turns => g <= reviewBoot + turns'
                          /\ g < reviewBoot + turns => g < reviewBoot + turns'
    BY <1>1, <2>1, <2>2, RoomGrows
  <2>4. generations \in 0..(reviewBoot + turns') /\ trust \in 0..(reviewBoot + turns')
    <3>1. PICK n \in Nat : n = reviewBoot + turns'
      BY <2>3
    <3>2. generations <= n /\ trust <= n
      BY <1>1, <2>1, <2>3, <3>1
    <3>3. generations \in Nat /\ trust \in Nat
      BY <1>1
    <3>4. generations \in 0..n /\ trust \in 0..n
      BY <3>2, <3>3
    <3>5. QED
      BY <3>1, <3>4
  <2>5. service.boot # reviewBoot =>
            generations < reviewBoot + turns' /\ trust < reviewBoot + turns'
    BY <1>1, <2>1, <2>3
  <2>6. UNCHANGED <<reviewBoot, generations, trust, service>>
    OBVIOUS
  <2>7. QED
    BY <2>1, <2>3, <2>4, <2>5, <2>6
<1>3. QED
  BY <1>1, <1>2 DEF ServiceFits, IntakeTypeOK, Registrations

(* The rest of the state when a step does not touch it.                        *)
LEMMA DevicesStay ==
    ASSUME DeviceRows,
           UNCHANGED <<deviceJobs, deviceVersions, deviceDecisions, service, generations,
                       trust>>
    PROVE  DeviceRows'
  BY DEF DeviceRows, DeviceRow, Registrations

(* Plans nobody touched.                                                       *)
LEMMA PlansStay == ASSUME PlansFit, UNCHANGED plans PROVE PlansFit'
  BY DEF PlansFit, PlanFits

(* Process reviews nobody touched.                                             *)
LEMMA ProcessesStay ==
    ASSUME ProcessRows, UNCHANGED <<jobs, versions, decisions>>
    PROVE  ProcessRows'
  BY DEF ProcessRows, ProcessRow, PlanFits, Checked, Candidate

(* The draft, when nobody touched it.                                          *)
LEMMA DraftsStay == ASSUME DraftsFit, UNCHANGED draftVars PROVE DraftsFit'
  BY DEF DraftsFit, CompiledAsBound, draftVars

(* Tables nobody touched.                                                      *)
LEMMA TablesStay ==
    ASSUME ReviewTables,
           UNCHANGED <<receipts, deviceJobs, deviceVersions, deviceDecisions, plans, jobs,
                       versions, decisions>>
    PROVE  ReviewTables'
  BY DEF ReviewTables

-----------------------------------------------------------------------------
(* configure_package_intake: a registration that is not the recorded one gets  *)
(* a number nobody has pinned, so no review finds its own again.               *)
LEMMA ConfigureKeeps ==
    ASSUME ReviewInv, NEW t \in Trusts \union {Absent}, ConfigureIntake(t),
           UNCHANGED <<deviceVars, plans, draftVars, processVars>>
    PROVE  ReviewInv'
<1> DEFINE word == IF t = Absent THEN Absent
                  ELSE [gen |-> Generation(t), owner |-> t.owner, rules |-> t.rules]
<1>1. /\ Word(service) /\ service' = [boot |-> reviewBoot, reg |-> word]
      /\ generations' = IF word # Absent /\ word.gen > generations
                        THEN word.gen ELSE generations
      /\ trust' = IF word = service.reg THEN trust ELSE trust + 1
      /\ UNCHANGED <<reviewBoot, release, site, receipts, reviewTickets>>
  BY DEF ConfigureIntake
<1>2. /\ generations \in Nat /\ trust \in Nat /\ turns \in Nat /\ reviewBoot \in Nat
      /\ MaxTurns \in Nat
  BY IntakeAssumption DEF ReviewInv, ServiceFits, IntakeTypeOK
<1>3. SameTrust(service.reg, t) \/ Generation(t) = generations + 1
  BY DEF Generation
<1>4. ASSUME t # Absent, SameTrust(service.reg, t) PROVE word = service.reg
  <2>1. service.reg \in Registrations
    BY <1>4 DEF SameTrust, ReviewInv, ServiceFits, IntakeTypeOK
  <2>2. word = [gen |-> service.reg.gen, owner |-> service.reg.owner,
               rules |-> service.reg.rules]
    BY <1>4 DEF SameTrust, Generation
  <2>3. QED
    BY <2>1, <2>2 DEF Registrations
<1>5. ASSUME t # Absent, ~SameTrust(service.reg, t)
      PROVE  /\ word.gen = generations + 1 /\ word # Absent /\ generations' = generations + 1
             /\ word \in [gen : 1..generations', owner : Owners, rules : Rules]
  <2>1. t.owner \in Owners /\ t.rules \in Rules
    BY <1>5 DEF Owners, Rules
  <2>2. word = [gen |-> generations + 1, owner |-> t.owner, rules |-> t.rules]
    BY <1>5, <1>3
  <2>3. word \in [gen : Nat, owner : Owners, rules : Rules]
    BY <1>2, <2>1, <2>2
  <2>4. word # Absent
    BY <2>3, IntakeAssumption
  <2>5. word.gen = generations + 1
    BY <2>2
  <2>6. generations' = generations + 1
    BY <1>1, <1>2, <2>4, <2>5
  <2>7. QED
    BY <1>2, <2>1, <2>2, <2>4, <2>5, <2>6
<1>6. ASSUME word = service.reg PROVE generations' = generations /\ trust' = trust
  <2>1. service.reg # Absent => service.reg.gen \in 1..generations
    BY DEF ReviewInv, ServiceFits, IntakeTypeOK, Registrations
  <2>2. QED
    BY <1>1, <1>2, <1>6, <2>1
<1>7. ASSUME t = Absent PROVE word = Absent /\ generations' = generations
  BY <1>1, <1>7
<1>8. /\ generations' \in Nat /\ generations <= generations'
      /\ generations' <= generations + 1
      /\ trust' \in Nat /\ trust' <= trust + 1
      /\ word \in [gen : 1..generations', owner : Owners, rules : Rules] \union {Absent}
  <2>1. CASE t = Absent
    BY <1>1, <1>2, <1>7, <2>1
  <2>2. CASE t # Absent /\ SameTrust(service.reg, t)
    <3>1. word = service.reg
      BY <2>2, <1>4
    <3>2. generations' = generations /\ trust' = trust
      BY <3>1, <1>6
    <3>3. service.reg \in [gen : 1..generations, owner : Owners, rules : Rules] \union {Absent}
      BY DEF ReviewInv, ServiceFits, IntakeTypeOK, Registrations
    <3>4. QED
      BY <1>2, <3>1, <3>2, <3>3
  <2>3. CASE t # Absent /\ ~SameTrust(service.reg, t)
    BY <1>1, <1>2, <1>5, <2>3
  <2>4. QED
    BY <2>1, <2>2, <2>3
<1>9. RecordsKept
  BY <1>2, <1>8 DEF RecordsKept, deviceVars, processVars
<1>10. ServiceFits'
  <2>1. /\ turns' \in 0..MaxTurns /\ turns <= turns'
        /\ turns' = IF service.boot = reviewBoot THEN turns + 1 ELSE turns
    BY <1>1, <1>2 DEF Word, Turn, ReviewInv, ServiceFits, IntakeTypeOK
  <2>2. generations' <= reviewBoot + turns' /\ trust' <= reviewBoot + turns'
    <3>1. CASE service.boot = reviewBoot
      BY <1>2, <1>8, <2>1, <3>1 DEF ReviewInv, ServiceFits, IntakeTypeOK
    <3>2. CASE service.boot # reviewBoot
      BY <1>2, <1>8, <2>1, <3>2 DEF ReviewInv, ServiceFits, IntakeTypeOK
    <3>3. QED
      BY <3>1, <3>2
  <2>3. service'.reg \in Registrations' \union {Absent} /\ service'.boot = reviewBoot'
    BY <1>1, <1>8 DEF Registrations
  <2>4. \A i \in Intakes : receipts'[i] # Absent =>
            receipts'[i].by \in Principals /\ receipts'[i].reg \in Registrations'
    BY <1>1, <1>2, <1>8 DEF ReviewInv, ServiceFits, IntakeTypeOK, Registrations
  <2>5. /\ reviewBoot' \in 1..(MaxTurns + 1) /\ reviewBoot' <= turns' + 1
        /\ release' \in Releases /\ site' \in Sites
        /\ IsFiniteSet(reviewTickets') /\ Cardinality(reviewTickets') <= MaxTickets
    BY <1>1, <1>2, <2>1 DEF ReviewInv, ServiceFits, IntakeTypeOK
  <2>6. QED
    BY <1>1, <1>2, <1>8, <2>1, <2>2, <2>3, <2>4, <2>5 DEF ServiceFits, IntakeTypeOK
<1>11. DeviceRows'
  <2>1. ASSUME NEW r \in DeviceReviews, deviceJobs[r] # Absent
        PROVE  /\ deviceJobs[r].reg \in Registrations'
               /\ service'.reg = deviceJobs[r].reg => deviceJobs[r].trust = trust'
    <3>1. /\ deviceJobs[r].reg \in [gen : 1..generations, owner : Owners, rules : Rules]
          /\ service.reg = deviceJobs[r].reg => deviceJobs[r].trust = trust
      BY <2>1 DEF ReviewInv, DeviceRows, DeviceRow, Registrations
    <3>2. deviceJobs[r].reg # Absent
      BY <3>1, <1>2, IntakeAssumption
    <3>3. word = deviceJobs[r].reg => word = service.reg
      <4>1. CASE t = Absent
        BY <4>1, <1>7, <3>2
      <4>2. CASE t # Absent /\ SameTrust(service.reg, t)
        BY <4>2, <1>4
      <4>3. CASE t # Absent /\ ~SameTrust(service.reg, t)
        BY <4>3, <1>5, <1>2, <3>1
      <4>4. QED
        BY <4>1, <4>2, <4>3
    <3>4. QED
      BY <1>1, <1>2, <1>6, <1>8, <3>1, <3>3 DEF Registrations
  <2>2. UNCHANGED <<deviceJobs, deviceVersions, deviceDecisions>>
    BY DEF deviceVars
  <2>3. QED
    BY <2>1, <2>2 DEF ReviewInv, DeviceRows, DeviceRow
<1>12. QED
  BY <1>1, <1>9, <1>10, <1>11, TicketsStay, PlansStay, ProcessesStay, DraftsStay, TablesStay
     DEF ReviewInv, deviceVars, processVars

(* The other steps of the package service: intake, lost tickets, a restart, a  *)
(* change of the site.                                                         *)
LEMMA IntakeKeeps ==
    ASSUME ReviewInv, Intake
    PROVE  ReviewInv'
<1>0. UNCHANGED <<deviceVars, plans, draftVars, processVars>>
  BY DEF Intake
<1>1. ASSUME NEW t \in Trusts \union {Absent}, ConfigureIntake(t) PROVE ReviewInv'
  BY <1>0, <1>1, ConfigureKeeps
<1>2. ASSUME NEW i \in Intakes, NEW package, NEW p \in Principals,
             PrepareIntake(i, package, p)
      PROVE  ReviewInv'
  <2>1. PICK x :
            /\ x = [kind |-> "intake", intake |-> i, package |-> package, by |-> p,
                    config |-> site.own, reg |-> CurrentIntake]
            /\ IssueTicket(x)
    BY <1>2 DEF PrepareIntake
  <2>2. /\ CurrentIntake # Absent
        /\ UNCHANGED <<reviewBoot, release, service, generations, trust, site, receipts,
                       turns>>
    BY <1>2 DEF PrepareIntake
  <2>3. RecordsKept
    BY <1>0, <2>2, RecordsStay DEF ReviewInv, deviceVars, processVars
  <2>4. x.reg \in Registrations'
    BY <2>1, <2>2 DEF CurrentIntake, ReviewInv, ServiceFits, IntakeTypeOK, Registrations
  <2>5. TicketFits(x)'
    BY <1>2, <2>1, <2>4 DEF TicketFits, Kinds
  <2>6. /\ TicketsFit'
        /\ IsFiniteSet(reviewTickets') /\ Cardinality(reviewTickets') <= MaxTickets
    BY <2>1, <2>3, <2>5, TicketIssued DEF ReviewInv
  <2>7. QED
    BY <1>0, <2>2, <2>6, ServiceStays, DevicesStay, PlansStay, ProcessesStay, DraftsStay,
       TablesStay DEF ReviewInv, deviceVars, processVars
<1>3. ASSUME NEW t \in reviewTickets, CommitIntake(t) PROVE ReviewInv'
  <2>1. /\ t.kind = "intake" /\ Redeem(t)
        /\ receipts' = [receipts EXCEPT ![t.intake] =
                [package |-> t.package, by |-> t.by, config |-> t.config, reg |-> t.reg]]
        /\ UNCHANGED <<reviewBoot, release, service, generations, trust, site, turns>>
    BY <1>3 DEF CommitIntake
  <2>2. RecordsKept
    BY <1>0, <2>1, RecordsStay DEF ReviewInv, deviceVars, processVars
  <2>3. /\ TicketsFit'
        /\ IsFiniteSet(reviewTickets') /\ Cardinality(reviewTickets') <= MaxTickets
    BY <2>1, <2>2, TicketRedeemed, TicketsStay DEF ReviewInv
  <2>4. t.intake \in Intakes /\ t.by \in Principals /\ t.reg \in Registrations
    BY <1>3, <2>1 DEF ReviewInv, TicketsFit, TicketFits
  <2>5. ReviewTables'
    BY <1>0, <2>1, <2>4 DEF ReviewInv, ReviewTables, deviceVars, processVars
  <2>6. \A i \in Intakes : receipts'[i] # Absent =>
            receipts'[i].by \in Principals /\ receipts'[i].reg \in Registrations
    BY <2>1, <2>4 DEF ReviewInv, ServiceFits, IntakeTypeOK, ReviewTables
  <2>7. ServiceFits'
    BY <2>1, <2>3, <2>6 DEF ReviewInv, ServiceFits, IntakeTypeOK, Registrations
  <2>8. QED
    BY <1>0, <2>1, <2>3, <2>5, <2>7, DevicesStay, PlansStay, ProcessesStay, DraftsStay
       DEF ReviewInv, deviceVars, processVars
<1>4. ASSUME NEW t \in reviewTickets, Drop(t) PROVE ReviewInv'
  <2>1. /\ Redeem(t)
        /\ UNCHANGED <<reviewBoot, release, service, generations, trust, site, receipts,
                       turns>>
    BY <1>4 DEF Drop
  <2>2. RecordsKept
    BY <1>0, <2>1, RecordsStay DEF ReviewInv, deviceVars, processVars
  <2>3. /\ TicketsFit'
        /\ IsFiniteSet(reviewTickets') /\ Cardinality(reviewTickets') <= MaxTickets
    BY <2>1, <2>2, TicketRedeemed, TicketsStay DEF ReviewInv
  <2>4. QED
    BY <1>0, <2>1, <2>3, ServiceStays, DevicesStay, PlansStay, ProcessesStay, DraftsStay,
       TablesStay DEF ReviewInv, deviceVars, processVars
<1>5. ASSUME NEW x \in Releases, Restart(x) PROVE ReviewInv'
  <2>1. /\ turns < MaxTurns /\ turns' = turns + 1
        /\ reviewBoot' = reviewBoot + 1 /\ release' = x /\ reviewTickets' = {}
        /\ UNCHANGED <<service, generations, trust, site, receipts>>
    BY <1>5 DEF Restart, Turn
  <2>2. TicketsFit'
    BY <2>1 DEF TicketsFit
  <2>3. IsFiniteSet(reviewTickets') /\ Cardinality(reviewTickets') = 0
    BY <2>1, FS_EmptySet
  <2>4. ServiceFits'
    <3>1. /\ turns \in Nat /\ reviewBoot \in Nat /\ generations \in Nat /\ trust \in Nat
          /\ MaxTurns \in Nat /\ MaxTickets \in Nat /\ reviewBoot <= turns + 1
          /\ service.boot \in 0..reviewBoot
          /\ generations <= reviewBoot + turns /\ trust <= reviewBoot + turns
          /\ 1 <= reviewBoot
      BY IntakeAssumption DEF ReviewInv, ServiceFits, IntakeTypeOK
    <3>2. /\ reviewBoot' \in 1..(MaxTurns + 1) /\ reviewBoot' <= turns' + 1
          /\ turns' \in 0..MaxTurns /\ service'.boot \in 0..reviewBoot'
          /\ generations' \in 0..(reviewBoot' + turns')
          /\ trust' \in 0..(reviewBoot' + turns')
          /\ generations' < reviewBoot' + turns' /\ trust' < reviewBoot' + turns'
      BY <2>1, <3>1
    <3>3. QED
      BY <1>5, <2>1, <2>3, <3>1, <3>2
         DEF ReviewInv, ServiceFits, IntakeTypeOK, Registrations
  <2>5. QED
    BY <1>0, <2>1, <2>2, <2>4, DevicesStay, PlansStay, ProcessesStay, DraftsStay,
       TablesStay DEF ReviewInv, deviceVars, processVars
<1>6. ASSUME NEW s \in Sites, ChangeSite(s) PROVE ReviewInv'
  <2>1. /\ Turn /\ site' = s
        /\ UNCHANGED <<reviewBoot, release, service, generations, trust, receipts,
                       reviewTickets>>
    BY <1>6 DEF ChangeSite
  <2>2. TicketsFit'
    BY <1>0, <2>1, RecordsStay, TicketsStay DEF ReviewInv, deviceVars, processVars
  <2>3. QED
    BY <1>0, <1>6, <2>1, <2>2, ServiceTurns, DevicesStay, PlansStay, ProcessesStay,
       DraftsStay, TablesStay DEF ReviewInv, deviceVars, processVars
<1>7. QED
  BY <1>1, <1>2, <1>3, <1>4, <1>5, <1>6, ReviewAssumption, ProcessIntakesAssumption
     DEF Intake

(* A prepare step only adds a ticket.                                          *)
LEMMA PrepareKeeps ==
    ASSUME ReviewInv, NEW x, IssueTicket(x), TicketFits(x),
           UNCHANGED <<reviewBoot, release, service, generations, trust, site, receipts,
                       turns, deviceVars, plans, draftVars, processVars>>
    PROVE  ReviewInv'
<1>1. RecordsKept
  BY RecordsStay DEF ReviewInv, deviceVars, processVars
<1>2. TicketFits(x)'
  BY <1>1, TicketStays
<1>3. /\ TicketsFit'
      /\ IsFiniteSet(reviewTickets') /\ Cardinality(reviewTickets') <= MaxTickets
  BY <1>1, <1>2, TicketIssued DEF ReviewInv
<1>4. QED
  BY <1>3, ServiceStays, DevicesStay, PlansStay, ProcessesStay, DraftsStay,
     TablesStay DEF ReviewInv, deviceVars, processVars

(* The steps of the device review (device_review.rs).                          *)
LEMMA ReviewDeviceKeeps ==
    ASSUME ReviewInv, ReviewDevice
    PROVE  ReviewInv'
<1>0. UNCHANGED <<plans, draftVars, processVars>>
  BY DEF ReviewDevice
<1>1. ASSUME NEW a, ConfigureDeviceReview(a) PROVE ReviewInv'
  <2>1. /\ Turn \/ UNCHANGED turns
        /\ UNCHANGED <<reviewBoot, release, service, generations, trust, site, receipts,
                       reviewTickets, reviewedVars>>
    BY <1>1 DEF ConfigureDeviceReview, Word
  <2>2. site' \in Sites
    BY <2>1 DEF ReviewInv, ServiceFits, IntakeTypeOK
  <2>3. TicketsFit'
    BY <1>0, <2>1, RecordsStay, TicketsStay DEF ReviewInv, reviewedVars, processVars
  <2>4. QED
    BY <1>0, <2>1, <2>2, <2>3, ServiceTurns, DevicesStay, PlansStay, ProcessesStay,
       DraftsStay, TablesStay DEF ReviewInv, reviewedVars, processVars
<1>2. ASSUME NEW r \in DeviceReviews, NEW i \in DeviceIntakes, CreateDeviceReview(r, i)
      PROVE  ReviewInv'
  <2>1. /\ deviceJobs[r] = Absent /\ CurrentIntake # Absent
        /\ UNCHANGED <<intakeVars, deviceAuthority, deviceVersions, deviceDecisions>>
    BY <1>2 DEF CreateDeviceReview
  <2>2. PICK j :
            /\ j = [package |-> receipts[i].package, by |-> receipts[i].by,
                    config |-> site.own, reg |-> CurrentIntake,
                    authority |-> DeviceAuthority, trust |-> trust, boot |-> reviewBoot]
            /\ deviceJobs' = [deviceJobs EXCEPT ![r] = j]
    BY <1>2 DEF CreateDeviceReview
  <2>3. UNCHANGED <<reviewBoot, release, service, generations, trust, site, receipts,
                    reviewTickets, turns>>
    BY <2>1 DEF intakeVars
  <2>4. /\ deviceVersions[r] = Absent /\ deviceDecisions[r] = Absent
        /\ DOMAIN deviceJobs = DeviceReviews
    BY <2>1 DEF ReviewInv, DeviceRows, DeviceRow, ReviewTables
  <2>5. RecordsKept
    BY <1>0, <2>1, <2>2, <2>3, <2>4
       DEF RecordsKept, ReviewInv, ServiceFits, IntakeTypeOK, processVars
  <2>6. TicketsFit'
    BY <2>3, <2>5, TicketsStay DEF ReviewInv
  <2>7. ServiceFits'
    BY <2>3, ServiceStays DEF ReviewInv, ServiceFits, IntakeTypeOK
  <2>8. CurrentIntake = service.reg /\ service.reg \in Registrations
    BY <2>1 DEF CurrentIntake, ReviewInv, ServiceFits, IntakeTypeOK
  <2>9. DeviceRows'
    <3>1. ASSUME NEW s \in DeviceReviews PROVE DeviceRow(s)'
      <4>1. CASE s = r
        BY <2>1, <2>2, <2>3, <2>4, <2>8, <4>1 DEF DeviceRow, Registrations
      <4>2. CASE s # r
        <5>1. deviceJobs'[s] = deviceJobs[s]
          BY <2>2, <2>4, <4>2
        <5>2. DeviceRow(s)
          BY DEF ReviewInv, DeviceRows
        <5>3. QED
          BY <2>1, <2>3, <5>1, <5>2 DEF DeviceRow, Registrations
      <4>3. QED
        BY <4>1, <4>2
    <3>2. QED
      BY <3>1 DEF DeviceRows
  <2>10. ReviewTables'
    BY <1>0, <2>1, <2>2, <2>3 DEF ReviewInv, ReviewTables, processVars
  <2>11. QED
    BY <1>0, <2>6, <2>7, <2>9, <2>10, PlansStay, ProcessesStay, DraftsStay
       DEF ReviewInv, processVars
<1>3. ASSUME NEW r \in DeviceReviews, NEW v \in Reports, PrepareDeviceReport(r, v)
      PROVE  ReviewInv'
  <2>1. PICK x :
            /\ x = [kind |-> "device report", review |-> r, report |-> v,
                    expected |-> Revision(deviceVersions[r]), reg |-> CurrentIntake]
            /\ IssueTicket(x)
    BY <1>3 DEF PrepareDeviceReport
  <2>2. Revision(deviceVersions[r]) \in Nat
    BY ReviewAssumption DEF Revision, ReviewInv, DeviceRows, DeviceRow
  <2>3. TicketFits(x)
    BY <1>3, <2>1, <2>2 DEF PrepareDeviceReport, TicketFits, Kinds
  <2>4. QED
    BY <1>0, <1>3, <2>1, <2>3, PrepareKeeps DEF PrepareDeviceReport
<1>4. ASSUME NEW r \in DeviceReviews, NEW c, NEW p, PrepareDeviceDecision(r, c, p)
      PROVE  ReviewInv'
  <2>1. PICK x :
            /\ x = [kind |-> "device decision", review |-> r, choice |-> c, by |-> p,
                    version |-> deviceVersions[r],
                    expected |-> Revision(deviceDecisions[r]), reg |-> CurrentIntake]
            /\ IssueTicket(x)
    BY <1>4 DEF PrepareDeviceDecision
  <2>2. Revision(deviceDecisions[r]) \in Nat
    BY ReviewAssumption DEF Revision, ReviewInv, DeviceRows, DeviceRow
  <2>3. TicketFits(x)
    BY <1>4, <2>1, <2>2 DEF PrepareDeviceDecision, TicketFits, Kinds
  <2>4. QED
    BY <1>0, <1>4, <2>1, <2>3, PrepareKeeps DEF PrepareDeviceDecision
<1>5. ASSUME NEW t \in reviewTickets, CommitDeviceReport(t) PROVE ReviewInv'
  <2>1. /\ t.kind = "device report" /\ Redeem(t)
        /\ UNCHANGED <<reviewBoot, release, service, generations, trust, site, receipts,
                       turns, deviceAuthority, deviceJobs, deviceDecisions>>
    BY <1>5 DEF CommitDeviceReport
  <2>2. PICK v :
            /\ v = [revision |-> t.expected + 1, report |-> t.report,
                    checker |-> release.device, ready |-> t.report \in Passing]
            /\ deviceVersions' = [deviceVersions EXCEPT ![t.review] = v]
    BY <1>5 DEF CommitDeviceReport
  <2>3. /\ t.review \in DeviceReviews /\ deviceJobs[t.review] # Absent
        /\ t.report \in Reports /\ t.expected \in Nat /\ t.expected < MaxVersions
        /\ release \in Releases /\ DOMAIN deviceVersions = DeviceReviews
    BY <1>5, <2>1
       DEF ReviewInv, TicketsFit, TicketFits, ServiceFits, IntakeTypeOK, ReviewTables
  <2>4. v \in Version
    BY <2>2, <2>3 DEF Version, Checkers
  <2>5. /\ v # Absent /\ v.revision \in 1..MaxVersions
        /\ v.ready => v.report \in Passing
    <3>1. v # Absent
      BY <2>4, ReviewAssumption
    <3>2. v.revision \in 1..MaxVersions
      BY <2>2, <2>3, ReviewAssumption
    <3>3. v.ready = (t.report \in Passing) /\ v.report = t.report
      BY <2>2
    <3>4. QED
      BY <3>1, <3>2, <3>3
  <2>6. RecordsKept
    <3>1. \A s \in DeviceReviews : deviceVersions[s] # Absent => deviceVersions'[s] # Absent
      BY <2>2, <2>3, <2>5
    <3>2. generations \in Nat
      BY DEF ReviewInv, ServiceFits, IntakeTypeOK
    <3>3. UNCHANGED <<generations, deviceJobs, plans, jobs, versions>>
      BY <1>0, <2>1 DEF processVars
    <3>4. QED
      BY <3>1, <3>2, <3>3 DEF RecordsKept
  <2>7. /\ TicketsFit'
        /\ IsFiniteSet(reviewTickets') /\ Cardinality(reviewTickets') <= MaxTickets
    BY <2>1, <2>6, TicketRedeemed, TicketsStay DEF ReviewInv
  <2>8. DeviceRows'
    <3>1. ASSUME NEW s \in DeviceReviews PROVE DeviceRow(s)'
      <4>1. DeviceRow(s)
        BY DEF ReviewInv, DeviceRows
      <4>2. CASE s = t.review
        <5>1. deviceVersions'[s] = v
          BY <2>2, <2>3, <4>2
        <5>2. QED
          BY <2>1, <2>3, <2>5, <4>1, <4>2, <5>1 DEF DeviceRow, Registrations
      <4>3. CASE s # t.review
        <5>1. deviceVersions'[s] = deviceVersions[s]
          BY <2>2, <2>3, <4>3
        <5>2. QED
          BY <2>1, <4>1, <5>1 DEF DeviceRow, Registrations
      <4>4. QED
        BY <4>2, <4>3
    <3>2. QED
      BY <3>1 DEF DeviceRows
  <2>9. ReviewTables'
    BY <1>0, <2>1, <2>2 DEF ReviewInv, ReviewTables, processVars
  <2>10. QED
    BY <1>0, <2>1, <2>7, <2>8, <2>9, ServiceStays, PlansStay, ProcessesStay, DraftsStay
       DEF ReviewInv, processVars
<1>6. ASSUME NEW t \in reviewTickets, CommitDeviceDecision(t) PROVE ReviewInv'
  <2>1. /\ t.kind = "device decision" /\ Redeem(t)
        /\ deviceVersions[t.review] = t.version
        /\ UNCHANGED <<reviewBoot, release, service, generations, trust, site, receipts,
                       turns, deviceAuthority, deviceJobs, deviceVersions>>
    BY <1>6 DEF CommitDeviceDecision
  <2>2. PICK d :
            /\ d = [revision |-> t.expected + 1, choice |-> t.choice,
                    version |-> t.version, by |-> t.by,
                    under |-> <<site.own, CurrentIntake, DeviceAuthority, release.device>>]
            /\ deviceDecisions' = [deviceDecisions EXCEPT ![t.review] = d]
    BY <1>6 DEF CommitDeviceDecision
  <2>3. /\ t.review \in DeviceReviews /\ deviceVersions[t.review] # Absent
        /\ t.expected \in Nat /\ t.expected < MaxDecisions
        /\ DOMAIN deviceDecisions = DeviceReviews
    BY <1>6, <2>1 DEF ReviewInv, TicketsFit, TicketFits, ReviewTables
  <2>4. t.choice = "Approve" =>
            /\ t.by # deviceJobs[t.review].by
            /\ site.own = deviceJobs[t.review].config
            /\ CurrentIntake = deviceJobs[t.review].reg
            /\ DeviceAuthority = deviceJobs[t.review].authority
            /\ release.device = t.version.checker
            /\ t.version.report \in Passing
    BY <1>6, <2>1
       DEF CommitDeviceDecision, DeviceApprovable, DeviceContext, WorkerApprovesDevice
  <2>5. /\ d.revision \in 1..MaxDecisions
        /\ d.choice = "Approve" =>
            /\ d.by # deviceJobs[t.review].by
            /\ d.version.report \in Passing
            /\ d.under = <<deviceJobs[t.review].config, deviceJobs[t.review].reg,
                           deviceJobs[t.review].authority, d.version.checker>>
    BY <2>2, <2>3, <2>4, ReviewAssumption
  <2>6. RecordsKept
    BY <1>0, <2>1, RecordsStay DEF ReviewInv, processVars
  <2>7. /\ TicketsFit'
        /\ IsFiniteSet(reviewTickets') /\ Cardinality(reviewTickets') <= MaxTickets
    BY <2>1, <2>6, TicketRedeemed, TicketsStay DEF ReviewInv
  <2>8. DeviceRows'
    <3>1. ASSUME NEW s \in DeviceReviews PROVE DeviceRow(s)'
      <4>1. DeviceRow(s)
        BY DEF ReviewInv, DeviceRows
      <4>2. CASE s = t.review
        <5>1. deviceDecisions'[s] = d
          BY <2>2, <2>3, <4>2
        <5>2. QED
          BY <2>1, <2>3, <2>5, <4>1, <4>2, <5>1 DEF DeviceRow, Registrations
      <4>3. CASE s # t.review
        <5>1. deviceDecisions'[s] = deviceDecisions[s]
          BY <2>2, <2>3, <4>3
        <5>2. QED
          BY <2>1, <4>1, <5>1 DEF DeviceRow, Registrations
      <4>4. QED
        BY <4>2, <4>3
    <3>2. QED
      BY <3>1 DEF DeviceRows
  <2>9. ReviewTables'
    BY <1>0, <2>1, <2>2 DEF ReviewInv, ReviewTables, processVars
  <2>10. QED
    BY <1>0, <2>1, <2>7, <2>8, <2>9, ServiceStays, PlansStay, ProcessesStay, DraftsStay
       DEF ReviewInv, processVars
<1>7. QED
  BY <1>1, <1>2, <1>3, <1>4, <1>5, <1>6 DEF ReviewDevice

(* The steps of the binding plans (device_binding.rs): a plan keeps its shape, *)
(* and only somebody else than its proposer reviews it.                        *)
LEMMA BindKeeps ==
    ASSUME ReviewInv, Bind
    PROVE  ReviewInv'
<1>0. UNCHANGED <<draftVars, processVars>>
  BY DEF Bind
<1>1. ASSUME NEW n \in Plans, NEW r \in DeviceReviews, NEW h, NEW p \in Principals,
             PreparePlan(n, r, h, p)
      PROVE  ReviewInv'
  <2>1. PICK x :
            /\ x = [kind |-> "plan", plan |-> n, review |-> r, host |-> h, by |-> p,
                    before |-> site.own, version |-> deviceVersions[r],
                    decision |-> deviceDecisions[r], reg |-> deviceJobs[r].reg]
            /\ IssueTicket(x)
    BY <1>1 DEF PreparePlan
  <2>2. TicketFits(x)
    BY <1>1, <2>1 DEF TicketFits, Kinds
  <2>3. QED
    BY <1>0, <1>1, <2>1, <2>2, PrepareKeeps DEF PreparePlan
<1>2. ASSUME NEW n \in Plans, NEW p \in Principals, PreparePlanReview(n, p)
      PROVE  ReviewInv'
  <2>1. PICK x :
            /\ x = [kind |-> "plan review", plan |-> n, review |-> plans[n].review,
                    by |-> p, before |-> plans[n].base, version |-> plans[n].version,
                    decision |-> plans[n].decision,
                    reg |-> deviceJobs[plans[n].review].reg]
            /\ IssueTicket(x)
    BY <1>2 DEF PreparePlanReview
  <2>2. PlanFits(plans[n])
    BY <1>2 DEF PreparePlanReview, ReviewInv, PlansFit
  <2>3. TicketFits(x)
    BY <1>2, <2>1, <2>2 DEF TicketFits, Kinds
  <2>4. QED
    BY <1>0, <1>2, <2>1, <2>3, PrepareKeeps DEF PreparePlanReview
<1>3. ASSUME NEW t \in reviewTickets, Redeem(t), NEW n \in Plans, NEW plan,
             PlanFits(plan), plans' = [plans EXCEPT ![n] = plan],
             UNCHANGED <<reviewBoot, release, service, generations, trust, site, receipts,
                         turns, deviceVars>>
      PROVE  ReviewInv'
  <2>1. /\ DOMAIN plans = Plans /\ generations \in Nat
        /\ DOMAIN plans' = Plans
        /\ \A m \in Plans : plans'[m] = IF m = n THEN plan ELSE plans[m]
    BY <1>3 DEF ReviewInv, ReviewTables, ServiceFits, IntakeTypeOK
  <2>2. UNCHANGED <<generations, deviceJobs, deviceVersions, deviceDecisions, jobs,
                    versions, decisions>>
    BY <1>0, <1>3 DEF deviceVars, processVars
  <2>3. RecordsKept
    BY <1>3, <2>1, <2>2 DEF RecordsKept
  <2>4. /\ TicketsFit'
        /\ IsFiniteSet(reviewTickets') /\ Cardinality(reviewTickets') <= MaxTickets
    BY <1>3, <2>3, TicketRedeemed, TicketsStay DEF ReviewInv
  <2>5. PlansFit'
    <3>1. \A m \in Plans : plans'[m] # Absent => PlanFits(plans'[m])
      BY <1>3, <2>1 DEF ReviewInv, PlansFit
    <3>2. QED
      BY <3>1 DEF PlansFit, PlanFits
  <2>6. ReviewTables'
    BY <1>3, <2>1, <2>2 DEF ReviewInv, ReviewTables
  <2>7. QED
    BY <1>0, <1>3, <2>2, <2>4, <2>5, <2>6, ServiceStays, DevicesStay, ProcessesStay,
       DraftsStay DEF ReviewInv
<1>4. ASSUME NEW t \in reviewTickets, CommitPlan(t) PROVE ReviewInv'
  <2>1. PICK plan :
            /\ plan = [state |-> "Proposed", review |-> t.review, version |-> t.version,
                       decision |-> t.decision, host |-> t.host, base |-> t.before,
                       candidates |-> Candidates(t.host, t.before,
                                                 deviceJobs[t.review].package),
                       issues |-> OpenIssues(t.host, t.before),
                       builder |-> release.builder, impact |-> site, by |-> t.by,
                       reviewer |-> Absent]
            /\ plans' = [plans EXCEPT ![t.plan] = plan]
    BY <1>4 DEF CommitPlan
  <2>2. t.plan \in Plans /\ t.by \in Principals
    BY <1>4 DEF CommitPlan, ReviewInv, TicketsFit, TicketFits
  <2>3. t.by # Absent
    BY <2>2, IntakeAssumption
  <2>4. DOMAIN plan = PlanFields
    BY <2>1 DEF PlanFields
  <2>5. /\ plan.state = "Proposed" /\ plan.by = t.by /\ plan.reviewer = Absent
        /\ plan.issues = OpenIssues(plan.host, plan.base)
        /\ plan.host = t.host
        /\ plan.candidates = Candidates(t.host, t.before, deviceJobs[t.review].package)
    BY <2>1
  <2>6. plan.candidates.host = plan.host
    BY <2>5 DEF Candidates
  <2>7. PlanFits(plan)
    BY <2>2, <2>3, <2>4, <2>5, <2>6 DEF PlanFits
  <2>8. QED
    BY <1>3, <1>4, <2>1, <2>2, <2>7 DEF CommitPlan
<1>5. ASSUME NEW t \in reviewTickets, CommitPlanReview(t) PROVE ReviewInv'
  <2>1. /\ t.plan \in Plans /\ t.by \in Principals /\ PlanFits(plans[t.plan])
        /\ DOMAIN plans = Plans
    BY <1>5 DEF CommitPlanReview, ReviewInv, TicketsFit, TicketFits, ReviewTables
  <2>2. PICK plan : /\ plan = Reviewed(plans[t.plan], t.by)
                    /\ plans' = [plans EXCEPT ![t.plan] = plan]
    BY <1>5, <2>1 DEF CommitPlanReview
  <2>3. t.by # Absent /\ plans[t.plan].by # t.by
    BY <1>5, <2>1, IntakeAssumption DEF CommitPlanReview, Reviewable
  <2>4. DOMAIN plan = PlanFields
    BY <2>1, <2>2 DEF Reviewed, PlanFits
  <2>5. plan.state = "ImpactReviewed" /\ plan.reviewer = t.by
    BY <2>1, <2>2 DEF Reviewed, PlanFits, PlanFields
  <2>6. /\ plan.by = plans[t.plan].by /\ plan.issues = plans[t.plan].issues
        /\ plan.host = plans[t.plan].host /\ plan.base = plans[t.plan].base
        /\ plan.candidates = plans[t.plan].candidates
    BY <2>1, <2>2 DEF Reviewed, PlanFits, PlanFields
  <2>7. PlanFits(plan)
    BY <2>1, <2>3, <2>4, <2>5, <2>6 DEF PlanFits
  <2>8. QED
    BY <1>3, <1>5, <2>1, <2>2, <2>7 DEF CommitPlanReview
<1>6. QED
  BY <1>1, <1>2, <1>4, <1>5 DEF Bind

(* The steps of drafts and their bindings (draft_bindings.rs).                 *)
LEMMA AuthorKeeps ==
    ASSUME ReviewInv, Author
    PROVE  ReviewInv'
<1>0. UNCHANGED processVars
  BY DEF Author
<1>1. ASSUME UNCHANGED <<intakeVars, deviceVars, plans>>, DraftsFit' PROVE ReviewInv'
  <2>1. UNCHANGED <<reviewBoot, release, service, generations, trust, site, receipts,
                    reviewTickets, turns, deviceJobs, deviceVersions, deviceDecisions,
                    plans, jobs, versions, decisions>>
    BY <1>0, <1>1 DEF intakeVars, deviceVars, processVars
  <2>2. TicketsFit'
    BY <2>1, RecordsStay, TicketsStay DEF ReviewInv
  <2>3. ServiceFits'
    BY <2>1, ServiceStays DEF ReviewInv, ServiceFits, IntakeTypeOK
  <2>4. QED
    BY <1>1, <2>1, <2>2, <2>3, DevicesStay, PlansStay, ProcessesStay, TablesStay
       DEF ReviewInv
<1>2. ASSUME NEW d \in Documents, SaveDraft(d) PROVE ReviewInv'
  <2>1. draft' # Absent /\ draft'.revision \in Nat
    <3>1. Revision(draft) \in Nat
      BY DEF Revision, ReviewInv, DraftsFit
    <3>2. draft' = [revision |-> Revision(draft) + 1, document |-> d]
      BY <1>2 DEF SaveDraft
    <3>3. draft' \in [revision : Nat, document : Documents]
      BY <3>1, <3>2
    <3>4. QED
      BY <3>3, DraftAssumption
  <2>2. QED
    BY <1>1, <1>2, <2>1 DEF SaveDraft, ReviewInv, DraftsFit, CompiledAsBound
<1>3. ASSUME NEW ps, SaveBindings(ps) PROVE ReviewInv'
  BY <1>1, <1>3 DEF SaveBindings, ReviewInv, DraftsFit, CompiledAsBound
<1>4. ASSUME Compile PROVE ReviewInv'
  <2>1. \A c \in compiled' : c.document = c.boundFor
    BY <1>4 DEF Compile, BindingsFit, ReviewInv, DraftsFit, CompiledAsBound
  <2>2. QED
    BY <1>1, <1>4, <2>1 DEF Compile, ReviewInv, DraftsFit, CompiledAsBound
<1>5. QED
  BY <1>2, <1>3, <1>4 DEF Author

(* The steps of the process review (process_review.rs).                        *)
LEMMA ReviewProcessKeeps ==
    ASSUME ReviewInv, ReviewProcess
    PROVE  ReviewInv'
<1>1. ASSUME NEW a, ConfigureProcessReview(a) PROVE ReviewInv'
  <2>1. /\ Turn \/ UNCHANGED turns
        /\ UNCHANGED <<reviewBoot, release, service, generations, trust, site, receipts,
                       reviewTickets, deviceVars, plans, draftVars, jobs, versions,
                       decisions>>
    BY <1>1 DEF ConfigureProcessReview, Word
  <2>2. site' \in Sites
    BY <2>1 DEF ReviewInv, ServiceFits, IntakeTypeOK
  <2>3. TicketsFit'
    BY <2>1, RecordsStay, TicketsStay DEF ReviewInv, deviceVars
  <2>4. QED
    BY <2>1, <2>2, <2>3, ServiceTurns, DevicesStay, PlansStay, ProcessesStay, DraftsStay,
       TablesStay DEF ReviewInv, deviceVars
<1>2. ASSUME NEW r \in ProcessReviews, NEW i, NEW ps \in SUBSET Plans,
             CreateProcessReview(r, i, ps)
      PROVE  ReviewInv'
  <2>1. /\ jobs[r] = Absent /\ \A n \in ps : Usable(n)
        /\ UNCHANGED <<intakeVars, deviceVars, plans, draftVars, authority, versions,
                       decisions>>
    BY <1>2 DEF CreateProcessReview
  <2>2. PICK j :
            /\ j = [package |-> receipts[i].package, by |-> receipts[i].by,
                    config |-> site.own, rules |-> CurrentIntake.rules,
                    authority |-> Authority, devices |-> [n \in ps |-> plans[n]],
                    trust |-> trust]
            /\ jobs' = [jobs EXCEPT ![r] = j]
    BY <1>2 DEF CreateProcessReview
  <2>3. UNCHANGED <<reviewBoot, release, service, generations, trust, site, receipts,
                    reviewTickets, turns, deviceJobs, deviceVersions, deviceDecisions,
                    plans, versions, decisions>>
    BY <2>1 DEF intakeVars, deviceVars
  <2>4. /\ versions[r] = Absent /\ decisions[r] = Absent
        /\ DOMAIN jobs = ProcessReviews /\ generations \in Nat
    BY <2>1 DEF ReviewInv, ProcessRows, ProcessRow, ReviewTables, ServiceFits, IntakeTypeOK
  <2>5. \A s \in ProcessReviews : jobs'[s] = IF s = r THEN j ELSE jobs[s]
    BY <2>2, <2>4
  <2>6. RecordsKept
    BY <2>1, <2>3, <2>4, <2>5 DEF RecordsKept
  <2>7. TicketsFit'
    BY <2>3, <2>6, TicketsStay DEF ReviewInv
  <2>8. ServiceFits'
    BY <2>3, ServiceStays DEF ReviewInv, ServiceFits, IntakeTypeOK
  <2>9. j.devices = [n \in ps |-> plans[n]]
    BY <2>2
  <2>10. \A n \in DOMAIN j.devices :
            /\ n \in Plans /\ PlanFits(j.devices[n])
            /\ j.devices[n].state = "ImpactReviewed" /\ j.devices[n].issues = {}
    BY <1>2, <2>1, <2>9 DEF Usable, ReviewInv, PlansFit
  <2>11. ProcessRows'
    <3>1. ASSUME NEW s \in ProcessReviews PROVE ProcessRow(s)'
      <4>1. CASE s = r
        <5>1. jobs'[s] = j /\ versions'[s] = Absent /\ decisions'[s] = Absent
          BY <2>3, <2>4, <2>5, <4>1
        <5>2. QED
          BY <2>10, <5>1 DEF ProcessRow, PlanFits
      <4>2. CASE s # r
        <5>1. jobs'[s] = jobs[s]
          BY <2>5, <4>2
        <5>2. ProcessRow(s)
          BY DEF ReviewInv, ProcessRows
        <5>3. QED
          BY <2>3, <5>1, <5>2 DEF ProcessRow, PlanFits, Checked, Candidate
      <4>3. QED
        BY <4>1, <4>2
    <3>2. QED
      BY <3>1 DEF ProcessRows
  <2>12. ReviewTables'
    BY <2>2, <2>3 DEF ReviewInv, ReviewTables
  <2>13. QED
    BY <2>1, <2>3, <2>7, <2>8, <2>11, <2>12, DevicesStay, PlansStay, DraftsStay
       DEF ReviewInv
<1>3. ASSUME NEW r \in ProcessReviews, NEW v \in Reports, PrepareProcessReport(r, v)
      PROVE  ReviewInv'
  <2>1. PICK x :
            /\ x = [kind |-> "report", review |-> r, report |-> v,
                    expected |-> Revision(versions[r]), reg |-> CurrentIntake]
            /\ IssueTicket(x)
    BY <1>3 DEF PrepareProcessReport
  <2>2. Revision(versions[r]) \in Nat
    BY ReviewAssumption DEF Revision, ReviewInv, ProcessRows, ProcessRow
  <2>3. TicketFits(x)
    BY <1>3, <2>1, <2>2 DEF PrepareProcessReport, TicketFits, Kinds
  <2>4. QED
    BY <1>3, <2>1, <2>3, PrepareKeeps DEF PrepareProcessReport
<1>4. ASSUME NEW r \in ProcessReviews, NEW c, NEW p, PrepareProcessDecision(r, c, p)
      PROVE  ReviewInv'
  <2>1. PICK x :
            /\ x = [kind |-> "decision", review |-> r, choice |-> c, by |-> p,
                    version |-> versions[r], expected |-> Revision(decisions[r]),
                    reg |-> CurrentIntake]
            /\ IssueTicket(x)
    BY <1>4 DEF PrepareProcessDecision
  <2>2. Revision(decisions[r]) \in Nat
    BY ReviewAssumption DEF Revision, ReviewInv, ProcessRows, ProcessRow
  <2>3. TicketFits(x)
    BY <1>4, <2>1, <2>2 DEF PrepareProcessDecision, TicketFits, Kinds
  <2>4. QED
    BY <1>4, <2>1, <2>3, PrepareKeeps DEF PrepareProcessDecision
<1>5. ASSUME NEW t \in reviewTickets, CommitProcessReport(t) PROVE ReviewInv'
  <2>1. /\ t.kind = "report" /\ Redeem(t)
        /\ UNCHANGED <<reviewBoot, release, service, generations, trust, site, receipts,
                       turns, deviceVars, plans, draftVars, authority, jobs, decisions>>
    BY <1>5 DEF CommitProcessReport
  <2>2. PICK v :
            /\ v = [revision |-> t.expected + 1, report |-> t.report,
                    checker |-> release.process,
                    ready |-> t.report \in Passing /\ Checked(jobs[t.review])]
            /\ versions' = [versions EXCEPT ![t.review] = v]
    BY <1>5 DEF CommitProcessReport
  <2>3. /\ t.review \in ProcessReviews /\ jobs[t.review] # Absent
        /\ t.report \in Reports /\ t.expected \in Nat /\ t.expected < MaxVersions
        /\ release \in Releases /\ DOMAIN versions = ProcessReviews
    BY <1>5, <2>1
       DEF ReviewInv, TicketsFit, TicketFits, ServiceFits, IntakeTypeOK, ReviewTables
  <2>4. v \in Version
    <3>1. release.process \in Checkers
      BY <2>3 DEF Checkers
    <3>2. (t.report \in Passing /\ Checked(jobs[t.review])) \in BOOLEAN
      OBVIOUS
    <3>3. QED
      BY <2>2, <2>3, <3>1, <3>2 DEF Version
  <2>5. /\ v # Absent /\ v.revision \in 1..MaxVersions
        /\ v.ready => v.report \in Passing
    <3>1. v # Absent
      BY <2>4, ReviewAssumption
    <3>2. v.revision \in 1..MaxVersions
      BY <2>2, <2>3, ReviewAssumption
    <3>3. /\ v.ready = (t.report \in Passing /\ Checked(jobs[t.review]))
          /\ v.report = t.report
      BY <2>2
    <3>4. QED
      BY <3>1, <3>2, <3>3
  <2>6. RecordsKept
    <3>1. \A s \in ProcessReviews : versions[s] # Absent => versions'[s] # Absent
      BY <2>2, <2>3, <2>5
    <3>2. generations \in Nat
      BY DEF ReviewInv, ServiceFits, IntakeTypeOK
    <3>3. UNCHANGED <<generations, deviceJobs, deviceVersions, plans, jobs>>
      BY <2>1 DEF deviceVars
    <3>4. QED
      BY <3>1, <3>2, <3>3 DEF RecordsKept
  <2>7. /\ TicketsFit'
        /\ IsFiniteSet(reviewTickets') /\ Cardinality(reviewTickets') <= MaxTickets
    BY <2>1, <2>6, TicketRedeemed, TicketsStay DEF ReviewInv
  <2>8. ProcessRows'
    <3>1. ASSUME NEW s \in ProcessReviews PROVE ProcessRow(s)'
      <4>1. ProcessRow(s)
        BY DEF ReviewInv, ProcessRows
      <4>2. CASE s = t.review
        <5>1. versions'[s] = v
          BY <2>2, <2>3, <4>2
        <5>2. QED
          BY <2>1, <2>3, <2>5, <4>1, <4>2, <5>1
             DEF ProcessRow, PlanFits, Checked, Candidate
      <4>3. CASE s # t.review
        <5>1. versions'[s] = versions[s]
          BY <2>2, <2>3, <4>3
        <5>2. QED
          BY <2>1, <4>1, <5>1 DEF ProcessRow, PlanFits, Checked, Candidate
      <4>4. QED
        BY <4>2, <4>3
    <3>2. QED
      BY <3>1 DEF ProcessRows
  <2>9. ReviewTables'
    BY <2>1, <2>2 DEF ReviewInv, ReviewTables, deviceVars
  <2>10. QED
    BY <2>1, <2>7, <2>8, <2>9, ServiceStays, DevicesStay, PlansStay, DraftsStay
       DEF ReviewInv, deviceVars
<1>6. ASSUME NEW t \in reviewTickets, CommitProcessDecision(t) PROVE ReviewInv'
  <2>1. /\ t.kind = "decision" /\ Redeem(t) /\ versions[t.review] = t.version
        /\ UNCHANGED <<reviewBoot, release, service, generations, trust, site, receipts,
                       turns, deviceVars, plans, draftVars, authority, jobs, versions>>
    BY <1>6 DEF CommitProcessDecision
  <2>2. PICK d :
            /\ d = [revision |-> t.expected + 1, choice |-> t.choice,
                    version |-> t.version, by |-> t.by,
                    under |-> <<site.own,
                         IF CurrentIntake = Absent THEN Absent ELSE CurrentIntake.rules,
                         Authority, release.process>>]
            /\ decisions' = [decisions EXCEPT ![t.review] = d]
    BY <1>6 DEF CommitProcessDecision
  <2>3. /\ t.review \in ProcessReviews /\ versions[t.review] # Absent
        /\ t.expected \in Nat /\ t.expected < MaxDecisions
        /\ DOMAIN decisions = ProcessReviews
    BY <1>6, <2>1 DEF ReviewInv, TicketsFit, TicketFits, ReviewTables
  <2>4. t.choice = "Approve" =>
            /\ t.by # jobs[t.review].by
            /\ site.own = jobs[t.review].config
            /\ CurrentIntake # Absent /\ CurrentIntake.rules = jobs[t.review].rules
            /\ Authority = jobs[t.review].authority
            /\ release.process = t.version.checker
            /\ t.version.report \in Passing /\ Checked(jobs[t.review])
    BY <1>6, <2>1
       DEF CommitProcessDecision, Approvable, ReviewContextMatches, WorkerApproves
  <2>5. /\ d.revision \in 1..MaxDecisions
        /\ d.choice = "Approve" =>
            /\ d.by # jobs[t.review].by
            /\ d.version.report \in Passing /\ Checked(jobs[t.review])
            /\ d.under = <<jobs[t.review].config, jobs[t.review].rules,
                           jobs[t.review].authority, d.version.checker>>
    BY <2>2, <2>3, <2>4, ReviewAssumption
  <2>6. RecordsKept
    BY <2>1, RecordsStay DEF ReviewInv, deviceVars
  <2>7. /\ TicketsFit'
        /\ IsFiniteSet(reviewTickets') /\ Cardinality(reviewTickets') <= MaxTickets
    BY <2>1, <2>6, TicketRedeemed, TicketsStay DEF ReviewInv
  <2>8. ProcessRows'
    <3>1. ASSUME NEW s \in ProcessReviews PROVE ProcessRow(s)'
      <4>1. ProcessRow(s)
        BY DEF ReviewInv, ProcessRows
      <4>2. CASE s = t.review
        <5>1. decisions'[s] = d
          BY <2>2, <2>3, <4>2
        <5>2. QED
          BY <2>1, <2>3, <2>5, <4>1, <4>2, <5>1
             DEF ProcessRow, PlanFits, Checked, Candidate
      <4>3. CASE s # t.review
        <5>1. decisions'[s] = decisions[s]
          BY <2>2, <2>3, <4>3
        <5>2. QED
          BY <2>1, <4>1, <5>1 DEF ProcessRow, PlanFits, Checked, Candidate
      <4>4. QED
        BY <4>2, <4>3
    <3>2. QED
      BY <3>1 DEF ProcessRows
  <2>9. ReviewTables'
    BY <2>1, <2>2 DEF ReviewInv, ReviewTables, deviceVars
  <2>10. QED
    BY <2>1, <2>7, <2>8, <2>9, ServiceStays, DevicesStay, PlansStay, DraftsStay
       DEF ReviewInv, deviceVars
<1>7. QED
  BY <1>1, <1>2, <1>3, <1>4, <1>5, <1>6 DEF ReviewProcess

-----------------------------------------------------------------------------
(* What the invariant says of every state: an approval that the reads show as  *)
(* in force is one that somebody gave for what it is applied to now.           *)
LEMMA InvariantHolds == ReviewInv => ReviewsHold
<1> SUFFICES ASSUME ReviewInv PROVE ReviewsHold
  OBVIOUS
<1>1. ReviewTypeOK
  <2>1. \A n \in Plans : plans[n] # Absent =>
            plans[n].state = "ImpactReviewed" <=> plans[n].reviewer # Absent
    BY DEF ReviewInv, PlansFit, PlanFits
  <2>2. QED
    BY <2>1 DEF ReviewTypeOK, ReviewInv, ServiceFits, TicketsFit, TicketFits, DeviceRows,
                DeviceRow, ProcessRows, ProcessRow, DraftsFit
<1>2. DeviceTrustUnbroken
  <2>1. ASSUME NEW r \in DeviceReviews, deviceJobs[r] # Absent,
               DeviceContext(deviceJobs[r])
        PROVE  deviceJobs[r].trust = trust
    <3>1. /\ deviceJobs[r].reg \in [gen : 1..generations, owner : Owners, rules : Rules]
          /\ service.reg = deviceJobs[r].reg => deviceJobs[r].trust = trust
      BY <2>1 DEF ReviewInv, DeviceRows, DeviceRow, Registrations
    <3>2. generations \in Nat
      BY DEF ReviewInv, ServiceFits, IntakeTypeOK
    <3>3. deviceJobs[r].reg # Absent
      BY <3>1, <3>2, IntakeAssumption
    <3>4. QED
      BY <2>1, <3>1, <3>3 DEF DeviceContext, CurrentIntake
  <2>2. QED
    BY <2>1 DEF DeviceTrustUnbroken
<1>3. DeviceApprovalHolds
  BY DEF DeviceApprovalHolds, DeviceEffective, DeviceContext, ReviewInv, DeviceRows,
         DeviceRow
<1>4. ApprovalHolds
  BY DEF ApprovalHolds, Effective, ReviewContextMatches, ReviewInv, ProcessRows, ProcessRow
<1>5. ApprovedStepsExist
  <2>1. ASSUME NEW r \in ProcessReviews, Effective(r)
        PROVE  /\ jobs[r].package.catalog = Catalog(DOMAIN jobs[r].devices)
               /\ \A n \in DOMAIN jobs[r].devices :
                    /\ plans[n].candidates.host \in site.own.hosts
                    /\ plans[n].impact = site
                    /\ plans[n].reviewer \notin {Absent, plans[n].by}
                    /\ DeviceEffective(plans[n].review)
    <3>1. /\ decisions[r] # Absent /\ decisions[r].choice = "Approve"
          /\ DeviceContextCurrent(jobs[r]) /\ site.own = jobs[r].config
      BY <2>1 DEF Effective, ReviewContextMatches
    <3>2. Checked(jobs[r]) /\ jobs[r] # Absent
      BY <3>1 DEF ReviewInv, ProcessRows, ProcessRow
    <3>3. jobs[r].package.catalog = Catalog(DOMAIN jobs[r].devices)
      BY <3>1, <3>2 DEF Checked, Candidate, Catalog
    <3>4. ASSUME NEW n \in DOMAIN jobs[r].devices
          PROVE  /\ plans[n].candidates.host \in site.own.hosts
                 /\ plans[n].impact = site
                 /\ plans[n].reviewer \notin {Absent, plans[n].by}
                 /\ DeviceEffective(plans[n].review)
      <4>1. /\ PlanFits(plans[n]) /\ plans[n].state = "ImpactReviewed"
            /\ plans[n].issues = {}
        BY <3>1, <3>2 DEF DeviceContextCurrent, ReviewInv, ProcessRows, ProcessRow
      <4>2. PlanCurrent(plans[n]) /\ DeviceEffective(plans[n].review)
        BY <3>1 DEF DeviceContextCurrent, DeviceApproved
      <4>3. plans[n].host \in plans[n].base.hosts
        BY <4>1 DEF PlanFits, OpenIssues
      <4>4. QED
        BY <4>1, <4>2, <4>3 DEF PlanFits, PlanCurrent
    <3>5. QED
      BY <3>3, <3>4
  <2>2. QED
    BY <2>1 DEF ApprovedStepsExist
<1>6. CompiledAsBound
  BY DEF ReviewInv, DraftsFit
<1>7. QED
  BY <1>1, <1>2, <1>3, <1>4, <1>5, <1>6 DEF ReviewsHold

(* Of two decisions prepared side by side the second one is refused            *)
(* (commit_device_decision, commit_review_decision).                           *)
LEMMA DecisionsAreSeen ==
    ASSUME ReviewInv, [ReviewNext]_reviewVars
    PROVE  DecisionsStand
<1>1. CASE UNCHANGED <<deviceDecisions, decisions>>
  BY <1>1 DEF DecisionsStand
<1>2. ASSUME NEW t \in reviewTickets, CommitDeviceDecision(t), UNCHANGED processVars
      PROVE  DecisionsStand
  <2>1. /\ t.review \in DeviceReviews /\ DOMAIN deviceDecisions = DeviceReviews
    BY <1>2 DEF CommitDeviceDecision, ReviewInv, TicketsFit, TicketFits, ReviewTables
  <2>2. PICK d : /\ deviceDecisions' = [deviceDecisions EXCEPT ![t.review] = d]
                 /\ d = [revision |-> t.expected + 1, choice |-> t.choice,
                         version |-> t.version, by |-> t.by,
                         under |-> <<site.own, CurrentIntake, DeviceAuthority,
                                     release.device>>]
    BY <1>2 DEF CommitDeviceDecision
  <2>3. d.revision = Revision(deviceDecisions[t.review]) + 1
    BY <1>2, <2>2 DEF CommitDeviceDecision, DeviceDecisionAsSeen
  <2>4. QED
    BY <1>2, <2>1, <2>2, <2>3 DEF DecisionsStand, processVars
<1>3. ASSUME NEW t \in reviewTickets, CommitProcessDecision(t) PROVE DecisionsStand
  <2>1. /\ t.review \in ProcessReviews /\ DOMAIN decisions = ProcessReviews
    BY <1>3 DEF CommitProcessDecision, ReviewInv, TicketsFit, TicketFits, ReviewTables
  <2>2. PICK d : /\ decisions' = [decisions EXCEPT ![t.review] = d]
                 /\ d = [revision |-> t.expected + 1, choice |-> t.choice,
                         version |-> t.version, by |-> t.by,
                         under |-> <<site.own,
                            IF CurrentIntake = Absent THEN Absent ELSE CurrentIntake.rules,
                            Authority, release.process>>]
    BY <1>3 DEF CommitProcessDecision
  <2>3. d.revision = Revision(decisions[t.review]) + 1
    BY <1>3, <2>2 DEF CommitProcessDecision, DecisionAsSeen
  <2>4. UNCHANGED deviceDecisions
    BY <1>3 DEF CommitProcessDecision, deviceVars
  <2>5. QED
    BY <2>1, <2>2, <2>3, <2>4 DEF DecisionsStand
<1>4. CASE Intake
  BY <1>1, <1>4 DEF Intake, deviceVars, processVars
<1>5. CASE ReviewDevice
  <2>1. UNCHANGED processVars
    BY <1>5 DEF ReviewDevice
  <2>2. UNCHANGED deviceDecisions \/ \E t \in reviewTickets : CommitDeviceDecision(t)
    BY <1>5 DEF ReviewDevice, ConfigureDeviceReview, CreateDeviceReview,
         PrepareDeviceReport, PrepareDeviceDecision, CommitDeviceReport, deviceVars,
         reviewedVars
  <2>3. QED
    BY <1>1, <1>2, <2>1, <2>2 DEF processVars
<1>6. CASE Bind
  BY <1>1, <1>6 DEF Bind, PreparePlan, PreparePlanReview, CommitPlan, CommitPlanReview,
                    deviceVars, processVars
<1>7. CASE Author
  BY <1>1, <1>7 DEF Author, SaveDraft, SaveBindings, Compile, deviceVars, processVars
<1>8. CASE ReviewProcess
  <2>1. \/ UNCHANGED <<deviceDecisions, decisions>>
        \/ \E t \in reviewTickets : CommitProcessDecision(t)
    BY <1>8 DEF ReviewProcess, ConfigureProcessReview, CreateProcessReview,
         PrepareProcessReport, PrepareProcessDecision, CommitProcessReport, deviceVars,
         processVars
  <2>2. QED
    BY <1>1, <1>3, <2>1
<1>9. CASE UNCHANGED reviewVars
  BY <1>1, <1>9 DEF reviewVars, deviceVars, processVars
<1>10. QED
  BY <1>4, <1>5, <1>6, <1>7, <1>8, <1>9 DEF ReviewNext

(* ReviewInv is inductive.                                                     *)
LEMMA ReviewsKeep == ReviewInv /\ [ReviewNext]_reviewVars => ReviewInv'
<1> SUFFICES ASSUME ReviewInv, [ReviewNext]_reviewVars PROVE ReviewInv'
  OBVIOUS
<1>1. CASE UNCHANGED reviewVars
  <2>1. UNCHANGED <<reviewBoot, release, service, generations, trust, site, receipts,
                    reviewTickets, turns, deviceJobs, deviceVersions, deviceDecisions,
                    plans, draftVars, jobs, versions, decisions>>
    BY <1>1 DEF reviewVars, intakeVars, deviceVars, processVars
  <2>2. TicketsFit'
    BY <2>1, RecordsStay, TicketsStay DEF ReviewInv
  <2>3. ServiceFits'
    BY <2>1, ServiceStays DEF ReviewInv, ServiceFits, IntakeTypeOK
  <2>4. QED
    BY <2>1, <2>2, <2>3, DevicesStay, PlansStay, ProcessesStay, DraftsStay, TablesStay
       DEF ReviewInv
<1>2. QED
  BY <1>1, IntakeKeeps, ReviewDeviceKeeps, BindKeeps, AuthorKeeps, ReviewProcessKeeps
     DEF ReviewNext

(* Approvals of device and process packages in force were given for what they  *)
(* are applied to now, and none is lost to a decision its author did not see   *)
(* (device_review, device_binding, draft_bindings, process_review).            *)
THEOREM ReviewsAreAlwaysSound == ReviewSpec => ReviewsAreSound
<1>1. ReviewSpec => []ReviewInv
  BY ReviewsBegin, ReviewsKeep, PTL DEF ReviewSpec
<1>2. ReviewInv /\ ReviewInv' /\ [ReviewNext]_reviewVars =>
            [ReviewsHold' /\ DecisionsStand]_reviewVars
  <2> SUFFICES ASSUME ReviewInv, ReviewInv', [ReviewNext]_reviewVars
               PROVE  ReviewsHold' /\ DecisionsStand
    OBVIOUS
  <2>1. ReviewsHold'
    BY InvariantHolds, PTL
  <2>2. QED
    BY <2>1, DecisionsAreSeen
<1>3. ReviewInv => ReviewsHold
  BY InvariantHolds
<1>4. QED
  BY <1>1, <1>2, <1>3, PTL DEF ReviewSpec, ReviewsAreSound

-----------------------------------------------------------------------------
(* The changes and the hosts they configure.                                   *)

(* The stored group, the tickets, the hosts and the coordinators.              *)
Group == [config : Configs, epoch : 1..MaxEpoch,
          blocks : SUBSET (Changes \cup {"restart"}), selection : Changes \cup {None}]
Ticket == [change : Changes, action : {"propose", "stage", "apply"}, rev : 0..MaxRev,
           boot : 1..MaxBoot, before : Configs]
HostRecord == [gen : 1..MaxGen, epoch : 1..MaxEpoch, context : Contexts,
               fenced : SUBSET ((1..MaxEpoch) \X (1..MaxGen)), cells : CellsSeen]
WorkerRecord == [at : {"idle", "bind", "enter", "sent", "record"},
                 task : Tasks \cup {None}, seen : Observations \cup {None},
                 retry : BOOLEAN]

(* The stored changes and runs.                                                *)
ChangeTypes ==
    /\ boot \in 1..MaxBoot
    /\ group \in Group
    /\ change \in [Changes -> ChangeRecord \cup {None}]
    /\ approved \subseteq Changes
    /\ tickets \subseteq Ticket
    /\ run \in [Runs -> RunRecord \cup {None}]
    /\ fences \in [Hosts -> SUBSET (1..MaxEpoch)]

(* The tasks, their coordinators and the hosts.                                *)
DispatchTypes ==
    /\ reg \in [Hosts -> 1..MaxGen]
    /\ task \in [Tasks -> TaskRecord \cup {None}]
    /\ host \in [Hosts -> HostRecord]
    /\ receipt \in [Tasks -> Receipts]
    /\ wire \subseteq Tasks
    /\ worker \in [Hosts -> WorkerRecord]

(* No host is ahead of the platform.                                           *)
EpochsFit ==
    \A h \in Hosts :
        /\ fences[h] \subseteq 1..group.epoch
        /\ host[h].epoch <= group.epoch
        /\ reg[h] <= host[h].gen

(* The preparation of a change, and whether it is under way.                   *)
Prep(c) == IF change[c] = None THEN None ELSE change[c].prep
Preparing(c) == change[c] # None /\ change[c].state = "staged" /\ change[c].prep # None

(* A change is prepared once it is staged and stays so; until it is qualified  *)
(* its block stands.                                                           *)
StagesFit ==
    \A c \in Changes : change[c] # None =>
        /\ change[c].state \in {"proposed", "reviewed"} => change[c].prep = None
        /\ Applied(c) => change[c].prep # None
        /\ Mode[c] = "revalidate" => change[c].after = change[c].before
        /\ change[c].prep # None /\ change[c].state # "qualified" => c \in group.blocks

(* One change at a time is between its preparation and its application.        *)
OnePreparation ==
    \A c, d \in Changes : Preparing(c) /\ Preparing(d) => c = d

(* The selection names the applied change whose configuration the group has.   *)
SelectionFits ==
    /\ group.selection = None => group.config = Start /\ \A c \in Changes : ~Applied(c)
    /\ group.selection # None =>
            Applied(group.selection) /\ change[group.selection].after = group.config
    /\ LineageIsNotForked

(* A run without a binding is older than every selection.                      *)
RunsFit ==
    \A r \in Runs : run[r] # None =>
        IF run[r].bound = None THEN run[r].origin = Start /\ group.selection = None
        ELSE run[r].bound = run[r].origin

(* A request that was entered and that the host has not answered.              *)
Open(k) == task[k] # None /\ task[k].phase = "send_entered" /\ receipt[k] = None

(* A task belongs to an attempt of its change; what it records of the host's   *)
(* answer is that answer; a request is open only while its change is being     *)
(* prepared and nothing runs; and what the host accepted for the present       *)
(* attempt is what it has.                                                     *)
TaskFits(k) ==
    /\ task[k] # None =>
        /\ Prep(ChangeOf(k)) # None /\ AttemptOf(k) <= Prep(ChangeOf(k)).attempt
        /\ ~task[k].disputed
        /\ task[k].receipt # None => task[k].receipt = receipt[k]
    /\ receipt[k] # None \/ k \in wire => task[k] # None /\ task[k].phase = "send_entered"
    /\ Open(k) => Preparing(ChangeOf(k)) /\ \A r \in Runs : ~Live(r)
    /\ /\ Preparing(ChangeOf(k)) /\ AttemptOf(k) = Prep(ChangeOf(k)).attempt
       /\ receipt[k] # None /\ receipt[k].status = "applied"
       => host[HostOf(k)].context = [config |-> change[ChangeOf(k)].after, task |-> k]

(* Every task does.                                                            *)
TasksFit == \A k \in Tasks : TaskFits(k)

(* What a host has is what it accepted from one of its own requests.           *)
ContextsFit ==
    \A h \in Hosts : host[h].context # None =>
        HostOf(host[h].context.task) = h /\ receipt[host[h].context.task] # None

(* A coordinator works on a task of its host; the answer it is about to record *)
(* is the host's, and no older than the one that is recorded.                  *)
WorkerFits(h) ==
    LET w == worker[h] IN
    w.at # "idle" =>
        /\ w.task \in Tasks /\ HostOf(w.task) = h /\ task[w.task] # None
        /\ w.at \in {"bind", "record"} => w.seen # None
        /\ w.at = "record" =>
            /\ w.seen.receipt # None => w.seen.receipt = receipt[w.task]
            /\ w.seen.receipt = None =>
                /\ task[w.task].receipt = None
                /\ w.seen.context # None => w.seen.context.task # w.task

(* Every coordinator does.                                                     *)
WorkersFit == \A h \in Hosts : WorkerFits(h)

(* The inductive invariant of the changes.                                     *)
ChangeInv ==
    /\ ChangeTypes /\ DispatchTypes /\ EpochsFit
    /\ StagesFit /\ OnePreparation /\ SelectionFits /\ RunsFit
    /\ TasksFit /\ OneOpenSend /\ ContextsFit /\ WorkersFit
    /\ HostsFollowSelection /\ RunMatchesItsHosts

-----------------------------------------------------------------------------
(* A task is its change, its attempt and its host.                             *)
LEMMA TaskParts ==
    ASSUME NEW k \in Tasks
    PROVE  /\ ChangeOf(k) \in Changes /\ AttemptOf(k) \in 1..MaxAttempt
           /\ HostOf(k) \in Hosts
           /\ k = <<ChangeOf(k), AttemptOf(k), HostOf(k)>>
  BY DEF Tasks, ChangeOf, AttemptOf, HostOf

(* A change, an attempt and a host are a task.                                 *)
LEMMA TaskOf ==
    ASSUME NEW c \in Changes, NEW a \in 1..MaxAttempt, NEW h \in Hosts
    PROVE  /\ <<c, a, h>> \in Tasks
           /\ ChangeOf(<<c, a, h>>) = c /\ AttemptOf(<<c, a, h>>) = a
           /\ HostOf(<<c, a, h>>) = h
  BY DEF Tasks, ChangeOf, AttemptOf, HostOf

(* Every bound is a positive number.                                           *)
LEMMA Bounds ==
    /\ MaxEpoch \in Nat /\ MaxBoot \in Nat /\ MaxGen \in Nat /\ MaxRev \in Nat
    /\ MaxAttempt \in Nat
    /\ 1 <= MaxEpoch /\ 1 <= MaxBoot /\ 1 <= MaxGen /\ 1 <= MaxRev /\ 1 <= MaxAttempt
  BY ChangeAssumption

(* What a step may do to the changes without touching a preparation.           *)
PrepsStay ==
    \A c \in Changes :
        /\ Prep(c)' = Prep(c)
        /\ Preparing(c)' <=> Preparing(c)
        /\ Prep(c) # None => change'[c].after = change[c].after

(* No run becomes live.                                                        *)
NoneGoesLive == \A r \in Runs : Live(r)' => Live(r)

(* The tasks when no request, receipt or context changes.                      *)
LEMMA TasksStay ==
    ASSUME TasksFit, PrepsStay, NoneGoesLive, UNCHANGED <<task, receipt>>,
           wire' \subseteq wire, \A h \in Hosts : host'[h].context = host[h].context
    PROVE  TasksFit'
<1> SUFFICES ASSUME NEW k \in Tasks PROVE TaskFits(k)'
  BY DEF TasksFit
<1>1. TaskFits(k) /\ ChangeOf(k) \in Changes /\ HostOf(k) \in Hosts
  BY TaskParts DEF TasksFit
<1> DEFINE c == ChangeOf(k)
<1>2. /\ Prep(c)' = Prep(c) /\ (Preparing(c)' <=> Preparing(c))
      /\ Prep(c) # None => change'[c].after = change[c].after
  BY <1>1 DEF PrepsStay
<1>3. Preparing(c) => Prep(c) # None
  BY DEF Preparing, Prep
<1>4. host'[HostOf(k)].context = host[HostOf(k)].context
  BY <1>1
<1>5. /\ task'[k] = task[k] /\ receipt'[k] = receipt[k] /\ (k \in wire' => k \in wire)
      /\ Open(k)' <=> Open(k)
  BY DEF Open
<1>6. (\A r \in Runs : ~Live(r)) => \A r \in Runs : ~Live(r)'
  BY DEF NoneGoesLive
<1>7. QED
  BY <1>1, <1>2, <1>3, <1>4, <1>5, <1>6 DEF TaskFits

(* Sends, when no task changes.                                                *)
LEMMA SendsStay == ASSUME OneOpenSend, UNCHANGED task PROVE OneOpenSend'
  BY DEF OneOpenSend

(* Contexts, when no host accepts anything.                                    *)
LEMMA ContextsStay ==
    ASSUME ContextsFit, \A h \in Hosts : host'[h].context = host[h].context,
           UNCHANGED receipt
    PROVE  ContextsFit'
  BY DEF ContextsFit, HostOf

(* Coordinators, when neither they nor their tasks move.                       *)
LEMMA WorkersStay ==
    ASSUME WorkersFit, UNCHANGED <<worker, task, receipt>>
    PROVE  WorkersFit'
  BY DEF WorkersFit, WorkerFits, HostOf

(* Changes and selection nobody touched.                                       *)
LEMMA StagesStay ==
    ASSUME StagesFit, OnePreparation, SelectionFits, UNCHANGED <<change, group>>
    PROVE  StagesFit' /\ OnePreparation' /\ SelectionFits'
<1>1. StagesFit'
  BY DEF StagesFit, Applied
<1>2. OnePreparation'
  BY DEF OnePreparation, Preparing
<1>3. SelectionFits'
  BY DEF SelectionFits, Applied, LineageIsNotForked
<1>4. QED
  BY <1>1, <1>2, <1>3

(* Runs nobody touched.                                                        *)
LEMMA RunsStay == ASSUME RunsFit, UNCHANGED <<run, group>> PROVE RunsFit'
  BY DEF RunsFit

(* Hosts and runs agree as before when neither side changes.                   *)
LEMMA HostsStay ==
    ASSUME HostsFollowSelection, RunMatchesItsHosts, UNCHANGED <<group, change, run>>,
           \A h \in Hosts : host'[h].context = host[h].context
    PROVE  HostsFollowSelection' /\ RunMatchesItsHosts'
<1>1. HostsFollowSelection'
  BY DEF HostsFollowSelection
<1>2. RunMatchesItsHosts'
  BY DEF RunMatchesItsHosts, Live
<1>3. QED
  BY <1>1, <1>2

(* Changes and runs nobody touched begin nothing.                              *)
LEMMA PreparationsStay == ASSUME UNCHANGED <<change, run>> PROVE PrepsStay /\ NoneGoesLive
  BY DEF PrepsStay, NoneGoesLive, Prep, Preparing, Live

(* A step that leaves the records, the requests and the hosts alone.           *)
LEMMA QuietStep ==
    ASSUME ChangeInv,
           UNCHANGED <<group, change, run, fences, reg, task, host, receipt, wire, worker>>,
           boot' \in 1..MaxBoot, approved' \subseteq Changes, tickets' \subseteq Ticket
    PROVE  ChangeInv'
<1>1. ChangeTypes' /\ DispatchTypes'
  BY DEF ChangeInv, ChangeTypes, DispatchTypes
<1>2. EpochsFit'
  BY DEF ChangeInv, EpochsFit
<1>3. StagesFit' /\ OnePreparation' /\ SelectionFits' /\ RunsFit'
  BY StagesStay, RunsStay DEF ChangeInv
<1>4. TasksFit' /\ OneOpenSend' /\ ContextsFit' /\ WorkersFit'
  BY PreparationsStay, TasksStay, SendsStay, ContextsStay, WorkersStay DEF ChangeInv
<1>5. HostsFollowSelection' /\ RunMatchesItsHosts'
  BY HostsStay DEF ChangeInv
<1>6. QED
  BY <1>1, <1>2, <1>3, <1>4, <1>5 DEF ChangeInv

-----------------------------------------------------------------------------
(* A step that records something of a change without beginning or ending a     *)
(* preparation.                                                                *)
LEMMA RecordStep ==
    ASSUME ChangeInv, ChangeTypes', EpochsFit', StagesFit', PrepsStay, WorkersFit',
           worker' \in [Hosts -> WorkerRecord],
           UNCHANGED <<run, reg, task, host, receipt, wire>>,
           group'.config = group.config, group'.selection = group.selection,
           \A c \in Changes : /\ Applied(c)' <=> Applied(c)
                              /\ Applied(c) => change'[c].after = change[c].after
    PROVE  ChangeInv'
<1>1. DispatchTypes'
  BY DEF ChangeInv, DispatchTypes
<1>2. OnePreparation'
  BY DEF ChangeInv, OnePreparation, PrepsStay
<1>3. SelectionFits'
  <2>1. group.selection \in Changes \cup {None}
    BY DEF ChangeInv, ChangeTypes, Group
  <2>2. LineageIsNotForked'
    BY <2>1 DEF ChangeInv, SelectionFits, LineageIsNotForked
  <2>3. (group.selection = None => group.config = Start /\ \A c \in Changes : ~Applied(c))'
    BY DEF ChangeInv, SelectionFits
  <2>4. (group.selection # None =>
            Applied(group.selection) /\ change[group.selection].after = group.config)'
    <3>1. CASE group.selection = None
      BY <3>1
    <3>2. CASE group.selection # None
      <4>1. PICK s \in Changes : s = group.selection
        BY <2>1, <3>2
      <4>2. Applied(s) /\ change[s].after = group.config
        BY <4>1, <3>2 DEF ChangeInv, SelectionFits
      <4>3. Applied(s)' /\ change'[s].after = group'.config
        BY <4>2
      <4>4. QED
        BY <4>1, <4>3 DEF Applied
    <3>3. QED
      BY <3>1, <3>2
  <2>5. QED
    BY <2>2, <2>3, <2>4 DEF SelectionFits
<1>4. RunsFit'
  BY DEF ChangeInv, RunsFit
<1>5. NoneGoesLive
  BY DEF NoneGoesLive, Live
<1>6. TasksFit' /\ OneOpenSend' /\ ContextsFit'
  BY <1>5, TasksStay, SendsStay, ContextsStay DEF ChangeInv
<1>7. HostsFollowSelection'
  <2>1. \A d \in Changes : Preparing(d)' <=> Preparing(d)
    BY DEF PrepsStay
  <2>2. QED
    BY <2>1 DEF ChangeInv, HostsFollowSelection, Preparing
<1>8. RunMatchesItsHosts'
  BY DEF ChangeInv, RunMatchesItsHosts, Live
<1>9. QED
  BY <1>1, <1>2, <1>3, <1>4, <1>6, <1>7, <1>8 DEF ChangeInv

(* A step that leaves the changes, the runs and the hosts' contexts alone.     *)
LEMMA DispatchStep ==
    ASSUME ChangeInv, DispatchTypes', fences' \in [Hosts -> SUBSET (1..MaxEpoch)],
           EpochsFit', TasksFit', OneOpenSend', WorkersFit',
           UNCHANGED <<boot, group, change, approved, tickets, run, receipt>>,
           \A h \in Hosts : host'[h].context = host[h].context
    PROVE  ChangeInv'
<1>1. ChangeTypes'
  BY DEF ChangeInv, ChangeTypes
<1>2. StagesFit' /\ OnePreparation' /\ SelectionFits' /\ RunsFit'
  BY StagesStay, RunsStay DEF ChangeInv
<1>3. ContextsFit' /\ HostsFollowSelection' /\ RunMatchesItsHosts'
  BY ContextsStay, HostsStay DEF ChangeInv
<1>4. QED
  BY <1>1, <1>2, <1>3 DEF ChangeInv

(* What a coordinator may make of the task it works on: what is recorded of    *)
(* the host's answer is the answer, a send is never taken back, and one is     *)
(* entered only for the present attempt, while nothing runs.                   *)
Worked(k) ==
    /\ task'[k] # None /\ ~task'[k].disputed
    /\ task'[k].receipt # None => task'[k].receipt = receipt[k]
    /\ task[k].receipt # None => task'[k].receipt # None
    /\ task[k].phase = "send_entered" => task'[k].phase = "send_entered"
    /\ task'[k].phase = "send_entered" /\ task[k].phase # "send_entered" =>
        /\ Preparing(ChangeOf(k)) /\ AttemptOf(k) = Prep(ChangeOf(k)).attempt
        /\ \A r \in Runs : ~Live(r)

(* A coordinator's step on one task.                                           *)
LEMMA WorkStep ==
    ASSUME ChangeInv, NEW k \in Tasks, task[k] # None, Worked(k),
           UNCHANGED <<boot, group, change, approved, tickets, run, fences,
                       reg, host, receipt>>,
           task' \in [Tasks -> TaskRecord \cup {None}],
           \A j \in Tasks : j # k => task'[j] = task[j],
           wire' \subseteq wire \cup {k}, k \in wire' => task'[k].phase = "send_entered",
           worker' \in [Hosts -> WorkerRecord], WorkerFits(HostOf(k))',
           \A g \in Hosts : g # HostOf(k) => worker'[g] = worker[g]
    PROVE  ChangeInv'
<1>1. DispatchTypes' /\ fences' \in [Hosts -> SUBSET (1..MaxEpoch)] /\ EpochsFit'
  BY DEF ChangeInv, ChangeTypes, DispatchTypes, EpochsFit
<1>2. PrepsStay /\ NoneGoesLive
  BY PreparationsStay
<1>3. \A h \in Hosts : host'[h].context = host[h].context
  OBVIOUS
<1>4. TasksFit'
  <2> SUFFICES ASSUME NEW j \in Tasks PROVE TaskFits(j)'
    BY DEF TasksFit
  <2> DEFINE c == ChangeOf(j)
  <2>1. TaskFits(j) /\ c \in Changes /\ HostOf(j) \in Hosts
    BY TaskParts DEF ChangeInv, TasksFit
  <2>2. /\ Prep(c)' = Prep(c) /\ (Preparing(c)' <=> Preparing(c))
        /\ change'[c].after = change[c].after
    BY <2>1, <1>2 DEF PrepsStay
  <2>3. (\A r \in Runs : ~Live(r)) => \A r \in Runs : ~Live(r)'
    BY <1>2 DEF NoneGoesLive
  <2>4. CASE j # k
    <3>1. /\ task'[j] = task[j] /\ receipt'[j] = receipt[j] /\ (j \in wire' => j \in wire)
          /\ Open(j)' <=> Open(j)
      BY <2>4 DEF Open
    <3>2. QED
      BY <2>1, <2>2, <2>3, <3>1 DEF TaskFits
  <2>5. CASE j = k
    <3>1. receipt'[k] = receipt[k] /\ (receipt[k] # None => task[k].phase = "send_entered")
      BY <2>1, <2>5 DEF TaskFits
    <3>2. Open(k)' => Preparing(ChangeOf(k)) /\ \A r \in Runs : ~Live(r)
      BY <2>1, <2>5, <3>1 DEF Open, Worked, TaskFits
    <3>3. /\ task'[k] # None => /\ Prep(c)' # None /\ AttemptOf(k) <= Prep(c)'.attempt
                                /\ ~task'[k].disputed
                                /\ task'[k].receipt # None => task'[k].receipt = receipt'[k]
      BY <2>1, <2>2, <2>5, <3>1 DEF Worked, TaskFits
    <3>4. receipt'[k] # None \/ k \in wire' => task'[k] # None /\ task'[k].phase = "send_entered"
      BY <3>1 DEF Worked
    <3>5. QED
      BY <2>1, <2>2, <2>3, <2>5, <3>1, <3>2, <3>3, <3>4 DEF TaskFits
  <2>6. QED
    BY <2>4, <2>5
<1>5. OneOpenSend'
  <2> SUFFICES ASSUME NEW i \in Tasks, NEW j \in Tasks,
                      ChangeOf(i) = ChangeOf(j), AttemptOf(i) < AttemptOf(j),
                      task'[i] # None, task'[j] # None,
                      task'[i].phase = "send_entered", task'[i].receipt = None
               PROVE  FALSE
    BY DEF OneOpenSend
  <2>1. task[i] # None /\ task[j] # None
    OBVIOUS
  <2>2. ~(task[i].phase = "send_entered" /\ task[i].receipt = None)
    BY <2>1 DEF ChangeInv, OneOpenSend
  <2>3. i = k
    BY <2>2
  <2>4. Preparing(ChangeOf(i)) /\ AttemptOf(i) = Prep(ChangeOf(i)).attempt
    BY <2>2, <2>3 DEF Worked
  <2>5. AttemptOf(j) <= Prep(ChangeOf(j)).attempt
    BY <2>1 DEF ChangeInv, TasksFit, TaskFits
  <2>6. AttemptOf(i) \in Nat /\ AttemptOf(j) \in Nat
    BY TaskParts, Bounds
  <2>7. QED
    BY <2>4, <2>5, <2>6
<1>6. WorkersFit'
  <2> SUFFICES ASSUME NEW g \in Hosts, g # HostOf(k) PROVE WorkerFits(g)'
    BY DEF WorkersFit
  <2>1. WorkerFits(g) /\ worker'[g] = worker[g]
    BY DEF ChangeInv, WorkersFit
  <2>2. worker[g].at # "idle" => worker[g].task # k /\ worker[g].task \in Tasks
    BY <2>1 DEF WorkerFits
  <2>3. worker[g].at # "idle" => task'[worker[g].task] = task[worker[g].task]
    BY <2>2
  <2>4. QED
    BY <2>1, <2>3 DEF WorkerFits, HostOf
<1>7. QED
  BY <1>1, <1>3, <1>4, <1>5, <1>6, DispatchStep

-----------------------------------------------------------------------------
(* The initial states.                                                         *)
LEMMA ChangeInitially == ASSUME Init PROVE ChangeInv
<1> USE Bounds
<1>1. /\ boot = 1
      /\ group = [config |-> Start, epoch |-> 1, blocks |-> {}, selection |-> None]
      /\ change = [c \in Changes |-> None]
      /\ approved = Changes /\ tickets = {}
      /\ run \in [Runs -> {None, [live |-> TRUE, origin |-> Start, bound |-> None]}]
      /\ fences = [h \in Hosts |-> {}]
  BY DEF Init, InitChange
<1>2. /\ reg = [h \in Hosts |-> 1] /\ task = [k \in Tasks |-> None]
      /\ host = [h \in Hosts |-> [gen |-> 1, epoch |-> 1, context |-> None,
                                fenced |-> {}, cells |-> "as_named"]]
      /\ receipt = [k \in Tasks |-> None] /\ wire = {}
      /\ worker = [h \in Hosts |-> Idle]
  BY DEF Init
<1>3. Start \in Configs
  BY DEF Configs
<1>4. \A r \in Runs : run[r] # None =>
        /\ run[r] = [live |-> TRUE, origin |-> Start, bound |-> None]
        /\ run[r] \in RunRecord
  <2>1. [live |-> TRUE, origin |-> Start, bound |-> None] \in RunRecord
    BY <1>3 DEF RunRecord
  <2>2. QED
    BY <1>1, <2>1
<1>5. ChangeTypes
  <2>1. run \in [Runs -> RunRecord \cup {None}]
    BY <1>1, <1>4
  <2>2. group \in Group
    BY <1>1, <1>3 DEF Group
  <2>3. QED
    BY <1>1, <2>1, <2>2 DEF ChangeTypes
<1>6. DispatchTypes
  BY <1>2 DEF DispatchTypes, HostRecord, CellsSeen, WorkerRecord, Idle, Contexts, Receipts
<1>7. EpochsFit
  BY <1>1, <1>2 DEF EpochsFit
<1>8. StagesFit /\ OnePreparation /\ SelectionFits
  BY <1>1 DEF StagesFit, OnePreparation, SelectionFits, Applied, Preparing,
              LineageIsNotForked
<1>9. RunsFit
  BY <1>1, <1>4 DEF RunsFit
<1>10. TasksFit /\ OneOpenSend /\ ContextsFit
  BY <1>2, TaskParts DEF TasksFit, TaskFits, OneOpenSend, ContextsFit, Open
<1>11. WorkersFit
  BY <1>2 DEF WorkersFit, WorkerFits, Idle
<1>12. HostsFollowSelection
  BY <1>1 DEF HostsFollowSelection
<1>13. RunMatchesItsHosts
  BY <1>2, <1>4 DEF RunMatchesItsHosts, Live
<1>14. QED
  BY <1>5, <1>6, <1>7, <1>8, <1>9, <1>10, <1>11, <1>12, <1>13 DEF ChangeInv

(* What recording a new state of a change writes.                              *)
LEMMA RecordedFits ==
    ASSUME ChangeTypes, NEW c \in Changes, Revise(c), Recorded(c, "reviewed")
             \/ Recorded(c, "staged") \/ Recorded(c, "applied") \/ Recorded(c, "qualified")
    PROVE  /\ change' \in [Changes -> ChangeRecord \cup {None}]
           /\ \A d \in Changes : d # c => change'[d] = change[d]
           /\ change[c] # None /\ change'[c] # None
           /\ change'[c].before = change[c].before /\ change'[c].after = change[c].after
           /\ change'[c].prep = change[c].prep
           /\ \A s \in {"reviewed", "staged", "applied", "qualified"} :
                Recorded(c, s) => change'[c].state = s
<1>1. change[c] # None /\ change[c] \in ChangeRecord /\ change[c].rev < MaxRev
  BY DEF ChangeTypes, Revise
<1>2. PICK s \in {"reviewed", "staged", "applied", "qualified"} : Recorded(c, s)
  OBVIOUS
<1>3. change' = [change EXCEPT ![c].state = s, ![c].rev = @ + 1]
  BY <1>2 DEF Recorded
<1>4. /\ change'[c] = [change[c] EXCEPT !.state = s, !.rev = @ + 1]
      /\ \A d \in Changes : d # c => change'[d] = change[d]
  BY <1>3 DEF ChangeTypes
<1>5. change'[c] \in ChangeRecord /\ change'[c].state = s
  <2>1. change[c].rev \in 1..MaxRev
    BY <1>1 DEF ChangeRecord
  <2>2. change[c].rev + 1 \in 1..MaxRev
    BY <1>1, <2>1, Bounds
  <2>3. QED
    BY <1>1, <1>2, <1>4, <2>2 DEF ChangeRecord
<1>6. change' \in [Changes -> ChangeRecord \cup {None}]
  BY <1>3, <1>4, <1>5 DEF ChangeTypes
<1>7. change'[c] # None
  BY <1>5, ChangeAssumption
<1>8. /\ change'[c].before = change[c].before /\ change'[c].after = change[c].after
      /\ change'[c].prep = change[c].prep
  BY <1>1, <1>4 DEF ChangeRecord
<1>9. ASSUME NEW u \in {"reviewed", "staged", "applied", "qualified"}, Recorded(c, u)
      PROVE  change'[c].state = u
  BY <1>9, <1>1 DEF Recorded, ChangeTypes, ChangeRecord
<1>10. QED
  BY <1>1, <1>4, <1>6, <1>7, <1>8, <1>9

(* What revoking the group's authority writes.                                 *)
LEMMA InvalidatedFits ==
    ASSUME ChangeTypes, DispatchTypes, EpochsFit, group.epoch < MaxEpoch,
           NEW w \in Changes \cup {"restart"},
           fences' = FencesOwed, UNCHANGED <<host, reg>>,
           group'.epoch = group.epoch + 1
    PROVE  /\ Invalidated(group, w) \in Group
           /\ Invalidated(group, w).config = group.config
           /\ Invalidated(group, w).epoch = group.epoch + 1
           /\ Invalidated(group, w).blocks = group.blocks \cup {w}
           /\ Invalidated(group, w).selection = group.selection
           /\ fences' \in [Hosts -> SUBSET (1..MaxEpoch)]
           /\ EpochsFit'
<1>1. group \in Group /\ group.epoch \in 1..MaxEpoch /\ MaxEpoch \in Nat
  BY Bounds DEF ChangeTypes, Group
<1>2. group.epoch + 1 \in 1..MaxEpoch
  BY <1>1
<1>3. \A h \in Hosts : fences[h] \subseteq 1..group.epoch
  BY DEF EpochsFit
<1>4. \A h \in Hosts : fences'[h] \subseteq 1..(group.epoch + 1)
  BY <1>1, <1>3 DEF FencesOwed
<1>5. fences' \in [Hosts -> SUBSET (1..MaxEpoch)]
  <2>1. \A h \in Hosts : FencesOwed[h] \in SUBSET (1..MaxEpoch)
    BY <1>1, <1>2, <1>3 DEF FencesOwed
  <2>2. QED
    BY <2>1 DEF FencesOwed
<1>6. EpochsFit'
  <2> SUFFICES ASSUME NEW h \in Hosts
               PROVE  host'[h].epoch <= group'.epoch /\ reg'[h] <= host'[h].gen
    BY <1>4 DEF EpochsFit
  <2>1. host[h].epoch <= group.epoch /\ reg[h] <= host[h].gen
    BY DEF EpochsFit
  <2>2. host[h].epoch \in Nat
    BY Bounds DEF DispatchTypes, HostRecord
  <2>3. QED
    BY <2>1, <2>2, <1>1
<1>7. /\ Invalidated(group, w) \in Group
      /\ Invalidated(group, w).config = group.config
      /\ Invalidated(group, w).epoch = group.epoch + 1
      /\ Invalidated(group, w).blocks = group.blocks \cup {w}
      /\ Invalidated(group, w).selection = group.selection
  BY <1>1, <1>2 DEF Invalidated, Group
<1>8. QED
  BY <1>5, <1>6, <1>7

-----------------------------------------------------------------------------
(* A record that neither begins nor ends a preparation, nor an application.    *)
LEMMA RecordedStays ==
    ASSUME ChangeInv, NEW c \in Changes,
           \A d \in Changes : d # c => change'[d] = change[d],
           change'[c] # None, change[c] # None,
           change'[c].after = change[c].after, change'[c].prep = change[c].prep,
           \/ change[c].prep = None
           \/ change[c].state # "staged" /\ change'[c].state # "staged",
           change'[c].state \in {"applied", "qualified"} <=>
               change[c].state \in {"applied", "qualified"}
    PROVE  /\ PrepsStay
           /\ \A d \in Changes : /\ Applied(d)' <=> Applied(d)
                                 /\ Applied(d) => change'[d].after = change[d].after
<1>1. PrepsStay
  <2> SUFFICES ASSUME NEW d \in Changes
               PROVE  /\ Prep(d)' = Prep(d) /\ (Preparing(d)' <=> Preparing(d))
                      /\ Prep(d) # None => change'[d].after = change[d].after
    BY DEF PrepsStay
  <2>1. QED
    BY DEF Prep, Preparing
<1>2. \A d \in Changes : /\ Applied(d)' <=> Applied(d)
                         /\ Applied(d) => change'[d].after = change[d].after
  BY DEF Applied
<1>3. QED
  BY <1>1, <1>2

(* A change is committed as proposed.                                          *)
LEMMA CommitChangeKeeps ==
    ASSUME ChangeInv, NEW t \in tickets, CommitChange(t), UNCHANGED dispatchVars
    PROVE  ChangeInv'
<1> DEFINE c == t.change
<1>1. c \in Changes /\ t.before \in Configs
  BY DEF ChangeInv, ChangeTypes, Ticket
<1>2. PICK v : v = [state |-> "proposed", rev |-> 1, before |-> t.before,
                    after |-> Built(t), prep |-> None]
  OBVIOUS
<1>3. /\ change' = [change EXCEPT ![c] = v] /\ change[c] = None
      /\ tickets' \subseteq tickets /\ UNCHANGED <<boot, group, approved, run, fences>>
  BY <1>2 DEF CommitChange
<1>4. UNCHANGED <<reg, task, host, receipt, wire, worker>>
  BY DEF dispatchVars
<1>5. v \in ChangeRecord
  <2>1. Built(t) \in Configs
    BY <1>1 DEF Built, Configs
  <2>2. QED
    BY <1>1, <1>2, <2>1, Bounds DEF ChangeRecord
<1>6. /\ change' \in [Changes -> ChangeRecord \cup {None}] /\ change'[c] = v
      /\ \A d \in Changes : d # c => change'[d] = change[d]
  BY <1>1, <1>3, <1>5 DEF ChangeInv, ChangeTypes
<1>7. v # None /\ v.prep = None /\ v.state = "proposed"
      /\ (Mode[c] = "revalidate" => v.after = v.before)
  BY <1>2, <1>5, ChangeAssumption DEF Built
<1>8. ChangeTypes' /\ EpochsFit'
  BY <1>3, <1>4, <1>6 DEF ChangeInv, ChangeTypes, EpochsFit
<1>9. StagesFit'
  <2> SUFFICES ASSUME NEW d \in Changes, change'[d] # None
               PROVE  /\ change'[d].state \in {"proposed", "reviewed"} => change'[d].prep = None
                      /\ Applied(d)' => change'[d].prep # None
                      /\ Mode[d] = "revalidate" => change'[d].after = change'[d].before
                      /\ change'[d].prep # None /\ change'[d].state # "qualified" =>
                            d \in group'.blocks
    BY DEF StagesFit
  <2>1. CASE d = c
    BY <2>1, <1>6, <1>7 DEF Applied
  <2>2. CASE d # c
    BY <2>2, <1>3, <1>6 DEF ChangeInv, StagesFit, Applied
  <2>3. QED
    BY <2>1, <2>2
<1>10. PrepsStay /\ \A d \in Changes : /\ Applied(d)' <=> Applied(d)
                                       /\ Applied(d) => change'[d].after = change[d].after
  <2>1. ~Applied(c) /\ ~Applied(c)' /\ Prep(c) = None /\ Prep(c)' = None
        /\ ~Preparing(c) /\ ~Preparing(c)'
    BY <1>3, <1>6, <1>7 DEF Applied, Prep, Preparing
  <2>2. \A d \in Changes : d # c => /\ Prep(d)' = Prep(d) /\ (Preparing(d)' <=> Preparing(d))
                                    /\ change'[d] = change[d]
    BY <1>6 DEF Prep, Preparing
  <2>3. PrepsStay
    BY <2>1, <2>2 DEF PrepsStay
  <2>4. QED
    BY <2>1, <2>2, <2>3 DEF Applied
<1>11. WorkersFit' /\ worker' \in [Hosts -> WorkerRecord]
  BY <1>4, WorkersStay DEF ChangeInv, DispatchTypes
<1>12. QED
  BY <1>3, <1>4, <1>8, <1>9, <1>10, <1>11, RecordStep

(* An accepted impact review, and a verified stage, are recorded before any    *)
(* preparation.                                                                *)
LEMMA RevisionKeeps ==
    ASSUME ChangeInv, NEW c \in Changes, Revise(c), NEW s \in {"reviewed", "staged"},
           change[c].state \in {"proposed", "reviewed"}, Recorded(c, s),
           tickets' \subseteq tickets,
           UNCHANGED <<boot, group, approved, run, fences, dispatchVars>>
    PROVE  ChangeInv'
<1>1. UNCHANGED <<reg, task, host, receipt, wire, worker>>
  BY DEF dispatchVars
<1>2. /\ change' \in [Changes -> ChangeRecord \cup {None}]
      /\ \A d \in Changes : d # c => change'[d] = change[d]
      /\ change[c] # None /\ change'[c] # None
      /\ change'[c].before = change[c].before /\ change'[c].after = change[c].after
      /\ change'[c].prep = change[c].prep /\ change'[c].state = s
  BY RecordedFits DEF ChangeInv
<1>3. change[c].prep = None
  BY <1>2 DEF ChangeInv, StagesFit
<1>4. ChangeTypes' /\ EpochsFit'
  BY <1>1, <1>2 DEF ChangeInv, ChangeTypes, EpochsFit
<1>5. StagesFit'
  BY <1>2, <1>3 DEF ChangeInv, StagesFit, Applied
<1>6. /\ PrepsStay
      /\ \A d \in Changes : /\ Applied(d)' <=> Applied(d)
                            /\ Applied(d) => change'[d].after = change[d].after
  BY <1>2, <1>3, RecordedStays
<1>7. WorkersFit' /\ worker' \in [Hosts -> WorkerRecord]
  BY <1>1, WorkersStay DEF ChangeInv, DispatchTypes
<1>8. QED
  BY <1>1, <1>4, <1>5, <1>6, <1>7, RecordStep

(* A qualification lifts the blocks of its own change, which it ends.          *)
LEMMA QualifyKeeps ==
    ASSUME ChangeInv, NEW c \in Changes, Qualify(c), UNCHANGED dispatchVars
    PROVE  ChangeInv'
<1>1. UNCHANGED <<reg, task, host, receipt, wire, worker, boot, approved, tickets, run, fences>>
  BY DEF dispatchVars, Qualify
<1>2. Revise(c) /\ change[c].state = "applied" /\ Recorded(c, "qualified")
      /\ group' = [group EXCEPT !.blocks = @ \ {c, "restart"}]
  BY DEF Qualify
<1>3. /\ change' \in [Changes -> ChangeRecord \cup {None}]
      /\ \A d \in Changes : d # c => change'[d] = change[d]
      /\ change[c] # None /\ change'[c] # None
      /\ change'[c].before = change[c].before /\ change'[c].after = change[c].after
      /\ change'[c].prep = change[c].prep /\ change'[c].state = "qualified"
  BY <1>2, RecordedFits DEF ChangeInv
<1>4. /\ group' \in Group /\ group'.config = group.config
      /\ group'.selection = group.selection /\ group'.epoch = group.epoch
      /\ group'.blocks = group.blocks \ {c, "restart"}
  BY <1>2 DEF ChangeInv, ChangeTypes, Group
<1>5. ChangeTypes' /\ EpochsFit'
  BY <1>1, <1>3, <1>4 DEF ChangeInv, ChangeTypes, EpochsFit
<1>6. StagesFit'
  <2> SUFFICES ASSUME NEW d \in Changes, change'[d] # None
               PROVE  /\ change'[d].state \in {"proposed", "reviewed"} => change'[d].prep = None
                      /\ Applied(d)' => change'[d].prep # None
                      /\ Mode[d] = "revalidate" => change'[d].after = change'[d].before
                      /\ change'[d].prep # None /\ change'[d].state # "qualified" =>
                            d \in group'.blocks
    BY DEF StagesFit
  <2>1. CASE d = c
    BY <2>1, <1>2, <1>3 DEF ChangeInv, StagesFit, Applied
  <2>2. CASE d # c
    <3>1. d # "restart"
      BY ChangeAssumption
    <3>2. QED
      BY <2>2, <3>1, <1>3, <1>4 DEF ChangeInv, StagesFit, Applied
  <2>3. QED
    BY <2>1, <2>2
<1>7. /\ PrepsStay
      /\ \A d \in Changes : /\ Applied(d)' <=> Applied(d)
                            /\ Applied(d) => change'[d].after = change[d].after
  BY <1>2, <1>3, RecordedStays
<1>8. WorkersFit' /\ worker' \in [Hosts -> WorkerRecord]
  BY <1>1, WorkersStay DEF ChangeInv, DispatchTypes
<1>9. QED
  BY <1>1, <1>4, <1>5, <1>6, <1>7, <1>8, RecordStep

(* A suspended qualification blocks its group again.                           *)
LEMMA SuspendKeeps ==
    ASSUME ChangeInv, NEW c \in Changes, SuspendQualification(c), UNCHANGED dispatchVars
    PROVE  ChangeInv'
<1>1. UNCHANGED <<reg, task, host, receipt, wire, worker, boot, approved, tickets, run>>
  BY DEF dispatchVars, SuspendQualification
<1>2. Revise(c) /\ change[c].state = "qualified" /\ Recorded(c, "applied")
      /\ group' = Invalidated(group, c) /\ group.epoch < MaxEpoch /\ fences' = FencesOwed
  BY DEF SuspendQualification
<1>3. /\ change' \in [Changes -> ChangeRecord \cup {None}]
      /\ \A d \in Changes : d # c => change'[d] = change[d]
      /\ change[c] # None /\ change'[c] # None
      /\ change'[c].before = change[c].before /\ change'[c].after = change[c].after
      /\ change'[c].prep = change[c].prep /\ change'[c].state = "applied"
  BY <1>2, RecordedFits DEF ChangeInv
<1>4. group'.epoch = group.epoch + 1
  BY <1>2 DEF Invalidated, ChangeInv, ChangeTypes, Group
<1>5. /\ group' \in Group /\ group'.config = group.config
      /\ group'.selection = group.selection /\ group'.blocks = group.blocks \cup {c}
      /\ fences' \in [Hosts -> SUBSET (1..MaxEpoch)] /\ EpochsFit'
  BY <1>1, <1>2, <1>4, InvalidatedFits DEF ChangeInv
<1>6. ChangeTypes'
  BY <1>1, <1>3, <1>5 DEF ChangeInv, ChangeTypes
<1>7. StagesFit'
  <2> SUFFICES ASSUME NEW d \in Changes, change'[d] # None
               PROVE  /\ change'[d].state \in {"proposed", "reviewed"} => change'[d].prep = None
                      /\ Applied(d)' => change'[d].prep # None
                      /\ Mode[d] = "revalidate" => change'[d].after = change'[d].before
                      /\ change'[d].prep # None /\ change'[d].state # "qualified" =>
                            d \in group'.blocks
    BY DEF StagesFit
  <2>1. CASE d = c
    BY <2>1, <1>2, <1>3, <1>5 DEF ChangeInv, StagesFit, Applied
  <2>2. CASE d # c
    BY <2>2, <1>3, <1>5 DEF ChangeInv, StagesFit, Applied
  <2>3. QED
    BY <2>1, <2>2
<1>8. /\ PrepsStay
      /\ \A d \in Changes : /\ Applied(d)' <=> Applied(d)
                            /\ Applied(d) => change'[d].after = change[d].after
  BY <1>2, <1>3, RecordedStays
<1>9. WorkersFit' /\ worker' \in [Hosts -> WorkerRecord]
  BY <1>1, WorkersStay DEF ChangeInv, DispatchTypes
<1>10. QED
  BY <1>1, <1>5, <1>6, <1>7, <1>8, <1>9, RecordStep

-----------------------------------------------------------------------------
(* A preparation begins, or begins again: its attempt is one no task has.      *)
LEMMA BeginPreparationKeeps ==
    ASSUME ChangeInv, NEW c \in Changes, BeginPreparation(c), UNCHANGED dispatchVars
    PROVE  ChangeInv'
<1>1. UNCHANGED <<reg, task, host, receipt, wire, worker, boot, approved, tickets, run>>
  BY DEF dispatchVars, BeginPreparation
<1>2. PICK a : a = IF change[c].prep = None THEN 1 ELSE change[c].prep.attempt + 1
  OBVIOUS
<1>3. PICK p : p = [attempt |-> a, boot |-> boot, epoch |-> group.epoch + 1]
  OBVIOUS
<1>4. /\ Revise(c) /\ change[c].state = "staged" /\ Exclusive(c)
      /\ group.epoch < MaxEpoch /\ a <= MaxAttempt
      /\ change' = [change EXCEPT ![c].rev = @ + 1, ![c].prep = p]
      /\ group' = Invalidated(group, c) /\ fences' = FencesOwed
  BY <1>2, <1>3 DEF BeginPreparation
<1>5. change[c] # None /\ change[c] \in ChangeRecord /\ change[c].rev < MaxRev
      /\ change[c].prep \in Attempts \cup {None}
  BY <1>4 DEF ChangeInv, ChangeTypes, Revise, ChangeRecord
<1>6. a \in 1..MaxAttempt /\ (change[c].prep # None => change[c].prep.attempt < a)
  BY <1>2, <1>4, <1>5, Bounds DEF Attempts
<1>7. p \in Attempts /\ p # None /\ p.attempt = a
  <2>1. group.epoch + 1 \in 1..MaxEpoch
    BY <1>4, Bounds DEF ChangeInv, ChangeTypes, Group
  <2>2. boot \in 1..MaxBoot
    BY DEF ChangeInv, ChangeTypes
  <2>3. QED
    BY <1>3, <1>6, <2>1, <2>2, ChangeAssumption DEF Attempts
<1>8. /\ change'[c] = [change[c] EXCEPT !.rev = @ + 1, !.prep = p]
      /\ \A d \in Changes : d # c => change'[d] = change[d]
  BY <1>4 DEF ChangeInv, ChangeTypes
<1>9. change[c].rev + 1 \in 1..MaxRev
  BY <1>5, Bounds DEF ChangeRecord
<1>10. /\ change'[c] \in ChangeRecord /\ change'[c] # None
       /\ change'[c].state = "staged" /\ change'[c].prep = p
       /\ change'[c].before = change[c].before /\ change'[c].after = change[c].after
  <2>1. change'[c] \in ChangeRecord
    BY <1>5, <1>7, <1>8, <1>9 DEF ChangeRecord
  <2>2. /\ change'[c].state = "staged" /\ change'[c].prep = p
        /\ change'[c].before = change[c].before /\ change'[c].after = change[c].after
    <3>1. DOMAIN change[c] = {"state", "rev", "before", "after", "prep"}
      BY <1>5 DEF ChangeRecord
    <3>2. change'[c].prep = p
      BY <3>1, <1>8
    <3>3. /\ change'[c].state = change[c].state
          /\ change'[c].before = change[c].before /\ change'[c].after = change[c].after
      BY <1>8
    <3>4. QED
      BY <1>4, <3>2, <3>3
  <2>3. change'[c] # None
    BY <2>1, ChangeAssumption
  <2>4. QED
    BY <2>1, <2>2, <2>3
<1>11. change' \in [Changes -> ChangeRecord \cup {None}]
  BY <1>4, <1>8, <1>10 DEF ChangeInv, ChangeTypes
<1>12. group'.epoch = group.epoch + 1
  BY <1>4 DEF Invalidated, ChangeInv, ChangeTypes, Group
<1>13. /\ group' \in Group /\ group'.config = group.config
       /\ group'.selection = group.selection /\ group'.blocks = group.blocks \cup {c}
       /\ fences' \in [Hosts -> SUBSET (1..MaxEpoch)] /\ EpochsFit'
  BY <1>1, <1>4, <1>12, InvalidatedFits DEF ChangeInv
<1>14. ChangeTypes' /\ DispatchTypes'
  BY <1>1, <1>11, <1>13 DEF ChangeInv, ChangeTypes, DispatchTypes
<1>15. StagesFit'
  <2> SUFFICES ASSUME NEW d \in Changes, change'[d] # None
               PROVE  /\ change'[d].state \in {"proposed", "reviewed"} => change'[d].prep = None
                      /\ Applied(d)' => change'[d].prep # None
                      /\ Mode[d] = "revalidate" => change'[d].after = change'[d].before
                      /\ change'[d].prep # None /\ change'[d].state # "qualified" =>
                            d \in group'.blocks
    BY DEF StagesFit
  <2>1. CASE d = c
    BY <2>1, <1>4, <1>5, <1>10, <1>13 DEF ChangeInv, StagesFit, Applied
  <2>2. CASE d # c
    BY <2>2, <1>8, <1>13 DEF ChangeInv, StagesFit, Applied
  <2>3. QED
    BY <2>1, <2>2
<1>16. Preparing(c)' /\ Prep(c)' = p
  BY <1>7, <1>10 DEF Preparing, Prep
<1>17. \A d \in Changes : d # c => ~Preparing(d)' /\ Prep(d)' = Prep(d)
  <2> SUFFICES ASSUME NEW d \in Changes, d # c PROVE ~Preparing(d)' /\ Prep(d)' = Prep(d)
    OBVIOUS
  <2>1. ~(change[d] # None /\ change[d].prep # None /\ change[d].state # "qualified")
    BY <1>4 DEF Exclusive
  <2>2. QED
    BY <2>1, <1>8 DEF Preparing, Prep
<1>18. OnePreparation'
  BY <1>17 DEF OnePreparation
<1>19. \A d \in Changes : /\ Applied(d)' <=> Applied(d)
                          /\ change[d] # None => change'[d].after = change[d].after
  BY <1>4, <1>5, <1>8, <1>10 DEF Applied
<1>20. SelectionFits'
  <2>1. group.selection \in Changes \cup {None}
    BY DEF ChangeInv, ChangeTypes, Group
  <2>2. LineageIsNotForked'
    BY <2>1, <1>13, <1>19 DEF ChangeInv, SelectionFits, LineageIsNotForked, Applied
  <2>3. (group.selection = None => group.config = Start /\ \A d \in Changes : ~Applied(d))'
    BY <1>13, <1>19 DEF ChangeInv, SelectionFits
  <2>4. CASE group.selection = None
    BY <2>2, <2>3, <2>4, <1>13 DEF SelectionFits
  <2>5. CASE group.selection # None
    <3>1. PICK s \in Changes : s = group.selection
      BY <2>1, <2>5
    <3>2. Applied(s) /\ change[s].after = group.config
      BY <3>1, <2>5 DEF ChangeInv, SelectionFits
    <3>3. Applied(s)' /\ change'[s].after = group'.config
      BY <3>2, <1>13, <1>19 DEF Applied
    <3>4. QED
      BY <2>2, <2>3, <3>1, <3>3, <1>13 DEF SelectionFits, Applied
  <2>6. QED
    BY <2>4, <2>5
<1>21. RunsFit'
  BY <1>1, <1>13 DEF ChangeInv, RunsFit
<1>22. TasksFit'
  <2> SUFFICES ASSUME NEW k \in Tasks PROVE TaskFits(k)'
    BY DEF TasksFit
  <2> DEFINE d == ChangeOf(k)
  <2>1. TaskFits(k) /\ d \in Changes /\ HostOf(k) \in Hosts /\ AttemptOf(k) \in 1..MaxAttempt
    BY TaskParts DEF ChangeInv, TasksFit
  <2>2. /\ task'[k] = task[k] /\ receipt'[k] = receipt[k] /\ (k \in wire' <=> k \in wire)
        /\ Open(k)' <=> Open(k)
    BY <1>1 DEF Open
  <2>3. (\A r \in Runs : ~Live(r)) => \A r \in Runs : ~Live(r)'
    BY <1>1 DEF Live
  <2>4. CASE d = c
    <3>1. task[k] # None => Prep(c) # None /\ AttemptOf(k) <= Prep(c).attempt
      BY <2>1, <2>4 DEF TaskFits
    <3>2. task[k] # None => AttemptOf(k) < a
      BY <3>1, <2>1, <1>5, <1>6, Bounds DEF Prep, Attempts
    <3>3. task[k] # None => Prep(d)' # None /\ AttemptOf(k) <= Prep(d)'.attempt
      BY <3>2, <2>1, <2>4, <1>6, <1>7, <1>16, Bounds
    <3>4. receipt[k] # None => AttemptOf(k) # Prep(d)'.attempt
      BY <3>2, <2>1, <2>4, <1>6, <1>7, <1>16, Bounds DEF TaskFits
    <3>5. Preparing(d)'
      BY <2>4, <1>16
    <3>6. QED
      BY <2>1, <2>2, <2>3, <3>3, <3>4, <3>5 DEF TaskFits
  <2>5. CASE d # c
    <3>1. ~Preparing(d)' /\ Prep(d)' = Prep(d) /\ ~Preparing(d)
      BY <2>1, <2>5, <1>17, <1>8 DEF Preparing
    <3>2. ~Open(k)
      BY <3>1, <2>1 DEF TaskFits
    <3>3. QED
      BY <2>1, <2>2, <2>3, <3>1, <3>2 DEF TaskFits
  <2>6. QED
    BY <2>4, <2>5
<1>23. OneOpenSend' /\ WorkersFit' /\ ContextsFit'
  BY <1>1, SendsStay, WorkersStay, ContextsStay DEF ChangeInv
<1>24. HostsFollowSelection'
  BY <1>16 DEF HostsFollowSelection, Preparing
<1>25. RunMatchesItsHosts'
  BY <1>1 DEF ChangeInv, RunMatchesItsHosts, Live
<1>26. QED
  BY <1>13, <1>14, <1>15, <1>18, <1>20, <1>21, <1>22, <1>23, <1>24, <1>25 DEF ChangeInv

(* A run starts where nothing is blocked, so nothing is being configured and   *)
(* every host has what the platform selected.                                  *)
LEMMA StartRunKeeps ==
    ASSUME ChangeInv, NEW q \in Runs, StartRun(q), UNCHANGED dispatchVars
    PROVE  ChangeInv'
<1>1. UNCHANGED <<reg, task, host, receipt, wire, worker, boot, group, change, approved,
                  tickets, fences>>
  BY DEF dispatchVars, StartRun
<1>2. PICK v : v = [live |-> TRUE, origin |-> group.config, bound |-> group.config]
  OBVIOUS
<1>3. run[q] = None /\ group.blocks = {} /\ run' = [run EXCEPT ![q] = v]
  BY <1>2 DEF StartRun
<1>4. group.config \in Configs /\ group.selection \in Changes \cup {None}
  BY DEF ChangeInv, ChangeTypes, Group
<1>5. v \in RunRecord /\ v # None /\ v.origin = group.config /\ v.bound = group.config
      /\ v.bound # None
  <2>1. v \in RunRecord
    BY <1>2, <1>4 DEF RunRecord
  <2>2. v # None /\ group.config # None
    BY <2>1, <1>4, ChangeAssumption
  <2>3. v.origin = group.config /\ v.bound = group.config
    BY <1>2
  <2>4. QED
    BY <2>1, <2>2, <2>3
<1>6. /\ run' \in [Runs -> RunRecord \cup {None}] /\ run'[q] = v
      /\ \A r \in Runs : r # q => run'[r] = run[r]
  BY <1>3, <1>5 DEF ChangeInv, ChangeTypes
<1>7. ChangeTypes' /\ DispatchTypes' /\ EpochsFit'
  BY <1>1, <1>6 DEF ChangeInv, ChangeTypes, DispatchTypes, EpochsFit
<1>8. StagesFit' /\ OnePreparation' /\ SelectionFits'
  BY <1>1, StagesStay DEF ChangeInv
<1>9. RunsFit'
  <2> SUFFICES ASSUME NEW r \in Runs, run'[r] # None
               PROVE  IF run'[r].bound = None THEN run'[r].origin = Start /\ group'.selection = None
                      ELSE run'[r].bound = run'[r].origin
    BY DEF RunsFit
  <2>1. CASE r = q
    BY <2>1, <1>5, <1>6
  <2>2. CASE r # q
    BY <2>2, <1>1, <1>6 DEF ChangeInv, RunsFit
  <2>3. QED
    BY <2>1, <2>2
<1>10. \A c \in Changes : Prep(c) # None => change[c].state = "qualified"
  BY <1>3 DEF ChangeInv, StagesFit, Prep
<1>11. \A c \in Changes : ~Preparing(c)
  BY <1>10 DEF Preparing, Prep
<1>12. TasksFit'
  <2> SUFFICES ASSUME NEW k \in Tasks PROVE TaskFits(k)'
    BY DEF TasksFit
  <2> DEFINE d == ChangeOf(k)
  <2>1. TaskFits(k) /\ d \in Changes
    BY TaskParts DEF ChangeInv, TasksFit
  <2>2. ~Preparing(d) /\ ~Preparing(d)' /\ Prep(d)' = Prep(d)
    BY <2>1, <1>1, <1>11 DEF Preparing, Prep
  <2>3. ~Open(k) /\ ~Open(k)'
    BY <2>1, <2>2, <1>1 DEF TaskFits, Open
  <2>4. QED
    BY <2>1, <2>2, <2>3, <1>1 DEF TaskFits
<1>13. OneOpenSend' /\ WorkersFit' /\ ContextsFit'
  BY <1>1, SendsStay, WorkersStay, ContextsStay DEF ChangeInv
<1>14. HostsFollowSelection'
  BY <1>1 DEF ChangeInv, HostsFollowSelection
<1>15. \A h \in Hosts : IF host[h].context = None THEN group.config = Start
                        ELSE host[h].context.config = group.config
  <2> SUFFICES ASSUME NEW h \in Hosts
               PROVE  IF host[h].context = None THEN group.config = Start
                      ELSE host[h].context.config = group.config
    OBVIOUS
  <2>1. CASE group.selection # None
    <3>1. \A d \in Changes : (change[d] # None /\ change[d].state = "staged") =>
                                change[d].prep = None
      BY <1>11 DEF Preparing
    <3>2. QED
      BY <2>1, <3>1 DEF ChangeInv, HostsFollowSelection
  <2>2. CASE group.selection = None
    <3>1. group.config = Start /\ \A c \in Changes : ~Applied(c)
      BY <2>2 DEF ChangeInv, SelectionFits
    <3>2. \A c \in Changes : Prep(c) = None
      BY <3>1, <1>10 DEF Applied, Prep
    <3>3. host[h].context = None
      <4>1. SUFFICES ASSUME host[h].context # None PROVE FALSE
        OBVIOUS
      <4>2. PICK k : k = host[h].context.task
        OBVIOUS
      <4>3. k \in Tasks /\ receipt[k] # None
        BY <4>1, <4>2 DEF ChangeInv, ContextsFit, DispatchTypes, HostRecord, Contexts, Context
      <4>4. TaskFits(k) /\ ChangeOf(k) \in Changes
        BY <4>3, TaskParts DEF ChangeInv, TasksFit
      <4>5. Prep(ChangeOf(k)) # None
        BY <4>3, <4>4 DEF TaskFits
      <4>6. QED
        BY <3>2, <4>4, <4>5
    <3>4. QED
      BY <3>1, <3>3
  <2>3. QED
    BY <2>1, <2>2
<1>16. RunMatchesItsHosts'
  <2> SUFFICES ASSUME NEW r \in Runs, Live(r)', NEW h \in Hosts
               PROVE  IF host'[h].context = None THEN run'[r].origin = Start
                      ELSE host'[h].context.config = run'[r].origin
    BY DEF RunMatchesItsHosts
  <2>1. CASE r = q
    BY <2>1, <1>1, <1>5, <1>6, <1>15
  <2>2. CASE r # q
    BY <2>2, <1>1, <1>6 DEF ChangeInv, RunMatchesItsHosts, Live
  <2>3. QED
    BY <2>1, <2>2
<1>17. QED
  BY <1>7, <1>8, <1>9, <1>12, <1>13, <1>14, <1>16 DEF ChangeInv

(* A run ends.                                                                 *)
LEMMA FinishRunKeeps ==
    ASSUME ChangeInv, NEW q \in Runs, FinishRun(q), UNCHANGED dispatchVars
    PROVE  ChangeInv'
<1>1. UNCHANGED <<reg, task, host, receipt, wire, worker, boot, group, change, approved,
                  tickets, fences>>
  BY DEF dispatchVars, FinishRun
<1>2. run[q] # None /\ run[q] \in RunRecord /\ run' = [run EXCEPT ![q].live = FALSE]
  BY DEF FinishRun, Live, ChangeInv, ChangeTypes
<1>3. /\ run'[q] = [run[q] EXCEPT !.live = FALSE]
      /\ \A r \in Runs : r # q => run'[r] = run[r]
  BY <1>2 DEF ChangeInv, ChangeTypes
<1>4. run'[q] \in RunRecord /\ ~run'[q].live
      /\ run'[q].origin = run[q].origin /\ run'[q].bound = run[q].bound
  <2>1. /\ DOMAIN run[q] = {"live", "origin", "bound"}
        /\ run[q].origin \in Configs /\ run[q].bound \in Configs \cup {None}
    BY <1>2 DEF RunRecord
  <2>2. ~run'[q].live
    BY <2>1, <1>3
  <2>3. run'[q].origin = run[q].origin /\ run'[q].bound = run[q].bound
    BY <1>3
  <2>4. run'[q] = [live |-> FALSE, origin |-> run[q].origin, bound |-> run[q].bound]
    BY <1>2, <1>3 DEF RunRecord
  <2>5. run'[q] \in RunRecord
    BY <2>1, <2>4 DEF RunRecord
  <2>6. QED
    BY <2>2, <2>3, <2>5
<1>5. run' \in [Runs -> RunRecord \cup {None}]
  BY <1>2, <1>3, <1>4 DEF ChangeInv, ChangeTypes
<1>6. ChangeTypes' /\ DispatchTypes' /\ EpochsFit'
  BY <1>1, <1>5 DEF ChangeInv, ChangeTypes, DispatchTypes, EpochsFit
<1>7. StagesFit' /\ OnePreparation' /\ SelectionFits'
  BY <1>1, StagesStay DEF ChangeInv
<1>8. RunsFit'
  <2> SUFFICES ASSUME NEW r \in Runs, run'[r] # None
               PROVE  IF run'[r].bound = None THEN run'[r].origin = Start /\ group'.selection = None
                      ELSE run'[r].bound = run'[r].origin
    BY DEF RunsFit
  <2>1. run[r] # None /\ run'[r].bound = run[r].bound /\ run'[r].origin = run[r].origin
    BY <1>2, <1>3, <1>4
  <2>2. QED
    BY <2>1, <1>1 DEF ChangeInv, RunsFit
<1>9. NoneGoesLive
  BY <1>3, <1>4 DEF NoneGoesLive, Live
<1>10. PrepsStay
  BY <1>1 DEF PrepsStay, Prep, Preparing
<1>11. TasksFit' /\ OneOpenSend' /\ WorkersFit' /\ ContextsFit'
  BY <1>1, <1>9, <1>10, TasksStay, SendsStay, WorkersStay, ContextsStay DEF ChangeInv
<1>12. HostsFollowSelection'
  BY <1>1 DEF ChangeInv, HostsFollowSelection
<1>13. RunMatchesItsHosts'
  <2> SUFFICES ASSUME NEW r \in Runs, Live(r)', NEW h \in Hosts
               PROVE  IF host'[h].context = None THEN run'[r].origin = Start
                      ELSE host'[h].context.config = run'[r].origin
    BY DEF RunMatchesItsHosts
  <2>1. r # q
    BY <1>4 DEF Live
  <2>2. Live(r) /\ run'[r] = run[r]
    BY <2>1, <1>3 DEF Live
  <2>3. QED
    BY <2>2, <1>1 DEF ChangeInv, RunMatchesItsHosts
<1>14. QED
  BY <1>6, <1>7, <1>8, <1>11, <1>12, <1>13 DEF ChangeInv

-----------------------------------------------------------------------------
(* Applying gives every run without a binding the configuration it started     *)
(* under, and makes no run live.                                               *)
LEMMA BindRunFits ==
    ASSUME ChangeInv, run' = [r \in Runs |-> BindRun(r)]
    PROVE  /\ run' \in [Runs -> RunRecord \cup {None}] /\ NoneGoesLive
           /\ \A r \in Runs : run'[r] # None =>
                run'[r].bound # None /\ run'[r].bound = run'[r].origin
<1>1. ASSUME NEW r \in Runs
      PROVE  /\ run'[r] \in RunRecord \cup {None}
             /\ Live(r)' => Live(r)
             /\ run'[r] # None => run'[r].bound # None /\ run'[r].bound = run'[r].origin
  <2>1. run'[r] = BindRun(r)
    BY <1>1
  <2>2. group.config \in Configs /\ group.config # None
    BY ChangeAssumption DEF ChangeInv, ChangeTypes, Group
  <2>3. CASE run[r] = None
    <3>1. run'[r] = None
      BY <2>1, <2>3 DEF BindRun
    <3>2. QED
      BY <3>1 DEF Live
  <2>4. CASE run[r] # None /\ run[r].bound # None
    <3>1. run'[r] = run[r]
      BY <2>1, <2>4 DEF BindRun
    <3>2. run[r] \in RunRecord \cup {None} /\ run[r].bound = run[r].origin
      BY <2>4 DEF ChangeInv, ChangeTypes, RunsFit
    <3>3. QED
      BY <2>4, <3>1, <3>2 DEF Live
  <2>5. CASE run[r] # None /\ run[r].bound = None
    <3>1. run'[r] = [run[r] EXCEPT !.bound = group.config]
      BY <2>1, <2>5 DEF BindRun
    <3>2. run[r] \in RunRecord
      BY <2>5 DEF ChangeInv, ChangeTypes
    <3>3. run[r].origin = Start /\ group.selection = None
      BY <2>5 DEF ChangeInv, RunsFit
    <3>4. group.config = Start
      BY <3>3 DEF ChangeInv, SelectionFits
    <3>5. /\ DOMAIN run[r] = {"live", "origin", "bound"} /\ run[r].live \in BOOLEAN
          /\ run[r].origin \in Configs
      BY <3>2 DEF RunRecord
    <3>6. run'[r].bound = group.config /\ run'[r].origin = run[r].origin
      BY <3>1, <3>5
    <3>7. run'[r] = [live |-> run[r].live, origin |-> run[r].origin, bound |-> group.config]
      BY <3>1, <3>2 DEF RunRecord
    <3>8. ASSUME ~run[r].live PROVE ~run'[r].live
      <4>1. run[r].live = FALSE
        BY <3>8, <3>5
      <4>2. run'[r] = [live |-> FALSE, origin |-> run[r].origin, bound |-> group.config]
        BY <3>7, <4>1
      <4>3. QED
        BY <4>2
    <3>9. run'[r] \in RunRecord
      BY <3>5, <3>7, <2>2 DEF RunRecord
    <3>10. Live(r)' => Live(r)
      <4>1. CASE run[r].live
        BY <4>1, <2>5 DEF Live
      <4>2. CASE ~run[r].live
        BY <4>2, <3>8 DEF Live
      <4>3. QED
        BY <4>1, <4>2
    <3>11. QED
      BY <2>2, <3>3, <3>4, <3>6, <3>9, <3>10
  <2>6. QED
    BY <2>3, <2>4, <2>5
<1>2. run' \in [Runs -> RunRecord \cup {None}]
  BY <1>1
<1>3. NoneGoesLive
  BY <1>1 DEF NoneGoesLive
<1>4. QED
  BY <1>1, <1>2, <1>3

(* Every host whose answer is proved has the context of the change, and no     *)
(* request of the change is open.                                              *)
LEMMA ProofsFit ==
    ASSUME ChangeInv, NEW c \in Changes, change[c] # None, change[c].state = "staged",
           Proofs(c)
    PROVE  /\ Preparing(c) /\ group.config = change[c].before
           /\ \A r \in Runs : ~Live(r)
           /\ \A h \in Hosts : /\ host[h].context # None
                               /\ host[h].context.config = change[c].after
           /\ \A k \in Tasks : ~Open(k)
<1>1. /\ Current(c) /\ change[c].prep # None /\ Barrier(c) /\ ProvedHosts(c) = Hosts
  BY DEF Proofs
<1>2. Preparing(c) /\ Prep(c) = change[c].prep
  BY <1>1 DEF Preparing, Prep
<1>3. group.config = change[c].before /\ \A r \in Runs : ~Live(r)
  BY <1>1 DEF Current, ReviewHolds, Barrier
<1>4. PICK a : a = change[c].prep.attempt
  OBVIOUS
<1>5. a \in 1..MaxAttempt
  <2>1. change[c].prep \in Attempts
    BY <1>1 DEF ChangeInv, ChangeTypes, ChangeRecord
  <2>2. QED
    BY <2>1, <1>4 DEF Attempts
<1>6. ASSUME NEW h \in Hosts
      PROVE  /\ task[<<c, a, h>>] # None /\ receipt[<<c, a, h>>] # None
             /\ host[h].context = [config |-> change[c].after, task |-> <<c, a, h>>]
  <2>1. PICK k : k = <<c, a, h>>
    OBVIOUS
  <2>2. k \in Tasks /\ ChangeOf(k) = c /\ AttemptOf(k) = a /\ HostOf(k) = h
    BY <2>1, <1>5, TaskOf
  <2>3. ReceiptProved(k)
    <3>1. h \in ProvedHosts(c)
      BY <1>1
    <3>2. ReceiptProved(<<c, change[c].prep.attempt, h>>)
      BY <3>1 DEF ProvedHosts
    <3>3. QED
      BY <3>2, <2>1, <1>4
  <2>4. task[k] # None /\ task[k].receipt # None /\ task[k].receipt.status = "applied"
    BY <2>3 DEF ReceiptProved
  <2>5. TaskFits(k)
    BY <2>2 DEF ChangeInv, TasksFit
  <2>6. receipt[k] # None /\ receipt[k].status = "applied"
    BY <2>4, <2>5 DEF TaskFits
  <2>7. Preparing(ChangeOf(k)) /\ AttemptOf(k) = Prep(ChangeOf(k)).attempt
    BY <2>2, <1>2, <1>4
  <2>8. host[HostOf(k)].context = [config |-> change[ChangeOf(k)].after, task |-> k]
    BY <2>5, <2>6, <2>7 DEF TaskFits
  <2>9. QED
    BY <2>1, <2>2, <2>4, <2>6, <2>8
<1>7. \A h \in Hosts : /\ host[h].context # None
                       /\ host[h].context.config = change[c].after
  <2> SUFFICES ASSUME NEW h \in Hosts
               PROVE  host[h].context # None /\ host[h].context.config = change[c].after
    OBVIOUS
  <2>1. PICK k : k = <<c, a, h>>
    OBVIOUS
  <2>2. k \in Tasks /\ host[h].context = [config |-> change[c].after, task |-> k]
    BY <2>1, <1>5, <1>6, TaskOf
  <2>3. change[c].after \in Configs
    BY DEF ChangeInv, ChangeTypes, ChangeRecord
  <2>4. host[h].context \in Context
    BY <2>2, <2>3 DEF Context
  <2>5. QED
    BY <2>2, <2>4, DispatchAssumption
<1>8. ASSUME NEW k \in Tasks, Open(k) PROVE FALSE
  <2>1. TaskFits(k) /\ ChangeOf(k) \in Changes /\ AttemptOf(k) \in 1..MaxAttempt
        /\ HostOf(k) \in Hosts /\ k = <<ChangeOf(k), AttemptOf(k), HostOf(k)>>
    BY TaskParts DEF ChangeInv, TasksFit
  <2>2. Preparing(ChangeOf(k)) /\ task[k] # None /\ task[k].phase = "send_entered"
        /\ receipt[k] = None /\ task[k].receipt = None
    BY <1>8, <2>1 DEF TaskFits, Open
  <2>3. ChangeOf(k) = c
    BY <1>2, <2>1, <2>2 DEF ChangeInv, OnePreparation
  <2>4. AttemptOf(k) <= a
    BY <2>1, <2>2, <2>3, <1>2, <1>4 DEF TaskFits
  <2>5. AttemptOf(k) # a
    BY <2>1, <2>2, <2>3, <1>6
  <2>6. PICK j \in Tasks : ChangeOf(j) = c /\ AttemptOf(j) = a /\ task[j] # None
    <3>1. PICK h \in Hosts : TRUE
      BY ChangeAssumption
    <3>2. QED
      BY <1>5, <1>6, TaskOf
  <2>7. AttemptOf(k) < AttemptOf(j)
    BY <2>1, <2>4, <2>5, <2>6, <1>5, Bounds
  <2>8. QED
    BY <2>2, <2>3, <2>6, <2>7 DEF ChangeInv, OneOpenSend
<1>9. QED
  BY <1>2, <1>3, <1>7, <1>8

(* A change is applied: the hosts already have what becomes the selection.     *)
LEMMA CommitApplyKeeps ==
    ASSUME ChangeInv, NEW t \in tickets, CommitApply(t)
    PROVE  ChangeInv'
<1>1. UNCHANGED <<reg, task, host, receipt, wire, worker, boot, approved>>
  BY DEF dispatchVars, CommitApply
<1>2. PICK c \in Changes : c = t.change
  BY DEF ChangeInv, ChangeTypes, Ticket
<1>3. /\ change[c] # None /\ change[c].state = "staged" /\ Revise(c)
      /\ group.epoch < MaxEpoch /\ CheckPrepared(t) /\ Proofs(c)
      /\ run' = [r \in Runs |-> BindRun(r)]
      /\ group' = [Invalidated(group, c) EXCEPT !.config = change[c].after, !.selection = c]
      /\ fences' = FencesOwed /\ Recorded(c, "applied") /\ tickets' \subseteq tickets
  BY <1>2 DEF CommitApply, AtRevision
<1>4. /\ Preparing(c) /\ group.config = change[c].before /\ \A r \in Runs : ~Live(r)
      /\ \A h \in Hosts : host[h].context # None /\ host[h].context.config = change[c].after
      /\ \A k \in Tasks : ~Open(k)
  BY <1>3, ProofsFit
<1>5. /\ change' \in [Changes -> ChangeRecord \cup {None}]
      /\ \A d \in Changes : d # c => change'[d] = change[d]
      /\ change'[c] # None
      /\ change'[c].before = change[c].before /\ change'[c].after = change[c].after
      /\ change'[c].prep = change[c].prep /\ change'[c].state = "applied"
  BY <1>3, RecordedFits DEF ChangeInv
<1>6. change[c].after \in Configs /\ change[c].prep # None
  BY <1>3, <1>4 DEF ChangeInv, ChangeTypes, ChangeRecord, Preparing
<1>7. group'.epoch = group.epoch + 1
  BY <1>3 DEF Invalidated, ChangeInv, ChangeTypes, Group
<1>8. /\ Invalidated(group, c) \in Group /\ Invalidated(group, c).blocks = group.blocks \cup {c}
      /\ fences' \in [Hosts -> SUBSET (1..MaxEpoch)] /\ EpochsFit'
  BY <1>1, <1>3, <1>7, InvalidatedFits DEF ChangeInv
<1>9. /\ group' \in Group /\ group'.config = change[c].after /\ group'.selection = c
      /\ group'.blocks = group.blocks \cup {c}
  BY <1>3, <1>6, <1>8 DEF Group
<1>10. /\ run' \in [Runs -> RunRecord \cup {None}] /\ NoneGoesLive
       /\ \A r \in Runs : run'[r] # None =>
            run'[r].bound # None /\ run'[r].bound = run'[r].origin
  BY <1>3, BindRunFits
<1>11. ChangeTypes' /\ DispatchTypes'
  BY <1>1, <1>3, <1>5, <1>8, <1>9, <1>10 DEF ChangeInv, ChangeTypes, DispatchTypes
<1>12. StagesFit'
  <2> SUFFICES ASSUME NEW d \in Changes, change'[d] # None
               PROVE  /\ change'[d].state \in {"proposed", "reviewed"} => change'[d].prep = None
                      /\ Applied(d)' => change'[d].prep # None
                      /\ Mode[d] = "revalidate" => change'[d].after = change'[d].before
                      /\ change'[d].prep # None /\ change'[d].state # "qualified" =>
                            d \in group'.blocks
    BY DEF StagesFit
  <2>1. CASE d = c
    BY <2>1, <1>3, <1>5, <1>6, <1>9 DEF ChangeInv, StagesFit, Applied
  <2>2. CASE d # c
    BY <2>2, <1>5, <1>9 DEF ChangeInv, StagesFit, Applied
  <2>3. QED
    BY <2>1, <2>2
<1>13. \A d \in Changes : /\ ~Preparing(d)' /\ Prep(d)' = Prep(d)
                          /\ d # c => (Applied(d)' <=> Applied(d))
  <2>1. ~Preparing(c)' /\ Prep(c)' = Prep(c)
    BY <1>3, <1>5 DEF Preparing, Prep
  <2>2. ASSUME NEW d \in Changes, d # c
        PROVE  ~Preparing(d)' /\ Prep(d)' = Prep(d) /\ (Applied(d)' <=> Applied(d))
    <3>1. change'[d] = change[d] /\ ~Preparing(d)
      BY <2>2, <1>4, <1>5 DEF ChangeInv, OnePreparation
    <3>2. QED
      BY <3>1 DEF Preparing, Prep, Applied
  <2>3. QED
    BY <2>1, <2>2
<1>14. OnePreparation'
  BY <1>13 DEF OnePreparation
<1>15. SelectionFits'
  <2>1. c # None /\ Applied(c)' /\ change'[c].after = group'.config
    BY <1>5, <1>9, ChangeAssumption DEF Applied
  <2>2. LineageIsNotForked'
    <3> SUFFICES ASSUME Mode[c] = "revalidate", NEW d \in Changes \ {c}, Applied(d)'
                 PROVE  change'[d].after # change[c].after
      BY <1>9 DEF LineageIsNotForked
    <3>1. RootAvailable(c, t.before)
      BY <1>2, <1>3 DEF CheckPrepared
    <3>2. Applied(d) /\ change'[d].after = change[d].after
      BY <1>5, <1>13
    <3>3. change[d].after # t.before /\ group.config = t.before
      BY <3>1, <3>2 DEF RootAvailable
    <3>4. change[c].after = change[c].before
      BY <1>3 DEF ChangeInv, StagesFit
    <3>5. QED
      BY <3>2, <3>3, <3>4, <1>4
  <2>3. QED
    BY <2>1, <2>2, <1>9 DEF SelectionFits, Applied
<1>16. RunsFit'
  BY <1>10 DEF RunsFit
<1>17. TasksFit'
  <2> SUFFICES ASSUME NEW k \in Tasks PROVE TaskFits(k)'
    BY DEF TasksFit
  <2>1. TaskFits(k) /\ ChangeOf(k) \in Changes
    BY TaskParts DEF ChangeInv, TasksFit
  <2>2. ~Preparing(ChangeOf(k))' /\ Prep(ChangeOf(k))' = Prep(ChangeOf(k))
    BY <2>1, <1>13
  <2>3. ~Open(k)'
    BY <1>1, <1>4 DEF Open
  <2>4. QED
    BY <2>1, <2>2, <2>3, <1>1 DEF TaskFits
<1>18. OneOpenSend' /\ WorkersFit' /\ ContextsFit'
  BY <1>1, SendsStay, WorkersStay, ContextsStay DEF ChangeInv
<1>19. HostsFollowSelection'
  BY <1>1, <1>4, <1>9 DEF HostsFollowSelection
<1>20. RunMatchesItsHosts'
  BY <1>4, <1>10 DEF RunMatchesItsHosts, NoneGoesLive
<1>21. QED
  BY <1>8, <1>11, <1>12, <1>14, <1>15, <1>16, <1>17, <1>18, <1>19, <1>20 DEF ChangeInv

(* Tasks are opened for the attempt, once no send of an earlier one is open.   *)
LEMMA AuthorizeKeeps ==
    ASSUME ChangeInv, NEW c \in Changes, AuthorizeHostConfiguration(c)
    PROVE  ChangeInv'
<1>1. UNCHANGED <<boot, group, change, approved, tickets, run, fences,
                  reg, host, receipt, wire, worker>>
  BY DEF AuthorizeHostConfiguration, changeVars
<1>2. PICK p : p = change[c].prep
  OBVIOUS
<1>3. /\ change[c] # None /\ change[c].state = "staged" /\ p # None
      /\ ~OpenSend(c, p.attempt)
      /\ task' = [k \in Tasks |->
                    IF ChangeOf(k) = c /\ AttemptOf(k) = p.attempt
                          /\ HostOf(k) \in {h \in Hosts : task[<<c, p.attempt, h>>] = None}
                    THEN NewTask(c)[HostOf(k)] ELSE task[k]]
  BY <1>2 DEF AuthorizeHostConfiguration
<1>4. Prep(c) = p /\ p \in Attempts
  BY <1>2, <1>3 DEF Prep, ChangeInv, ChangeTypes, ChangeRecord
<1>5. \A h \in Hosts : /\ NewTask(c)[h] \in TaskRecord
                       /\ NewTask(c)[h].phase = "awaiting"
                       /\ NewTask(c)[h].receipt = None
  <2> SUFFICES ASSUME NEW h \in Hosts
               PROVE  /\ NewTask(c)[h] \in TaskRecord /\ NewTask(c)[h].phase = "awaiting"
                      /\ NewTask(c)[h].receipt = None
    OBVIOUS
  <2>1. reg[h] \in 1..MaxGen /\ boot \in 1..MaxBoot /\ group.epoch \in 1..MaxEpoch
    BY DEF ChangeInv, ChangeTypes, DispatchTypes, Group
  <2>2. QED
    BY <2>1 DEF NewTask, TaskRecord, Receipts, Issues
<1>6. \A h \in Hosts : NewTask(c)[h] # None /\ ~NewTask(c)[h].disputed
  <2>1. \A h \in Hosts : ~NewTask(c)[h].disputed
    BY DEF NewTask
  <2>2. QED
    BY <2>1, <1>5, DispatchAssumption
<1>7. ASSUME NEW k \in Tasks
      PROVE  \/ task'[k] = task[k]
             \/ /\ task[k] = None /\ ChangeOf(k) = c /\ AttemptOf(k) = p.attempt
                /\ task'[k] = NewTask(c)[HostOf(k)] /\ HostOf(k) \in Hosts
  <2>1. k = <<ChangeOf(k), AttemptOf(k), HostOf(k)>> /\ HostOf(k) \in Hosts
    BY TaskParts
  <2>2. QED
    BY <2>1, <1>3
<1>8. task' \in [Tasks -> TaskRecord \cup {None}]
  <2>1. \A k \in Tasks : task'[k] \in TaskRecord \cup {None}
    BY <1>5, <1>7 DEF ChangeInv, DispatchTypes
  <2>2. QED
    BY <2>1, <1>3
<1>9. DispatchTypes' /\ fences' \in [Hosts -> SUBSET (1..MaxEpoch)] /\ EpochsFit'
  BY <1>1, <1>8 DEF ChangeInv, ChangeTypes, DispatchTypes, EpochsFit
<1>10. TasksFit'
  <2> SUFFICES ASSUME NEW k \in Tasks PROVE TaskFits(k)'
    BY DEF TasksFit
  <2> DEFINE d == ChangeOf(k)
  <2>1. TaskFits(k) /\ d \in Changes /\ HostOf(k) \in Hosts /\ AttemptOf(k) \in 1..MaxAttempt
    BY TaskParts DEF ChangeInv, TasksFit
  <2>2. /\ Prep(d)' = Prep(d) /\ (Preparing(d)' <=> Preparing(d))
        /\ change'[d].after = change[d].after
    BY <1>1 DEF Prep, Preparing
  <2>3. (\A r \in Runs : ~Live(r)) => \A r \in Runs : ~Live(r)'
    BY <1>1 DEF Live
  <2>4. CASE task'[k] = task[k]
    <3>1. Open(k)' <=> Open(k)
      BY <2>4, <1>1 DEF Open
    <3>2. QED
      BY <2>1, <2>2, <2>3, <2>4, <3>1, <1>1 DEF TaskFits
  <2>5. CASE task'[k] # task[k]
    <3>1. /\ task[k] = None /\ d = c /\ AttemptOf(k) = p.attempt
          /\ task'[k] = NewTask(c)[HostOf(k)]
      BY <2>5, <1>7
    <3>2. task'[k] # None /\ ~task'[k].disputed /\ task'[k].receipt = None
          /\ task'[k].phase = "awaiting"
      BY <2>1, <3>1, <1>5, <1>6
    <3>3. receipt[k] = None /\ k \notin wire
      BY <2>1, <3>1 DEF TaskFits
    <3>4. ~Open(k)'
      BY <3>2 DEF Open
    <3>5. Prep(d)' # None /\ AttemptOf(k) <= Prep(d)'.attempt
      BY <2>1, <2>2, <3>1, <1>3, <1>4, Bounds
    <3>6. QED
      BY <3>2, <3>3, <3>4, <3>5, <1>1 DEF TaskFits
  <2>6. QED
    BY <2>4, <2>5
<1>11. OneOpenSend'
  <2> SUFFICES ASSUME NEW i \in Tasks, NEW j \in Tasks,
                      ChangeOf(i) = ChangeOf(j), AttemptOf(i) < AttemptOf(j),
                      task'[i] # None, task'[j] # None,
                      task'[i].phase = "send_entered", task'[i].receipt = None
               PROVE  FALSE
    BY DEF OneOpenSend
  <2>1. task'[i] = task[i]
    BY <1>5, <1>7
  <2>2. task[j] = None
    BY <2>1 DEF ChangeInv, OneOpenSend
  <2>3. ChangeOf(j) = c /\ AttemptOf(j) = p.attempt
    BY <2>2, <1>7
  <2>4. AttemptOf(i) # p.attempt
    <3>1. AttemptOf(i) \in Nat /\ AttemptOf(j) \in Nat
      BY TaskParts, Bounds
    <3>2. QED
      BY <2>3, <3>1
  <2>5. OpenSend(c, p.attempt)
    BY <2>1, <2>3, <2>4 DEF OpenSend
  <2>6. QED
    BY <2>5, <1>3
<1>12. WorkersFit'
  <2> SUFFICES ASSUME NEW g \in Hosts PROVE WorkerFits(g)'
    BY DEF WorkersFit
  <2>1. WorkerFits(g) /\ worker'[g] = worker[g]
    BY <1>1 DEF ChangeInv, WorkersFit
  <2>2. worker[g].at # "idle" => task'[worker[g].task] = task[worker[g].task]
    BY <2>1, <1>7 DEF WorkerFits
  <2>3. QED
    BY <2>1, <2>2, <1>1 DEF WorkerFits, HostOf
<1>13. QED
  BY <1>1, <1>9, <1>10, <1>11, <1>12, DispatchStep

-----------------------------------------------------------------------------
(* A coordinator that rests.                                                   *)
LEMMA RestFits ==
    ASSUME DispatchTypes, NEW h \in Hosts, Rest(h)
    PROVE  /\ worker' \in [Hosts -> WorkerRecord] /\ WorkerFits(h)'
           /\ \A g \in Hosts : g # h => worker'[g] = worker[g]
<1>1. Idle \in WorkerRecord /\ Idle.at = "idle"
  BY DEF Idle, WorkerRecord
<1>2. worker' = [worker EXCEPT ![h] = Idle]
  BY DEF Rest
<1>3. worker'[h] = Idle
  BY <1>2 DEF DispatchTypes
<1>4. QED
  BY <1>1, <1>2, <1>3 DEF DispatchTypes, WorkerFits

(* A coordinator that goes on with a task.                                     *)
LEMMA WorkingFits ==
    ASSUME DispatchTypes, NEW h \in Hosts, NEW at \in {"bind", "enter", "sent", "record"},
           NEW k \in Tasks, NEW seen \in Observations \cup {None}, NEW retry \in BOOLEAN,
           Working(h, at, k, seen, retry)
    PROVE  /\ worker' \in [Hosts -> WorkerRecord]
           /\ worker'[h].at = at /\ worker'[h].task = k /\ worker'[h].seen = seen
           /\ \A g \in Hosts : g # h => worker'[g] = worker[g]
<1>1. PICK w : w = [at |-> at, task |-> k, seen |-> seen, retry |-> retry]
  OBVIOUS
<1>2. w \in WorkerRecord
  BY <1>1 DEF WorkerRecord
<1>3. worker' = [worker EXCEPT ![h] = w]
  BY <1>1 DEF Working
<1>4. worker'[h] = w
  BY <1>3 DEF DispatchTypes
<1>5. w.at = at /\ w.task = k /\ w.seen = seen
  BY <1>1
<1>6. QED
  BY <1>2, <1>3, <1>4, <1>5 DEF DispatchTypes

(* What a host reports of a request.                                           *)
LEMMA ObservationFits ==
    ASSUME ChangeInv, NEW k \in Tasks, task[k] # None
    PROVE  /\ Observation(k) \in Observations /\ Observation(k) # None
           /\ Observation(k).receipt = receipt[k]
           /\ receipt[k] = None =>
                /\ task[k].receipt = None
                /\ Observation(k).context # None => Observation(k).context.task # k
<1>1. HostOf(k) \in Hosts
  BY TaskParts
<1>2. host[HostOf(k)] \in HostRecord /\ receipt[k] \in Receipts
  BY <1>1 DEF ChangeInv, DispatchTypes
<1>3. Observation(k) \in Observations
  BY <1>2 DEF Observation, Observations, HostRecord
<1>4. Observation(k).receipt = receipt[k] /\ Observation(k).context = host[HostOf(k)].context
  BY DEF Observation
<1>5. receipt[k] = None => task[k].receipt = None
  BY DEF ChangeInv, TasksFit, TaskFits
<1>6. receipt[k] = None /\ host[HostOf(k)].context # None => host[HostOf(k)].context.task # k
  BY <1>1 DEF ChangeInv, ContextsFit
<1>7. QED
  BY <1>3, <1>4, <1>5, <1>6, DispatchAssumption

(* A task that only gets another issue.                                        *)
LEMMA IssueFits ==
    ASSUME ChangeInv, NEW k \in Tasks, task[k] # None, NEW i \in Issues, Issue(k, i)
    PROVE  /\ task' \in [Tasks -> TaskRecord \cup {None}] /\ Worked(k)
           /\ \A j \in Tasks : j # k => task'[j] = task[j]
           /\ task'[k].phase = task[k].phase
<1>1. task[k] \in TaskRecord /\ TaskFits(k)
  BY DEF ChangeInv, DispatchTypes, TasksFit
<1>2. task' = [task EXCEPT ![k].issue = i]
  BY DEF Issue
<1>3. task'[k] = [task[k] EXCEPT !.issue = i]
      /\ \A j \in Tasks : j # k => task'[j] = task[j]
  BY <1>2 DEF ChangeInv, DispatchTypes
<1>4. task[k].disputed = FALSE
  BY <1>1 DEF TaskFits, TaskRecord
<1>5. task'[k] \in TaskRecord /\ task'[k].phase = task[k].phase
      /\ task'[k].receipt = task[k].receipt
  BY <1>1, <1>3 DEF TaskRecord
<1>6. task'[k].disputed = FALSE
  BY <1>1, <1>3, <1>4 DEF TaskRecord
<1>7. task' \in [Tasks -> TaskRecord \cup {None}]
  BY <1>2, <1>3, <1>5 DEF ChangeInv, DispatchTypes
<1>8. Worked(k)
  BY <1>1, <1>5, <1>6, DispatchAssumption DEF Worked, TaskFits
<1>9. QED
  BY <1>3, <1>5, <1>7, <1>8

(* A task that is left as it is.                                               *)
LEMMA UntouchedFits ==
    ASSUME ChangeInv, NEW k \in Tasks, task[k] # None, UNCHANGED task
    PROVE  task' \in [Tasks -> TaskRecord \cup {None}] /\ Worked(k)
  BY DEF ChangeInv, DispatchTypes, TasksFit, TaskFits, Worked

(* What a coordinator that is not idle works on.                               *)
LEMMA WorkerTask ==
    ASSUME ChangeInv, NEW h \in Hosts, worker[h].at # "idle"
    PROVE  /\ worker[h].task \in Tasks /\ HostOf(worker[h].task) = h
           /\ task[worker[h].task] # None
           /\ worker[h].seen \in Observations \cup {None}
  BY DEF ChangeInv, WorkersFit, WorkerFits, DispatchTypes, WorkerRecord

(* A coordinator picks a task up, having read the host where it needs to.      *)
LEMMA PickTaskKeeps ==
    ASSUME ChangeInv, NEW k \in Tasks, PickTask(k)
    PROVE  ChangeInv'
<1>1. PICK h \in Hosts : h = HostOf(k)
  BY TaskParts
<1>2. UNCHANGED <<boot, group, change, approved, tickets, run, fences,
                  reg, host, receipt, wire, task>>
  BY DEF PickTask, changeVars
<1>3. task[k] # None
  BY DEF PickTask, Handed
<1>4. PICK o : o = Observation(k)
  OBVIOUS
<1>5. /\ o \in Observations /\ o # None /\ o.receipt = receipt[k]
      /\ receipt[k] = None => /\ task[k].receipt = None
                              /\ o.context # None => o.context.task # k
  BY <1>3, <1>4, ObservationFits
<1>6. task' \in [Tasks -> TaskRecord \cup {None}] /\ Worked(k)
  BY <1>2, <1>3, UntouchedFits
<1>7. \/ Working(h, "bind", k, o, FALSE)
      \/ Working(h, "enter", k, None, FALSE)
      \/ Working(h, "record", k, o, FALSE)
  <2>1. task[k].phase \in {"awaiting", "prepared", "send_entered"}
    BY <1>3 DEF ChangeInv, DispatchTypes, TaskRecord
  <2>2. QED
    BY <2>1, <1>1, <1>4 DEF PickTask
<1>8. PICK at \in {"bind", "enter", "record"}, seen \in {o, None} :
        /\ Working(h, at, k, seen, FALSE) /\ (at # "enter" => seen = o)
  BY <1>7
<1>9. /\ worker' \in [Hosts -> WorkerRecord]
      /\ worker'[h].at = at /\ worker'[h].task = k /\ worker'[h].seen = seen
      /\ \A g \in Hosts : g # h => worker'[g] = worker[g]
  <2>1. /\ at \in {"bind", "enter", "sent", "record"} /\ seen \in Observations \cup {None}
        /\ FALSE \in BOOLEAN /\ DispatchTypes /\ Working(h, at, k, seen, FALSE)
    BY <1>5, <1>8 DEF ChangeInv
  <2>2. QED
    BY <2>1, WorkingFits
<1>10. WorkerFits(h)'
  BY <1>1, <1>2, <1>3, <1>5, <1>8, <1>9 DEF WorkerFits, HostOf
<1>11. wire' \subseteq wire \cup {k} /\ (k \in wire' => task'[k].phase = "send_entered")
  BY <1>2 DEF ChangeInv, TasksFit, TaskFits
<1>12. WorkerFits(HostOf(k))'
  BY <1>1, <1>10 DEF HostOf, WorkerFits
<1>13. QED
  BY <1>1, <1>2, <1>3, <1>6, <1>9, <1>11, <1>12, WorkStep

(* A step that notes an issue of a task and lets its coordinator rest.         *)
LEMMA IssueStep ==
    ASSUME ChangeInv, NEW k \in Tasks, task[k] # None, NEW i \in Issues, Issue(k, i),
           Rest(HostOf(k)),
           UNCHANGED <<boot, group, change, approved, tickets, run, fences,
                       reg, host, receipt, wire>>
    PROVE  ChangeInv'
<1>1. /\ task' \in [Tasks -> TaskRecord \cup {None}] /\ Worked(k)
      /\ \A j \in Tasks : j # k => task'[j] = task[j]
      /\ task'[k].phase = task[k].phase
  BY IssueFits
<1>2. PICK h \in Hosts : h = HostOf(k)
  BY TaskParts
<1>3. /\ worker' \in [Hosts -> WorkerRecord] /\ WorkerFits(h)'
      /\ \A g \in Hosts : g # h => worker'[g] = worker[g]
  BY <1>2, RestFits DEF ChangeInv
<1>4. wire' \subseteq wire \cup {k} /\ (k \in wire' => task'[k].phase = "send_entered")
  BY <1>1 DEF ChangeInv, TasksFit, TaskFits
<1>5. WorkerFits(HostOf(k))'
  BY <1>2, <1>3 DEF HostOf, WorkerFits
<1>6. QED
  BY <1>1, <1>2, <1>3, <1>4, <1>5, WorkStep

(* The host could not be reached, before or while the request is carried.      *)
LEMMA TransportKeeps ==
    ASSUME ChangeInv,
           \/ \E k \in Tasks : TransportFails(k)
           \/ \E h \in Hosts : CallFails(h)
    PROVE  ChangeInv'
<1>1. "transport_unavailable" \in Issues
  BY DEF Issues
<1>2. ASSUME NEW k \in Tasks, TransportFails(k) PROVE ChangeInv'
  <2>1. /\ Issue(k, "transport_unavailable") /\ Rest(HostOf(k))
        /\ UNCHANGED <<boot, group, change, approved, tickets, run, fences,
                       reg, host, receipt, wire>>
    BY <1>2 DEF TransportFails, changeVars
  <2>2. task[k] # None
    <3>1. HostOf(k) \in Hosts
      BY TaskParts
    <3>2. Handed(k) \/ (worker[HostOf(k)].at = "enter" /\ worker[HostOf(k)].task = k)
      BY <1>2 DEF TransportFails
    <3>3. QED
      BY <3>1, <3>2, WorkerTask DEF Handed
  <2>3. QED
    BY <2>1, <2>2, <1>1, IssueStep
<1>3. ASSUME NEW h \in Hosts, CallFails(h) PROVE ChangeInv'
  <2>1. PICK k : k = worker[h].task
    OBVIOUS
  <2>2. k \in Tasks /\ HostOf(k) = h /\ task[k] # None
    BY <1>3, <2>1, WorkerTask DEF CallFails
  <2>3. /\ Issue(k, "transport_unavailable") /\ Rest(HostOf(k))
        /\ UNCHANGED <<boot, group, change, approved, tickets, run, fences,
                       reg, host, receipt, wire>>
    BY <1>3, <2>1, <2>2 DEF CallFails, changeVars
  <2>4. QED
    BY <2>2, <2>3, <1>1, IssueStep
<1>4. QED
  BY <1>2, <1>3

(* A reply reaches its coordinator.                                            *)
LEMMA AnsweredKeeps ==
    ASSUME ChangeInv, NEW h \in Hosts, Answered(h)
    PROVE  ChangeInv'
<1>1. PICK k : k = worker[h].task
  OBVIOUS
<1>2. k \in Tasks /\ HostOf(k) = h /\ task[k] # None
  BY <1>1, WorkerTask DEF Answered
<1>3. UNCHANGED <<boot, group, change, approved, tickets, run, fences,
                  reg, host, receipt, wire, task>>
  BY DEF Answered, changeVars
<1>4. PICK o : o = Observation(k)
  OBVIOUS
<1>5. o \in Observations /\ o # None /\ o.receipt = receipt[k] /\ receipt[k] # None
  BY <1>1, <1>2, <1>4, ObservationFits DEF Answered
<1>6. Working(h, "record", k, o, FALSE)
  BY <1>1, <1>4 DEF Answered
<1>7. /\ worker' \in [Hosts -> WorkerRecord]
      /\ worker'[h].at = "record" /\ worker'[h].task = k /\ worker'[h].seen = o
      /\ \A g \in Hosts : g # h => worker'[g] = worker[g]
  BY <1>2, <1>5, <1>6, WorkingFits DEF ChangeInv
<1>8. task' \in [Tasks -> TaskRecord \cup {None}] /\ Worked(k)
  BY <1>2, <1>3, UntouchedFits
<1>9. WorkerFits(HostOf(k))'
  BY <1>2, <1>3, <1>5, <1>7 DEF WorkerFits, HostOf
<1>10. wire' \subseteq wire \cup {k} /\ (k \in wire' => task'[k].phase = "send_entered")
  BY <1>2, <1>3 DEF ChangeInv, TasksFit, TaskFits
<1>11. QED
  BY <1>2, <1>3, <1>7, <1>8, <1>9, <1>10, WorkStep

(* A task is bound to what its host was seen to have.                          *)
LEMMA BindTaskKeeps ==
    ASSUME ChangeInv, NEW h \in Hosts, BindHostConfiguration(h)
    PROVE  ChangeInv'
<1>1. PICK k : k = worker[h].task
  OBVIOUS
<1>2. PICK o : o = worker[h].seen
  OBVIOUS
<1>3. k \in Tasks /\ HostOf(k) = h /\ task[k] # None /\ o \in Observations
  <2>1. worker[h].at = "bind"
    BY DEF BindHostConfiguration
  <2>2. o # None
    BY <2>1, <1>2 DEF ChangeInv, WorkersFit, WorkerFits
  <2>3. QED
    BY <2>1, <2>2, <1>1, <1>2, WorkerTask
<1>4. UNCHANGED <<boot, group, change, approved, tickets, run, fences,
                  reg, host, receipt, wire>>
  BY DEF BindHostConfiguration, changeVars
<1>5. wire' \subseteq wire \cup {k} /\ (k \in wire => task[k].phase = "send_entered")
  BY <1>3, <1>4 DEF ChangeInv, TasksFit, TaskFits
<1>6. CASE Issue(k, "authorization_changed") /\ Rest(h)
  <2>1. "authorization_changed" \in Issues
    BY DEF Issues
  <2>2. QED
    BY <2>1, <1>3, <1>4, <1>6, IssueStep
<1>7. CASE task' = task /\ Working(h, "enter", k, None, FALSE)
  <2>1. task' \in [Tasks -> TaskRecord \cup {None}] /\ Worked(k)
    BY <1>3, <1>7, UntouchedFits
  <2>2. /\ worker' \in [Hosts -> WorkerRecord]
        /\ worker'[h].at = "enter" /\ worker'[h].task = k
        /\ \A g \in Hosts : g # h => worker'[g] = worker[g]
    BY <1>3, <1>7, WorkingFits DEF ChangeInv
  <2>3. WorkerFits(HostOf(k))'
    BY <1>3, <1>7, <2>2 DEF WorkerFits, HostOf
  <2>4. k \in wire' => task'[k].phase = "send_entered"
    BY <1>4, <1>5, <1>7
  <2>5. QED
    BY <1>3, <1>4, <1>5, <1>7, <2>1, <2>2, <2>3, <2>4, WorkStep
<1>8. CASE /\ task[k].phase = "awaiting"
           /\ task' = [task EXCEPT ![k].phase = "prepared", ![k].issue = None,
                         ![k].expected = IF o.context = None THEN None
                                         ELSE o.context.config]
           /\ Working(h, "enter", k, None, FALSE)
  <2>1. PICK e : e = IF o.context = None THEN None ELSE o.context.config
    OBVIOUS
  <2>2. e \in Configs \cup {None}
    BY <2>1, <1>3 DEF Observations, Contexts, Context
  <2>3. task[k] \in TaskRecord /\ TaskFits(k)
    BY <1>3 DEF ChangeInv, DispatchTypes, TasksFit
  <2>4. /\ task'[k] = [task[k] EXCEPT !.phase = "prepared", !.issue = None, !.expected = e]
        /\ \A j \in Tasks : j # k => task'[j] = task[j]
    BY <1>3, <1>8, <2>1 DEF ChangeInv, DispatchTypes
  <2>5. task[k].disputed = FALSE
    BY <1>3, <2>3 DEF TaskFits, TaskRecord
  <2>6. task'[k] \in TaskRecord /\ task'[k].phase = "prepared"
        /\ task'[k].receipt = task[k].receipt
    BY <2>2, <2>3, <2>4 DEF TaskRecord, Issues
  <2>7. task'[k].disputed = FALSE
    BY <2>3, <2>4, <2>5 DEF TaskRecord
  <2>8. task' \in [Tasks -> TaskRecord \cup {None}]
    BY <1>8, <2>4, <2>6 DEF ChangeInv, DispatchTypes
  <2>9. Worked(k)
    BY <1>3, <1>8, <2>3, <2>6, <2>7, DispatchAssumption DEF Worked, TaskFits
  <2>10. /\ worker' \in [Hosts -> WorkerRecord]
         /\ worker'[h].at = "enter" /\ worker'[h].task = k
         /\ \A g \in Hosts : g # h => worker'[g] = worker[g]
    BY <1>3, <1>8, WorkingFits DEF ChangeInv
  <2>11. WorkerFits(HostOf(k))'
    <3>1. task'[k] # None
      BY <2>9 DEF Worked
    <3>2. QED
      BY <1>3, <2>10, <3>1 DEF WorkerFits, HostOf
  <2>12. k \notin wire'
    BY <1>4, <1>5, <1>8
  <2>13. QED
    BY <1>3, <1>4, <1>5, <2>4, <2>8, <2>9, <2>10, <2>11, <2>12, WorkStep
<1>9. QED
  BY <1>1, <1>2, <1>6, <1>7, <1>8 DEF BindHostConfiguration

(* A send is entered for the present attempt of a change nothing runs beside.  *)
LEMMA EnterKeeps ==
    ASSUME ChangeInv, NEW h \in Hosts, EnterHostConfigurationSend(h)
    PROVE  ChangeInv'
<1>1. PICK k : k = worker[h].task
  OBVIOUS
<1>2. k \in Tasks /\ HostOf(k) = h /\ task[k] # None
  BY <1>1, WorkerTask DEF EnterHostConfigurationSend
<1>3. UNCHANGED <<boot, group, change, approved, tickets, run, fences,
                  reg, host, receipt>>
  BY DEF EnterHostConfigurationSend, changeVars
<1>4. task[k] \in TaskRecord /\ TaskFits(k)
  BY <1>2 DEF ChangeInv, DispatchTypes, TasksFit
<1>5. CASE Rest(h) /\ UNCHANGED <<task, wire>>
  <2>1. task' \in [Tasks -> TaskRecord \cup {None}] /\ Worked(k)
    BY <1>2, <1>5, UntouchedFits
  <2>2. /\ worker' \in [Hosts -> WorkerRecord] /\ WorkerFits(h)'
        /\ \A g \in Hosts : g # h => worker'[g] = worker[g]
    BY <1>5, RestFits DEF ChangeInv
  <2>3. WorkerFits(HostOf(k))'
    BY <1>2, <2>2 DEF HostOf, WorkerFits
  <2>4. wire' \subseteq wire \cup {k} /\ (k \in wire' => task'[k].phase = "send_entered")
    BY <1>4, <1>5 DEF TaskFits
  <2>5. QED
    BY <1>2, <1>3, <1>5, <2>1, <2>2, <2>3, <2>4, WorkStep
<1>6. CASE Issue(k, "authorization_changed") /\ Rest(h) /\ UNCHANGED wire
  <2>1. "authorization_changed" \in Issues
    BY DEF Issues
  <2>2. QED
    BY <2>1, <1>2, <1>3, <1>6, IssueStep
<1>7. CASE /\ SendAuthorized(k)
           /\ task' = [task EXCEPT ![k].phase = "send_entered", ![k].issue = None]
           /\ wire' = wire \cup {k}
           /\ Working(h, "sent", k, None, FALSE)
  <2>1. /\ task'[k] = [task[k] EXCEPT !.phase = "send_entered", !.issue = None]
        /\ \A j \in Tasks : j # k => task'[j] = task[j]
    BY <1>2, <1>7 DEF ChangeInv, DispatchTypes
  <2>2. task[k].disputed = FALSE
    BY <1>2, <1>4 DEF TaskFits, TaskRecord
  <2>3. task'[k] \in TaskRecord /\ task'[k].phase = "send_entered"
        /\ task'[k].receipt = task[k].receipt
    BY <1>4, <2>1 DEF TaskRecord, Issues
  <2>4. task'[k].disputed = FALSE
    BY <1>4, <2>1, <2>2 DEF TaskRecord
  <2>5. task' \in [Tasks -> TaskRecord \cup {None}]
    BY <1>7, <2>1, <2>3 DEF ChangeInv, DispatchTypes
  <2>6. /\ Preparing(ChangeOf(k)) /\ AttemptOf(k) = Prep(ChangeOf(k)).attempt
        /\ \A r \in Runs : ~Live(r)
    <3>1. Prep(ChangeOf(k)) # None
      BY <1>2, <1>4 DEF TaskFits
    <3>2. CurrentChange(k) /\ Barrier(ChangeOf(k))
      BY <1>7 DEF SendAuthorized
    <3>3. QED
      BY <3>1, <3>2 DEF CurrentChange, Barrier, Preparing, Prep
  <2>7. Worked(k)
    BY <1>2, <1>4, <2>3, <2>4, <2>6, DispatchAssumption DEF Worked, TaskFits
  <2>8. /\ worker' \in [Hosts -> WorkerRecord]
        /\ worker'[h].at = "sent" /\ worker'[h].task = k
        /\ \A g \in Hosts : g # h => worker'[g] = worker[g]
    BY <1>2, <1>7, WorkingFits DEF ChangeInv
  <2>9. WorkerFits(HostOf(k))'
    <3>1. task'[k] # None
      BY <2>7 DEF Worked
    <3>2. QED
      BY <1>2, <2>8, <3>1 DEF WorkerFits, HostOf
  <2>10. wire' \subseteq wire \cup {k}
    BY <1>7
  <2>11. QED
    BY <1>2, <1>3, <2>1, <2>3, <2>5, <2>7, <2>8, <2>9, <2>10, WorkStep
<1>8. QED
  BY <1>1, <1>5, <1>6, <1>7 DEF EnterHostConfigurationSend

(* What is noted of an observation is one of the issues.                       *)
LEMMA IssueOfFits ==
    ASSUME NEW k, NEW o PROVE IssueOf(k, o) \in Issues
<1>1. CASE o.gen # task[k].gen
  BY <1>1 DEF IssueOf, Issues
<1>2. CASE o.gen = task[k].gen /\ o.receipt = None
  BY <1>2 DEF IssueOf, Issues
<1>3. CASE o.gen = task[k].gen /\ o.receipt # None
  BY <1>3 DEF IssueOf, Issues
<1>4. QED
  BY <1>1, <1>2, <1>3

(* An observation is recorded: it never contradicts what a host that keeps its *)
(* receipts said before.                                                       *)
LEMMA RecordKeeps ==
    ASSUME ChangeInv, NEW h \in Hosts, RecordHostConfiguration(h)
    PROVE  ChangeInv'
<1>1. PICK k : k = worker[h].task
  OBVIOUS
<1>2. PICK o : o = worker[h].seen
  OBVIOUS
<1>3. /\ k \in Tasks /\ HostOf(k) = h /\ task[k] # None /\ o \in Observations
      /\ o.receipt # None => o.receipt = receipt[k]
      /\ o.receipt = None => task[k].receipt = None /\ (o.context # None => o.context.task # k)
  <2>1. worker[h].at = "record"
    BY DEF RecordHostConfiguration
  <2>2. WorkerFits(h)
    BY DEF ChangeInv, WorkersFit
  <2>3. QED
    BY <2>1, <2>2, <1>1, <1>2, WorkerTask DEF WorkerFits
<1>4. UNCHANGED <<boot, group, change, approved, tickets, run, fences,
                  reg, host, receipt, wire>>
  BY DEF RecordHostConfiguration, changeVars
<1>5. task[k] \in TaskRecord /\ TaskFits(k) /\ task[k].disputed = FALSE
  BY <1>3 DEF ChangeInv, DispatchTypes, TasksFit, TaskFits, TaskRecord
<1>6. ~Contradicts(k, o)
  BY <1>3, <1>5 DEF Contradicts, TaskFits
<1>7. PICK kept : kept = KeptReceipt(k, o)
  OBVIOUS
<1>8. PICK i : i = IssueOf(k, o)
  OBVIOUS
<1>9. /\ task' = [task EXCEPT ![k].disputed = FALSE, ![k].issue = i,
                              ![k].receipt = kept, ![k].seen = o]
      /\ \/ Working(h, "enter", k, None, TRUE)
         \/ Rest(h)
  <2>1. (task[k].disputed \/ Contradicts(k, o)) = FALSE
    BY <1>5, <1>6
  <2>2. QED
    BY <2>1, <1>1, <1>2, <1>6, <1>7, <1>8 DEF RecordHostConfiguration
<1>10. /\ kept \in Receipts /\ (kept # None => kept = receipt[k])
       /\ task[k].receipt # None => kept # None
  <2>1. o.receipt \in Receipts /\ task[k].receipt \in Receipts
    BY <1>3, <1>5 DEF Observations, TaskRecord
  <2>2. task[k].receipt # None => task[k].receipt = receipt[k]
    BY <1>3, <1>5 DEF TaskFits
  <2>3. QED
    BY <1>3, <1>7, <2>1, <2>2 DEF KeptReceipt
<1>11. i \in Issues
  BY <1>8, IssueOfFits
<1>12. /\ task'[k] = [task[k] EXCEPT !.disputed = FALSE, !.issue = i, !.receipt = kept, !.seen = o]
       /\ \A j \in Tasks : j # k => task'[j] = task[j]
  BY <1>3, <1>9 DEF ChangeInv, DispatchTypes
<1>13. DOMAIN task[k] = {"phase", "gen", "boot", "epoch", "expected", "receipt", "seen",
                         "issue", "disputed"}
  BY <1>5 DEF TaskRecord
<1>14. task'[k] \in TaskRecord
  BY <1>3, <1>5, <1>10, <1>11, <1>12 DEF TaskRecord
<1>15. task'[k].phase = task[k].phase /\ task'[k].receipt = kept
  BY <1>12, <1>13
<1>16. task'[k].disputed = FALSE
  BY <1>12, <1>13
<1>17. task' \in [Tasks -> TaskRecord \cup {None}]
  BY <1>9, <1>12, <1>14 DEF ChangeInv, DispatchTypes
<1>18. Worked(k)
  <2>1. task'[k] # None
    BY <1>14, DispatchAssumption
  <2>2. QED
    BY <2>1, <1>10, <1>15, <1>16 DEF Worked
<1>19. wire' \subseteq wire \cup {k} /\ (k \in wire' => task'[k].phase = "send_entered")
  BY <1>4, <1>5, <1>15 DEF TaskFits
<1>20. /\ worker' \in [Hosts -> WorkerRecord] /\ WorkerFits(HostOf(k))'
       /\ \A g \in Hosts : g # h => worker'[g] = worker[g]
  <2>1. CASE Rest(h)
    <3>1. /\ worker' \in [Hosts -> WorkerRecord] /\ WorkerFits(h)'
          /\ \A g \in Hosts : g # h => worker'[g] = worker[g]
      BY <2>1, RestFits DEF ChangeInv
    <3>2. QED
      BY <3>1, <1>3 DEF WorkerFits, HostOf
  <2>2. CASE Working(h, "enter", k, None, TRUE)
    <3>1. /\ worker' \in [Hosts -> WorkerRecord]
          /\ worker'[h].at = "enter" /\ worker'[h].task = k
          /\ \A g \in Hosts : g # h => worker'[g] = worker[g]
      BY <1>3, <2>2, WorkingFits DEF ChangeInv
    <3>2. task'[k] # None
      BY <1>18 DEF Worked
    <3>3. QED
      BY <3>1, <3>2, <1>3 DEF WorkerFits, HostOf
  <2>3. QED
    BY <1>9, <2>1, <2>2
<1>21. QED
  BY <1>3, <1>4, <1>12, <1>17, <1>18, <1>19, <1>20, WorkStep

(* Time passes since a read.                                                   *)
LEMMA ExpireReadKeeps ==
    ASSUME ChangeInv, NEW h \in Hosts, ExpireRead(h)
    PROVE  ChangeInv'
<1>1. UNCHANGED <<boot, group, change, approved, tickets, run, fences,
                  reg, task, host, receipt, wire>>
  BY DEF ExpireRead, changeVars
<1>2. CASE worker[h].at \in {"bind", "record"} /\ Rest(h)
  <2>1. PICK k : k = worker[h].task
    OBVIOUS
  <2>2. k \in Tasks /\ HostOf(k) = h /\ task[k] # None
    BY <1>2, <2>1, WorkerTask
  <2>3. task' \in [Tasks -> TaskRecord \cup {None}] /\ Worked(k)
    BY <1>1, <2>2, UntouchedFits
  <2>4. /\ worker' \in [Hosts -> WorkerRecord] /\ WorkerFits(h)'
        /\ \A g \in Hosts : g # h => worker'[g] = worker[g]
    BY <1>2, RestFits DEF ChangeInv
  <2>5. WorkerFits(HostOf(k))'
    BY <2>2, <2>4 DEF HostOf, WorkerFits
  <2>6. wire' \subseteq wire \cup {k} /\ (k \in wire' => task'[k].phase = "send_entered")
    BY <1>1, <2>2 DEF ChangeInv, TasksFit, TaskFits
  <2>7. QED
    BY <1>1, <2>2, <2>3, <2>4, <2>5, <2>6, WorkStep
<1>3. CASE UNCHANGED worker
  <2>1. boot' \in 1..MaxBoot /\ approved' \subseteq Changes /\ tickets' \subseteq Ticket
    BY <1>1 DEF ChangeInv, ChangeTypes
  <2>2. QED
    BY <1>1, <1>3, <2>1, QuietStep
<1>4. QED
  BY <1>2, <1>3 DEF ExpireRead

-----------------------------------------------------------------------------
(* A step of one host, or of the platform's record of it, that leaves what the *)
(* host accepted alone.                                                        *)
LEMMA HostStep ==
    ASSUME ChangeInv, NEW h \in Hosts,
           UNCHANGED <<boot, group, change, approved, tickets, run, task, receipt, worker>>,
           wire' \subseteq wire,
           host' \in [Hosts -> HostRecord], reg' \in [Hosts -> 1..MaxGen],
           fences' \in [Hosts -> SUBSET (1..MaxEpoch)],
           \A g \in Hosts : /\ host'[g].context = host[g].context
                            /\ fences'[g] \subseteq fences[g],
           \A g \in Hosts \ {h} : host'[g] = host[g] /\ reg'[g] = reg[g],
           host'[h].epoch <= group.epoch, reg'[h] <= host'[h].gen
    PROVE  ChangeInv'
<1>1. DispatchTypes'
  BY DEF ChangeInv, DispatchTypes
<1>2. EpochsFit'
  <2> SUFFICES ASSUME NEW g \in Hosts
               PROVE  /\ fences'[g] \subseteq 1..group'.epoch
                      /\ host'[g].epoch <= group'.epoch /\ reg'[g] <= host'[g].gen
    BY DEF EpochsFit
  <2>1. /\ fences[g] \subseteq 1..group.epoch
        /\ host[g].epoch <= group.epoch /\ reg[g] <= host[g].gen
    BY DEF ChangeInv, EpochsFit
  <2>2. fences'[g] \subseteq 1..group'.epoch
    BY <2>1
  <2>3. host'[g].epoch <= group'.epoch /\ reg'[g] <= host'[g].gen
    BY <2>1
  <2>4. QED
    BY <2>2, <2>3
<1>3. PrepsStay /\ NoneGoesLive
  BY PreparationsStay
<1>4. TasksFit' /\ OneOpenSend' /\ WorkersFit'
  BY <1>3, TasksStay, SendsStay, WorkersStay DEF ChangeInv
<1>5. QED
  BY <1>1, <1>2, <1>4, DispatchStep

(* Fences arrive and are acknowledged, requests are lost, hosts restart, are   *)
(* registered again and have their cells changed.                              *)
LEMMA HostKeeps ==
    ASSUME ChangeInv, NEW h \in Hosts,
           \/ \E e \in fences[h] : HostFences(h, e) \/ AcknowledgeFence(h, e)
           \/ \E k \in Tasks : LoseRequest(k)
           \/ HostRestarts(h) \/ LinkHost(h) \/ HostCellsChange(h)
    PROVE  ChangeInv'
<1>1. /\ host \in [Hosts -> HostRecord] /\ host[h] \in HostRecord
      /\ reg \in [Hosts -> 1..MaxGen]
      /\ fences \in [Hosts -> SUBSET (1..MaxEpoch)]
      /\ group.epoch \in 1..MaxEpoch
  BY DEF ChangeInv, ChangeTypes, DispatchTypes, Group
<1>2. /\ fences[h] \subseteq 1..group.epoch
      /\ host[h].epoch <= group.epoch /\ reg[h] <= host[h].gen
  BY DEF ChangeInv, EpochsFit
<1>3. ASSUME NEW v \in HostRecord, host' = [host EXCEPT ![h] = v],
             v.context = host[h].context
      PROVE  /\ host' \in [Hosts -> HostRecord] /\ host'[h] = v
             /\ \A g \in Hosts : host'[g].context = host[g].context
             /\ \A g \in Hosts \ {h} : host'[g] = host[g]
  <2>1. /\ host' \in [Hosts -> HostRecord] /\ host'[h] = v
        /\ \A g \in Hosts \ {h} : host'[g] = host[g]
    BY <1>1, <1>3
  <2>2. QED
    BY <2>1, <1>3
<1>4. ASSUME NEW e \in fences[h], HostFences(h, e) PROVE ChangeInv'
  <2>1. UNCHANGED <<boot, group, change, approved, tickets, run, fences, reg, task, receipt,
                    wire, worker>>
    BY <1>4 DEF HostFences, changeVars
  <2>2. PICK v : v = [host[h] EXCEPT !.epoch = e, !.fenced = @ \cup {<<e, host[h].gen>>}]
    OBVIOUS
  <2>3. host' = [host EXCEPT ![h] = v]
    BY <1>4, <2>2 DEF HostFences
  <2>4. e \in 1..MaxEpoch /\ e <= group.epoch
    BY <1>1, <1>2, <1>4, Bounds
  <2>5. v \in HostRecord /\ v.context = host[h].context /\ v.epoch = e /\ v.gen = host[h].gen
    <3>1. PICK f : f = host[h].fenced \cup {<<e, host[h].gen>>}
      OBVIOUS
    <3>2. f \in SUBSET ((1..MaxEpoch) \X (1..MaxGen))
      BY <1>1, <2>4, <3>1 DEF HostRecord
    <3>3. v = [host[h] EXCEPT !.epoch = e, !.fenced = f]
      BY <2>2, <3>1
    <3>4. QED
      BY <1>1, <2>4, <3>2, <3>3 DEF HostRecord
  <2>6. /\ host' \in [Hosts -> HostRecord] /\ host'[h] = v
        /\ \A g \in Hosts : host'[g].context = host[g].context
        /\ \A g \in Hosts \ {h} : host'[g] = host[g]
    BY <1>3, <2>3, <2>5
  <2>7. host'[h].epoch <= group.epoch /\ reg'[h] <= host'[h].gen
    BY <1>2, <2>1, <2>4, <2>5, <2>6
  <2>8. /\ reg' \in [Hosts -> 1..MaxGen] /\ fences' \in [Hosts -> SUBSET (1..MaxEpoch)]
        /\ \A g \in Hosts : fences'[g] \subseteq fences[g] /\ reg'[g] = reg[g]
    BY <1>1, <2>1
  <2>9. QED
    BY <2>1, <2>6, <2>7, <2>8, HostStep
<1>5. ASSUME NEW e \in fences[h], AcknowledgeFence(h, e) PROVE ChangeInv'
  <2>1. UNCHANGED <<boot, group, change, approved, tickets, run, reg, task, receipt,
                    wire, worker>>
    BY <1>5 DEF AcknowledgeFence
  <2>2. fences' = [fences EXCEPT ![h] = @ \ {e}]
    BY <1>5 DEF AcknowledgeFence
  <2>3. /\ fences' \in [Hosts -> SUBSET (1..MaxEpoch)]
        /\ \A g \in Hosts : fences'[g] \subseteq fences[g]
    BY <1>1, <2>2
  <2>4. PICK f : f = {x \in host[h].fenced : x[1] # e}
    OBVIOUS
  <2>5. PICK v : v = [host[h] EXCEPT !.fenced = f]
    OBVIOUS
  <2>6. host' = [host EXCEPT ![h] = v]
    BY <1>5, <2>4, <2>5 DEF AcknowledgeFence
  <2>7. v \in HostRecord /\ v.context = host[h].context /\ v.epoch = host[h].epoch
        /\ v.gen = host[h].gen
    <3>1. f \in SUBSET ((1..MaxEpoch) \X (1..MaxGen))
      BY <1>1, <2>4 DEF HostRecord
    <3>2. QED
      BY <1>1, <2>5, <3>1 DEF HostRecord
  <2>8. /\ host' \in [Hosts -> HostRecord] /\ host'[h] = v
        /\ \A g \in Hosts : host'[g].context = host[g].context
        /\ \A g \in Hosts \ {h} : host'[g] = host[g]
    BY <1>3, <2>6, <2>7
  <2>9. host'[h].epoch <= group.epoch /\ reg'[h] <= host'[h].gen
    BY <1>2, <2>1, <2>7, <2>8
  <2>10. reg' \in [Hosts -> 1..MaxGen] /\ \A g \in Hosts : reg'[g] = reg[g]
    BY <1>1, <2>1
  <2>11. wire' \subseteq wire
    BY <2>1
  <2>12. QED
    BY <2>1, <2>3, <2>8, <2>9, <2>10, <2>11, HostStep
<1>6. ASSUME NEW k \in Tasks, LoseRequest(k) PROVE ChangeInv'
  <2>1. /\ UNCHANGED <<boot, group, change, approved, tickets, run, fences, reg, task, receipt,
                       host, worker>>
        /\ wire' \subseteq wire
    BY <1>6 DEF LoseRequest, changeVars
  <2>2. \A g \in Hosts : fences'[g] \subseteq fences[g]
    BY <2>1
  <2>3. QED
    BY <1>1, <1>2, <2>1, <2>2, HostStep
<1>7. CASE HostRestarts(h)
  <2>1. UNCHANGED <<boot, group, change, approved, tickets, run, fences, reg, task, receipt,
                    wire, worker>>
    BY <1>7 DEF HostRestarts, changeVars
  <2>2. PICK v : v = [host[h] EXCEPT !.gen = @ + 1]
    OBVIOUS
  <2>3. host' = [host EXCEPT ![h] = v] /\ host[h].gen < MaxGen
    BY <1>7, <2>2 DEF HostRestarts
  <2>4. host[h].gen \in 1..MaxGen /\ host[h].gen + 1 \in 1..MaxGen /\ reg[h] \in 1..MaxGen
    BY <1>1, <2>3, Bounds DEF HostRecord
  <2>5. v \in HostRecord /\ v.context = host[h].context /\ v.epoch = host[h].epoch
        /\ v.gen = host[h].gen + 1
    BY <1>1, <2>2, <2>4 DEF HostRecord
  <2>6. /\ host' \in [Hosts -> HostRecord] /\ host'[h] = v
        /\ \A g \in Hosts : host'[g].context = host[g].context
        /\ \A g \in Hosts \ {h} : host'[g] = host[g]
    BY <1>3, <2>3, <2>5
  <2>7. host'[h].epoch <= group.epoch /\ reg'[h] <= host'[h].gen
    BY <1>2, <2>1, <2>4, <2>5, <2>6, Bounds
  <2>8. /\ reg' \in [Hosts -> 1..MaxGen] /\ fences' \in [Hosts -> SUBSET (1..MaxEpoch)]
        /\ \A g \in Hosts : fences'[g] \subseteq fences[g] /\ reg'[g] = reg[g]
    BY <1>1, <2>1
  <2>9. QED
    BY <2>1, <2>6, <2>7, <2>8, HostStep
<1>8. CASE LinkHost(h)
  <2>1. UNCHANGED <<boot, group, change, approved, tickets, run, fences, task, receipt,
                    wire, worker>>
    BY <1>8 DEF LinkHost, changeVars
  <2>2. PICK v : v = [host[h] EXCEPT !.epoch = group.epoch]
    OBVIOUS
  <2>3. host' = [host EXCEPT ![h] = v] /\ reg' = [reg EXCEPT ![h] = host[h].gen]
    BY <1>8, <2>2 DEF LinkHost
  <2>4. host[h].gen \in 1..MaxGen
    BY <1>1 DEF HostRecord
  <2>5. v \in HostRecord /\ v.context = host[h].context /\ v.epoch = group.epoch
        /\ v.gen = host[h].gen
    BY <1>1, <2>2 DEF HostRecord
  <2>6. /\ host' \in [Hosts -> HostRecord] /\ host'[h] = v
        /\ \A g \in Hosts : host'[g].context = host[g].context
        /\ \A g \in Hosts \ {h} : host'[g] = host[g]
    BY <1>3, <2>3, <2>5
  <2>7. /\ reg' \in [Hosts -> 1..MaxGen] /\ reg'[h] = host[h].gen
        /\ \A g \in Hosts \ {h} : reg'[g] = reg[g]
    BY <1>1, <2>3, <2>4
  <2>8. host'[h].epoch <= group.epoch /\ reg'[h] <= host'[h].gen
    BY <1>1, <2>4, <2>5, <2>6, <2>7, Bounds
  <2>9. /\ fences' \in [Hosts -> SUBSET (1..MaxEpoch)]
        /\ \A g \in Hosts : fences'[g] \subseteq fences[g]
    BY <1>1, <2>1
  <2>10. wire' \subseteq wire
    BY <2>1
  <2>11. QED
    BY <2>1, <2>6, <2>7, <2>8, <2>9, <2>10, HostStep
<1>9. CASE HostCellsChange(h)
  <2>1. UNCHANGED <<boot, group, change, approved, tickets, run, fences, reg, task, receipt,
                    wire, worker>>
    BY <1>9 DEF HostCellsChange, changeVars
  <2>2. PICK cells \in CellsSeen : host' = [host EXCEPT ![h].cells = cells]
    BY <1>9 DEF HostCellsChange
  <2>3. PICK v : v = [host[h] EXCEPT !.cells = cells]
    OBVIOUS
  <2>4. host' = [host EXCEPT ![h] = v]
    BY <2>2, <2>3
  <2>5. v \in HostRecord /\ v.context = host[h].context /\ v.epoch = host[h].epoch
        /\ v.gen = host[h].gen
    BY <1>1, <2>3 DEF HostRecord
  <2>6. /\ host' \in [Hosts -> HostRecord] /\ host'[h] = v
        /\ \A g \in Hosts : host'[g].context = host[g].context
        /\ \A g \in Hosts \ {h} : host'[g] = host[g]
    BY <1>3, <2>4, <2>5
  <2>7. host'[h].epoch <= group.epoch /\ reg'[h] <= host'[h].gen
    BY <1>2, <2>1, <2>5, <2>6
  <2>8. /\ reg' \in [Hosts -> 1..MaxGen] /\ fences' \in [Hosts -> SUBSET (1..MaxEpoch)]
        /\ \A g \in Hosts : fences'[g] \subseteq fences[g] /\ reg'[g] = reg[g]
    BY <1>1, <2>1
  <2>9. QED
    BY <2>1, <2>6, <2>7, <2>8, HostStep
<1>10. QED
  BY <1>4, <1>5, <1>6, <1>7, <1>8, <1>9

(* A host answers an open request: the change it belongs to is the one that is *)
(* being prepared, nothing runs, and no later attempt has a task of this host  *)
(* that was applied.                                                           *)
LEMMA HostAppliesKeeps ==
    ASSUME ChangeInv, NEW k \in Tasks, HostApplies(k)
    PROVE  ChangeInv'
<1>1. UNCHANGED <<boot, group, change, approved, tickets, run, fences,
                  reg, task, wire, worker>>
  BY DEF HostApplies, changeVars
<1>2. PICK h \in Hosts : h = HostOf(k)
  BY TaskParts
<1>3. PICK c \in Changes : c = ChangeOf(k)
  BY TaskParts
<1>4. PICK v : v = [config |-> change[c].after, task |-> k]
  OBVIOUS
<1>5. PICK status \in {"applied", "not_applied"} :
        /\ receipt' = [receipt EXCEPT ![k] = [status |-> status, gen |-> host[h].gen]]
        /\ host' = IF status = "applied" THEN [host EXCEPT ![h].context = v] ELSE host
  BY <1>2, <1>3, <1>4 DEF HostApplies
<1>6. TaskFits(k) /\ k \in wire /\ receipt[k] = None
  BY DEF HostApplies, ChangeInv, TasksFit
<1>7. task[k] # None /\ task[k].phase = "send_entered" /\ Open(k)
  BY <1>6 DEF TaskFits, Open
<1>8. Preparing(c) /\ \A r \in Runs : ~Live(r)
  BY <1>3, <1>6, <1>7 DEF TaskFits
<1>9. Prep(c) # None /\ AttemptOf(k) <= Prep(c).attempt /\ ~task[k].disputed
      /\ task[k].receipt = None
  BY <1>3, <1>6, <1>7 DEF TaskFits
<1>10. host[h] \in HostRecord
  BY DEF ChangeInv, DispatchTypes
<1>11. PICK a : a = [status |-> status, gen |-> host[h].gen]
  OBVIOUS
<1>12. a \in Receipt /\ a # None /\ a.status = status
  <2>1. a \in Receipt /\ a.status = status
    BY <1>10, <1>11 DEF HostRecord, Receipt
  <2>2. QED
    BY <2>1, DispatchAssumption
<1>13. /\ receipt' \in [Tasks -> Receipts] /\ receipt'[k] = a
       /\ \A j \in Tasks : j # k => receipt'[j] = receipt[j]
  BY <1>5, <1>11, <1>12 DEF ChangeInv, DispatchTypes, Receipts
<1>14. v \in Context /\ v # None /\ v.task = k /\ v.config = change[c].after
  <2>1. change[c].after \in Configs
    BY <1>8 DEF Preparing, ChangeInv, ChangeTypes, ChangeRecord
  <2>2. v \in Context /\ v.task = k /\ v.config = change[c].after
    BY <2>1, <1>4 DEF Context
  <2>3. QED
    BY <2>2, DispatchAssumption
<1>15. /\ host' \in [Hosts -> HostRecord]
       /\ \A g \in Hosts : host'[g].epoch = host[g].epoch /\ host'[g].gen = host[g].gen
       /\ \A g \in Hosts \ {h} : host'[g].context = host[g].context
       /\ host'[h].context = IF status = "applied" THEN v ELSE host[h].context
  <2>1. CASE status # "applied"
    BY <2>1, <1>5 DEF ChangeInv, DispatchTypes
  <2>2. CASE status = "applied"
    <3>1. /\ host'[h] = [host[h] EXCEPT !.context = v]
          /\ \A g \in Hosts \ {h} : host'[g] = host[g]
      BY <2>2, <1>5 DEF ChangeInv, DispatchTypes
    <3>2. /\ host'[h] \in HostRecord /\ host'[h].context = v
          /\ host'[h].epoch = host[h].epoch /\ host'[h].gen = host[h].gen
      BY <3>1, <1>10, <1>14 DEF HostRecord, Contexts
    <3>3. host' \in [Hosts -> HostRecord]
      BY <2>2, <3>1, <3>2, <1>5 DEF ChangeInv, DispatchTypes
    <3>4. QED
      BY <2>2, <3>1, <3>2, <3>3
  <2>3. QED
    BY <2>1, <2>2
<1>16. ChangeTypes' /\ DispatchTypes'
  BY <1>1, <1>13, <1>15 DEF ChangeInv, ChangeTypes, DispatchTypes
<1>17. EpochsFit'
  BY <1>1, <1>15 DEF ChangeInv, EpochsFit
<1>18. StagesFit' /\ OnePreparation' /\ SelectionFits' /\ RunsFit' /\ OneOpenSend'
  BY <1>1, StagesStay, RunsStay, SendsStay DEF ChangeInv
<1>19. Preparing(c)'
  BY <1>1, <1>8 DEF Preparing
<1>20. TasksFit'
  <2> SUFFICES ASSUME NEW j \in Tasks PROVE TaskFits(j)'
    BY DEF TasksFit
  <2> DEFINE d == ChangeOf(j)
  <2>1. TaskFits(j) /\ d \in Changes /\ HostOf(j) \in Hosts
        /\ AttemptOf(j) \in Nat /\ AttemptOf(k) \in Nat
    BY TaskParts, Bounds DEF ChangeInv, TasksFit
  <2>2. /\ Prep(d)' = Prep(d) /\ (Preparing(d)' <=> Preparing(d))
        /\ change'[d].after = change[d].after
    BY <1>1 DEF Prep, Preparing
  <2>3. (\A r \in Runs : ~Live(r)) => \A r \in Runs : ~Live(r)'
    BY <1>1 DEF Live
  <2>4. CASE j = k
    <3>1. ~Open(k)'
      BY <1>12, <1>13 DEF Open
    <3>2. receipt'[k].status = "applied" => host'[h].context = v
      BY <1>12, <1>13, <1>15
    <3>3. task'[k] # None /\ task'[k].phase = "send_entered" /\ ~task'[k].disputed
          /\ task'[k].receipt = None
      BY <1>1, <1>7, <1>9
    <3>4. Prep(c)' # None /\ AttemptOf(k) <= Prep(c)'.attempt
      BY <1>9, <2>2, <2>4, <1>3
    <3>5. v = [config |-> change'[c].after, task |-> k]
      BY <1>1, <1>4
    <3>6. QED
      BY <2>4, <3>1, <3>2, <3>3, <3>4, <3>5, <1>2, <1>3 DEF TaskFits
  <2>5. CASE j # k
    <3>1. task'[j] = task[j] /\ receipt'[j] = receipt[j] /\ (j \in wire' <=> j \in wire)
          /\ (Open(j)' <=> Open(j))
      BY <2>5, <1>1, <1>13 DEF Open
    <3>2. ASSUME Preparing(d), AttemptOf(j) = Prep(d).attempt, receipt[j] # None,
                 receipt[j].status = "applied"
          PROVE  host'[HostOf(j)].context = [config |-> change'[d].after, task |-> j]
      <4>1. host[HostOf(j)].context = [config |-> change[d].after, task |-> j]
        BY <2>1, <3>2 DEF TaskFits
      <4>2. d = c
        BY <2>1, <3>2, <1>8 DEF ChangeInv, OnePreparation
      <4>3. HostOf(j) # h
        <5> SUFFICES ASSUME HostOf(j) = h PROVE FALSE
          OBVIOUS
        <5>1. AttemptOf(j) # AttemptOf(k)
          BY <2>5, <4>2, <1>2, <1>3, TaskParts
        <5>2. AttemptOf(k) < AttemptOf(j)
          <6>1. AttemptOf(k) <= AttemptOf(j)
            BY <1>9, <3>2, <4>2
          <6>2. QED
            BY <6>1, <5>1, <2>1
        <5>3. task[j] # None
          BY <2>1, <3>2 DEF TaskFits
        <5>4. QED
          BY <5>2, <5>3, <4>2, <1>3, <1>7, <1>9 DEF ChangeInv, OneOpenSend
      <4>4. host'[HostOf(j)].context = host[HostOf(j)].context
        BY <4>3, <2>1, <1>15
      <4>5. QED
        BY <4>1, <4>4, <2>2
    <3>3. QED
      BY <2>1, <2>2, <2>3, <3>1, <3>2 DEF TaskFits
  <2>6. QED
    BY <2>4, <2>5
<1>21. ContextsFit'
  <2> SUFFICES ASSUME NEW g \in Hosts, host'[g].context # None
               PROVE  HostOf(host'[g].context.task) = g /\ receipt'[host'[g].context.task] # None
    BY DEF ContextsFit, HostOf
  <2>1. \A j \in Tasks : receipt[j] # None => receipt'[j] # None
    BY <1>12, <1>13
  <2>2. CASE host'[g].context = host[g].context
    <3>1. PICK j \in Tasks : j = host[g].context.task
      BY <2>2 DEF ChangeInv, DispatchTypes, HostRecord, Contexts, Context
    <3>2. HostOf(j) = g /\ receipt[j] # None
      BY <2>2, <3>1 DEF ChangeInv, ContextsFit
    <3>3. QED
      BY <2>1, <2>2, <3>1, <3>2
  <2>3. CASE host'[g].context # host[g].context
    <3>1. g = h /\ host'[g].context = v
      BY <2>3, <1>15
    <3>2. QED
      BY <3>1, <1>2, <1>12, <1>13, <1>14
  <2>4. QED
    BY <2>2, <2>3
<1>22. WorkersFit'
  <2> SUFFICES ASSUME NEW g \in Hosts PROVE WorkerFits(g)'
    BY DEF WorkersFit
  <2>1. WorkerFits(g) /\ worker'[g] = worker[g]
    BY <1>1 DEF ChangeInv, WorkersFit
  <2>2. ASSUME worker[g].at # "idle", NEW j \in Tasks, j = worker[g].task, receipt[j] # None
        PROVE  receipt'[j] = receipt[j]
    BY <2>2, <1>6, <1>13
  <2>3. QED
    BY <2>1, <2>2, <1>1 DEF WorkerFits, HostOf
<1>23. HostsFollowSelection'
  BY <1>19 DEF HostsFollowSelection, Preparing
<1>24. RunMatchesItsHosts'
  BY <1>1, <1>8 DEF RunMatchesItsHosts, Live
<1>25. QED
  BY <1>16, <1>17, <1>18, <1>20, <1>21, <1>22, <1>23, <1>24 DEF ChangeInv

(* The runtime restarts: what it held in memory is gone.                       *)
LEMMA RuntimeRestartsKeeps ==
    ASSUME ChangeInv, RuntimeRestarts
    PROVE  ChangeInv'
<1>1. UNCHANGED <<change, approved, run, reg, task, host, receipt, wire>>
  BY DEF RuntimeRestarts
<1>2. /\ boot < MaxBoot /\ group.epoch < MaxEpoch /\ boot' = boot + 1
      /\ group' = Invalidated(group, "restart") /\ fences' = FencesOwed
      /\ tickets' = {} /\ worker' = [h \in Hosts |-> Idle]
  BY DEF RuntimeRestarts
<1>3. group'.epoch = group.epoch + 1
  BY <1>2 DEF Invalidated, ChangeInv, ChangeTypes, Group
<1>4. /\ group' \in Group /\ group'.config = group.config
      /\ group'.selection = group.selection /\ group'.blocks = group.blocks \cup {"restart"}
      /\ fences' \in [Hosts -> SUBSET (1..MaxEpoch)] /\ EpochsFit'
  BY <1>1, <1>2, <1>3, InvalidatedFits DEF ChangeInv
<1>5. boot' \in 1..MaxBoot
  BY <1>2, Bounds DEF ChangeInv, ChangeTypes
<1>6. ChangeTypes'
  BY <1>1, <1>2, <1>4, <1>5 DEF ChangeInv, ChangeTypes
<1>7. StagesFit'
  BY <1>1, <1>4 DEF ChangeInv, StagesFit, Applied
<1>8. PrepsStay
  BY <1>1 DEF PrepsStay, Prep, Preparing
<1>9. \A d \in Changes : /\ Applied(d)' <=> Applied(d)
                         /\ Applied(d) => change'[d].after = change[d].after
  BY <1>1 DEF Applied
<1>10. worker' \in [Hosts -> WorkerRecord] /\ WorkersFit'
  BY <1>2 DEF WorkerRecord, Idle, WorkersFit, WorkerFits
<1>11. QED
  BY <1>1, <1>4, <1>6, <1>7, <1>8, <1>9, <1>10, RecordStep

-----------------------------------------------------------------------------
(* Every step keeps the invariant.                                             *)
LEMMA ChangeInductive ==
    ASSUME ChangeInv, [Next]_vars
    PROVE  ChangeInv'
<1>1. boot \in 1..MaxBoot /\ approved \subseteq Changes /\ tickets \subseteq Ticket
  BY DEF ChangeInv, ChangeTypes
<1>2. CASE UNCHANGED vars
  <2>1. UNCHANGED <<boot, group, change, approved, tickets, run, fences,
                    reg, task, host, receipt, wire, worker>>
    BY <1>2 DEF vars, changeVars, dispatchVars
  <2>2. QED
    BY <2>1, <1>1, QuietStep
<1>3. ASSUME NEW c \in Changes, NEW act \in {"propose", "stage", "apply"},
             NEW rev \in 0..MaxRev, Preflight(c, act, rev),
             UNCHANGED <<boot, group, change, approved, run, fences, dispatchVars>>
      PROVE  ChangeInv'
  <2>1. group.config \in Configs
    BY DEF ChangeInv, ChangeTypes, Group
  <2>2. PICK t : t = [change |-> c, action |-> act, rev |-> rev, boot |-> boot,
                      before |-> group.config]
    OBVIOUS
  <2>3. t \in Ticket /\ tickets' = tickets \cup {t}
    BY <1>1, <1>3, <2>1, <2>2 DEF Ticket, Preflight
  <2>4. tickets' \subseteq Ticket
    BY <1>1, <2>3
  <2>5. UNCHANGED <<group, change, run, fences, reg, task, host, receipt, wire, worker>>
    BY <1>3 DEF dispatchVars
  <2>6. boot' \in 1..MaxBoot /\ approved' \subseteq Changes
    BY <1>1, <1>3
  <2>7. QED
    BY <2>4, <2>5, <2>6, QuietStep
<1>4. \A c \in Changes : change[c] # None => change[c].rev \in 0..MaxRev
  BY DEF ChangeInv, ChangeTypes, ChangeRecord
<1>5. ASSUME NEW c \in Changes, Handling(c) PROVE ChangeInv'
  <2>1. UNCHANGED dispatchVars
    BY <1>5 DEF Handling
  <2>2. CASE PrepareChange(c)
    <3>1. /\ Preflight(c, "propose", 0) /\ 0 \in 0..MaxRev
          /\ UNCHANGED <<boot, group, change, approved, run, fences>>
      BY <2>2, Bounds DEF PrepareChange
    <3>2. QED
      BY <2>1, <3>1, <1>3
  <2>3. CASE PrepareStage(c)
    <3>1. /\ Preflight(c, "stage", change[c].rev) /\ change[c].rev \in 0..MaxRev
          /\ UNCHANGED <<boot, group, change, approved, run, fences>>
      BY <2>3, <1>4 DEF PrepareStage
    <3>2. QED
      BY <2>1, <3>1, <1>3
  <2>4. CASE ReviewImpact(c)
    <3>1. /\ Revise(c) /\ change[c].state \in {"proposed", "reviewed"} /\ Recorded(c, "reviewed")
          /\ tickets' \subseteq tickets /\ UNCHANGED <<boot, group, approved, run, fences>>
      BY <2>4 DEF ReviewImpact
    <3>2. QED
      BY <2>1, <3>1, RevisionKeeps
  <2>5. CASE WithdrawReview(c)
    <3>1. UNCHANGED <<group, change, run, fences, reg, task, host, receipt, wire, worker>>
      BY <2>1, <2>5 DEF WithdrawReview, dispatchVars
    <3>2. boot' \in 1..MaxBoot /\ approved' \subseteq Changes /\ tickets' \subseteq Ticket
      BY <2>5, <1>1 DEF WithdrawReview
    <3>3. QED
      BY <3>1, <3>2, QuietStep
  <2>6. QED
    BY <2>1, <2>2, <2>3, <2>4, <2>5, <1>5, BeginPreparationKeeps, QualifyKeeps, SuspendKeeps
       DEF Handling
<1>6. ASSUME NEW c \in Changes, PrepareApply(c) PROVE ChangeInv'
  <2>1. /\ Preflight(c, "apply", change[c].rev) /\ change[c].rev \in 0..MaxRev
        /\ UNCHANGED <<boot, group, change, approved, run, fences, dispatchVars>>
    BY <1>4, <1>6 DEF PrepareApply
  <2>2. QED
    BY <2>1, <1>3
<1>7. ASSUME NEW t \in tickets, Verified(t) PROVE ChangeInv'
  <2>1. UNCHANGED dispatchVars /\ t.change \in Changes
    BY <1>1, <1>7 DEF Verified, Ticket
  <2>2. CASE CommitStage(t)
    <3>1. /\ Revise(t.change) /\ change[t.change].state \in {"proposed", "reviewed"}
          /\ Recorded(t.change, "staged") /\ tickets' \subseteq tickets
          /\ UNCHANGED <<boot, group, approved, run, fences>>
      BY <2>2 DEF CommitStage, AtRevision
    <3>2. QED
      BY <2>1, <3>1, RevisionKeeps
  <2>3. CASE DropTicket(t)
    <3>1. UNCHANGED <<group, change, run, fences, reg, task, host, receipt, wire, worker>>
      BY <2>1, <2>3 DEF DropTicket, dispatchVars
    <3>2. boot' \in 1..MaxBoot /\ approved' \subseteq Changes /\ tickets' \subseteq Ticket
      BY <2>3, <1>1 DEF DropTicket
    <3>3. QED
      BY <3>1, <3>2, QuietStep
  <2>4. QED
    BY <2>1, <2>2, <2>3, <1>7, CommitChangeKeeps DEF Verified
<1>8. ASSUME NEW r \in Runs, Running(r) PROVE ChangeInv'
  BY <1>8, StartRunKeeps, FinishRunKeeps DEF Running
<1>9. ASSUME NEW k \in Tasks, PickTask(k) \/ TransportFails(k) \/ HostApplies(k) PROVE ChangeInv'
  BY <1>9, PickTaskKeeps, TransportKeeps, HostAppliesKeeps
<1>10. ASSUME NEW k \in Tasks, LoseRequest(k) PROVE ChangeInv'
  <2>1. PICK h \in Hosts : TRUE
    BY ChangeAssumption
  <2>2. QED
    BY <1>10, <2>1, HostKeeps
<1>11. ASSUME NEW h \in Hosts, Coordinator(h) PROVE ChangeInv'
  BY <1>11, BindTaskKeeps, EnterKeeps, AnsweredKeeps, RecordKeeps DEF Coordinator
<1>12. ASSUME NEW h \in Hosts,
              \/ CallFails(h) \/ ExpireRead(h)
              \/ HostRestarts(h) \/ LinkHost(h) \/ HostCellsChange(h)
              \/ \E e \in fences[h] : HostFences(h, e) \/ AcknowledgeFence(h, e)
       PROVE  ChangeInv'
  BY <1>12, TransportKeeps, ExpireReadKeeps, HostKeeps
<1>13. QED
  BY <1>2, <1>5, <1>6, <1>7, <1>8, <1>9, <1>10, <1>11, <1>12,
     AuthorizeKeeps, CommitApplyKeeps, RuntimeRestartsKeeps DEF Next

(* A change whose page names no blocker passes every check of its application  *)
(* but the age of the reads and the hosts' cells.                              *)
LEMMA BlockersComplete == ASSUME ChangeInv PROVE BlockersAreComplete
<1> SUFFICES ASSUME NEW c \in Changes, change[c] # None, change[c].state = "staged",
                    Blockers(c) = {}
             PROVE  /\ Current(c) /\ Barrier(c)
                    /\ \A h \in Hosts :
                         LET k == <<c, change[c].prep.attempt, h>> IN
                         ReceiptProved(k) \/ task[k].seen.cells # "as_named"
  BY DEF BlockersAreComplete
<1>1. "run" \notin Blockers(c) /\ "preparation" \notin Blockers(c)
      /\ "fence" \notin Blockers(c) /\ "host" \notin Blockers(c)
  OBVIOUS
<1>2. \A r \in Runs : ~Live(r)
  BY <1>1 DEF Blockers
<1>3. change[c].prep # None
  BY <1>1 DEF Blockers
<1>4. \A h \in Hosts : <<h, change[c].prep.epoch, reg[h]>> \in acks
  BY <1>1, <1>3 DEF Blockers
<1>5. \A h \in Hosts : Acknowledged(<<c, change[c].prep.attempt, h>>)
  BY <1>1, <1>3 DEF Blockers
<1>6. Barrier(c)
  BY <1>2, <1>4 DEF Barrier
<1>7. PICK a : a = change[c].prep.attempt
  OBVIOUS
<1>8. a \in 1..MaxAttempt
  <2>1. change[c].prep \in Attempts
    BY <1>3 DEF ChangeInv, ChangeTypes, ChangeRecord
  <2>2. QED
    BY <2>1, <1>7 DEF Attempts
<1>9. Current(c)
  <2>1. PICK h \in Hosts : TRUE
    BY ChangeAssumption
  <2>2. CurrentChange(<<c, a, h>>) /\ ChangeOf(<<c, a, h>>) = c
    BY <2>1, <1>5, <1>7, <1>8, TaskOf DEF Acknowledged
  <2>3. QED
    BY <2>2 DEF CurrentChange
<1>10. ASSUME NEW h \in Hosts, task[<<c, a, h>>].seen.cells = "as_named"
       PROVE  ReceiptProved(<<c, a, h>>)
  <2>1. PICK k \in Tasks : k = <<c, a, h>>
    BY <1>8, TaskOf
  <2>2. Acknowledged(k) /\ TaskFits(k)
    BY <2>1, <1>5, <1>7 DEF ChangeInv, TasksFit
  <2>3. task[k].phase = "send_entered"
    BY <2>2 DEF Acknowledged, TaskFits
  <2>4. ReceiptProved(k)
    BY <1>10, <2>1, <2>2, <2>3 DEF Acknowledged, ReceiptProved
  <2>5. QED
    BY <2>1, <2>4
<1>11. QED
  BY <1>6, <1>7, <1>9, <1>10

(* The invariant gives every part of the property.                             *)
LEMMA ChangeInvGives == ASSUME ChangeInv PROVE ChangeIsSound
<1>1. TypeOK
  <2>1. boot \in 1..MaxBoot /\ approved \subseteq Changes
        /\ group.config \in Configs /\ group.epoch \in 1..MaxEpoch
        /\ group.blocks \subseteq Changes \cup {"restart"}
        /\ group.selection \in Changes \cup {None}
    BY DEF ChangeInv, ChangeTypes, Group
  <2>2. \A c \in Changes : change[c] # None =>
          /\ change[c].state \in {"proposed", "reviewed", "staged", "applied", "qualified"}
          /\ change[c].rev \in 1..MaxRev
          /\ {change[c].before, change[c].after} \subseteq Configs
          /\ change[c].prep \in Attempts \cup {None}
    BY DEF ChangeInv, ChangeTypes, ChangeRecord
  <2>3. \A c \in Changes : change[c] # None =>
          /\ change[c].state \in {"proposed", "reviewed"} => change[c].prep = None
          /\ Applied(c) => change[c].prep # None
    BY DEF ChangeInv, StagesFit
  <2>4. \A r \in Runs : run[r] # None => run[r].origin \in Configs
    BY DEF ChangeInv, ChangeTypes, RunRecord
  <2>5. \A h \in Hosts :
          /\ fences[h] \subseteq 1..group.epoch
          /\ reg[h] <= host[h].gen /\ host[h].gen \in 1..MaxGen
          /\ host[h].epoch <= group.epoch
          /\ host[h].context \in Contexts
          /\ host[h].cells \in CellsSeen
          /\ host[h].fenced \subseteq (1..MaxEpoch) \X (1..MaxGen)
          /\ worker[h].seen \in Observations \cup {None}
    BY DEF ChangeInv, EpochsFit, DispatchTypes, HostRecord, WorkerRecord
  <2>6. \A k \in Tasks : task[k] # None =>
          /\ task[k].phase \in {"awaiting", "prepared", "send_entered"}
          /\ task[k].issue \in Issues /\ task[k].receipt \in Receipts
    BY DEF ChangeInv, DispatchTypes, TaskRecord
  <2>7. \A k \in Tasks : task[k] # None => (receipt[k] # None => task[k].phase = "send_entered")
    BY DEF ChangeInv, TasksFit, TaskFits
  <2>8. QED
    BY <2>1, <2>2, <2>3, <2>4, <2>5, <2>6, <2>7 DEF TypeOK
<1>2. RunReadsItsConfiguration
  BY DEF ChangeInv, RunsFit, SelectionFits, RunReadsItsConfiguration, RunConfiguration
<1>3. FaithfulHostIsUndisputed
  BY DEF ChangeInv, TasksFit, TaskFits, FaithfulHostIsUndisputed
<1>4. QED
  BY <1>1, <1>2, <1>3, BlockersComplete DEF ChangeInv, SelectionFits, ChangeIsSound

(* However preparations, withdrawn reviews, late answers, host and platform    *)
(* restarts and retries interleave, the hosts follow the selection, runs keep  *)
(* the configuration they started under and see no other, lineages do not      *)
(* fork, no two attempts of a change are open at a host, and the page names    *)
(* every blocker but a host's changed cells (process_change, process_apply,    *)
(* configuration_dispatch).                                                    *)
THEOREM ChangeIsAlwaysSound == Spec => []ChangeIsSound
<1>1. Init => ChangeInv
  BY ChangeInitially
<1>2. ChangeInv /\ [Next]_vars => ChangeInv'
  BY ChangeInductive
<1>3. ChangeInv => ChangeIsSound
  BY ChangeInvGives
<1>4. QED
  BY <1>1, <1>2, <1>3, PTL DEF Spec
=============================================================================
