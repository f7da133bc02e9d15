---------------------------- MODULE DeviceReview ----------------------------
(***************************************************************************)
(* The software review of device packages (engine/device_review.rs): a     *)
(* request pins the package and the context, an outside verifier's signed  *)
(* report becomes a version, a person approves or rejects the version.     *)
(* A report stands for its digest; the ones in Passing pass.               *)
(***************************************************************************)
EXTENDS Naturals, FiniteSets

(***************************************************************************)
(* The package service of the runtime: the registered package store and    *)
(* verification policy (engine/package_intake.rs), the intake of signed    *)
(* packages and the tickets that carry verification work out of the        *)
(* writer and back.                                                        *)
(*                                                                         *)
(* File and signature checks are too slow for the single writer.  Every    *)
(* operation on a package is therefore prepared in one transaction, which  *)
(* issues a ticket, verified by a worker outside, and committed in another *)
(* transaction that must not trust anything the first one read.  A ticket  *)
(* lives in the memory of the runtime: a restart loses it, and its time    *)
(* limit ends it.                                                          *)
(*                                                                         *)
(* A trust is the store owner together with the policy rules (semantic     *)
(* fingerprint and file digest).  The site is the configuration of the     *)
(* cell together with that of the cells it is connected to; how it changes *)
(* is modelled by ProcessChange.  A release stands for the digests of the  *)
(* checkers compiled into the runtime.  Request keys are RequestLedger's,  *)
(* roles are left out: every principal may ask for everything.             *)
(***************************************************************************)
CONSTANTS Absent, Principals,
          Trusts,          \* records [owner, rules]
          Sites,           \* records [own, connected]; own = [version, hosts]
          Releases,        \* records [device, process, builder]
          Intakes,
          MaxTickets, MaxTurns   \* bounds: open tickets, changes of context

Owners == {t.owner : t \in Trusts}
Rules == {t.rules : t \in Trusts}

ASSUME IntakeAssumption ==
    /\ Absent \notin Principals
    /\ Absent \notin [gen : Nat, owner : Owners, rules : Rules]
    /\ MaxTickets \in Nat /\ MaxTurns \in Nat

VARIABLES reviewBoot, release, service, generations, trust, site, receipts,
          reviewTickets, turns

intakeVars == <<reviewBoot, release, service, generations, trust, site, receipts,
                reviewTickets, turns>>

\* One more change of the surroundings of the reviews.
Turn == turns < MaxTurns /\ turns' = turns + 1

\* The composition's first word in a boot is no change.
Word(row) == IF row.boot = reviewBoot THEN Turn ELSE UNCHANGED turns

\* package_intake::current: a registration counts in the boot that made it.
CurrentIntake == IF service.boot = reviewBoot THEN service.reg ELSE Absent

SameTrust(reg, t) == reg # Absent /\ reg.owner = t.owner /\ reg.rules = t.rules

\* The generation of a registration of trust t: the recorded one when nothing
\* changed, a new one otherwise.
Generation(t) ==
    IF SameTrust(service.reg, t) THEN service.reg.gen ELSE generations + 1

\* configure_package_intake: t = Absent disables the service.  trust counts the
\* changes of the recorded registration, for the properties.  What the change
\* takes from certificates in force is in QualificationActivation.
ConfigureIntake(t) ==
    LET reg == IF t = Absent THEN Absent
               ELSE [gen |-> Generation(t), owner |-> t.owner, rules |-> t.rules]
    IN /\ Word(service)
       /\ service' = [boot |-> reviewBoot, reg |-> reg]
       /\ generations' = IF reg # Absent /\ reg.gen > generations
                         THEN reg.gen ELSE generations
       /\ trust' = IF reg = service.reg THEN trust ELSE trust + 1
       /\ UNCHANGED <<reviewBoot, release, site, receipts, reviewTickets>>

\* A ticket leaves the writer.
IssueTicket(t) ==
    /\ Cardinality(reviewTickets) < MaxTickets
    /\ reviewTickets' = reviewTickets \union {t}

\* A ticket comes back to the writer: refused or not, it is used up.
Redeem(t) == t \in reviewTickets /\ reviewTickets' = reviewTickets \ {t}

\* prepare_package_intake
PrepareIntake(i, package, p) ==
    /\ receipts[i] = Absent
    /\ CurrentIntake # Absent
    /\ IssueTicket([kind |-> "intake", intake |-> i, package |-> package, by |-> p,
              config |-> site.own, reg |-> CurrentIntake])
    /\ UNCHANGED <<reviewBoot, release, service, generations, trust, site, receipts,
                   turns>>

\* The registration and the configuration the ticket was issued for still hold.
IntakeHolds(t) == CurrentIntake = t.reg /\ site.own = t.config

\* The worker holds the store and the policy that the ticket names, and finds
\* the package in the import folder to be the one asked for (Worker::prepare).
WorkerStores(t) == SameTrust(CurrentIntake, t.reg)

\* commit_package_intake
CommitIntake(t) ==
    /\ t.kind = "intake"
    /\ Redeem(t)
    /\ WorkerStores(t)
    /\ IntakeHolds(t)
    /\ receipts[t.intake] = Absent
    /\ receipts' = [receipts EXCEPT ![t.intake] =
            [package |-> t.package, by |-> t.by, config |-> t.config, reg |-> t.reg]]
    /\ UNCHANGED <<reviewBoot, release, service, generations, trust, site, turns>>

\* The worker is busy, the files fail verification, the time limit passes, the
\* commit is refused or the caller goes away.
Drop(t) == /\ Redeem(t)
           /\ UNCHANGED <<reviewBoot, release, service, generations, trust, site,
                          receipts, turns>>

\* The runtime starts again, perhaps as another release: open tickets are lost
\* and no registration counts until the composition repeats it.
Restart(r) ==
    /\ Turn
    /\ reviewBoot' = reviewBoot + 1
    /\ release' = r
    /\ reviewTickets' = {}
    /\ UNCHANGED <<service, generations, trust, site, receipts>>

\* A change of configuration is applied at the cell or at a connected one.
ChangeSite(s) ==
    /\ Turn
    /\ s # site
    /\ site' = s
    /\ UNCHANGED <<reviewBoot, release, service, generations, trust, receipts,
                   reviewTickets>>

InitIntake ==
    /\ reviewBoot = 1
    /\ release \in Releases
    /\ service = [boot |-> 0, reg |-> Absent]
    /\ generations = 0
    /\ trust = 0
    /\ site \in Sites
    /\ receipts = [i \in Intakes |-> Absent]
    /\ reviewTickets = {}
    /\ turns = 0

Registrations == [gen : 1..generations, owner : Owners, rules : Rules]

\* The types of the package service's state (engine/package_intake.rs:14-80).
IntakeTypeOK ==
    /\ reviewBoot \in 1..(MaxTurns + 1)
    /\ release \in Releases
    /\ service.boot \in 0..reviewBoot
    /\ service.reg \in Registrations \union {Absent}
    /\ generations \in 0..(reviewBoot + turns)
    /\ trust \in 0..(reviewBoot + turns)
    /\ site \in Sites
    /\ \A i \in Intakes : receipts[i] # Absent =>
            receipts[i].by \in Principals /\ receipts[i].reg \in Registrations
    /\ Cardinality(reviewTickets) <= MaxTickets
    /\ turns \in 0..MaxTurns


-----------------------------------------------------------------------------
CONSTANTS DeviceReviews, DeviceIntakes, Authorities, Reports, Passing,
          MaxVersions, MaxDecisions   \* bounds: reports and decisions of a review

\* The stored report of a device or process review.
Checkers == {x.device : x \in Releases} \union {x.process : x \in Releases}
Version == [revision : Nat, report : Reports, checker : Checkers, ready : BOOLEAN]

ASSUME ReviewAssumption ==
    /\ DeviceIntakes \subseteq Intakes
    /\ Absent \notin Version
    /\ MaxVersions \in Nat /\ MaxDecisions \in Nat

VARIABLES deviceAuthority, deviceJobs, deviceVersions, deviceDecisions

reviewedVars == <<deviceJobs, deviceVersions, deviceDecisions>>
deviceVars == <<deviceAuthority, deviceJobs, deviceVersions, deviceDecisions>>

\* device_review::authority: as with the package service, only of this boot.
DeviceAuthority ==
    IF deviceAuthority.boot = reviewBoot THEN deviceAuthority.digest ELSE Absent

Revision(x) == IF x = Absent THEN 0 ELSE x.revision

\* configure_device_review
ConfigureDeviceReview(a) ==
    /\ Word(deviceAuthority)
    /\ deviceAuthority' = [boot |-> reviewBoot, digest |-> a]
    /\ UNCHANGED <<reviewBoot, release, service, generations, trust, site, receipts,
                   reviewTickets, reviewedVars>>

\* device_review::context: what the request pinned is what holds now.
DeviceContext(j) ==
    /\ site.own = j.config
    /\ CurrentIntake = j.reg
    /\ DeviceAuthority = j.authority

\* create_device_review; trust is kept for the properties.
CreateDeviceReview(r, i) ==
    /\ deviceJobs[r] = Absent
    /\ receipts[i] # Absent
    /\ CurrentIntake # Absent
    /\ receipts[i].config = site.own
    /\ DeviceAuthority # Absent
    /\ deviceJobs' = [deviceJobs EXCEPT ![r] =
            [package |-> receipts[i].package, by |-> receipts[i].by,
             config |-> site.own, reg |-> CurrentIntake, authority |-> DeviceAuthority,
             trust |-> trust, boot |-> reviewBoot]]
    /\ UNCHANGED <<intakeVars, deviceAuthority, deviceVersions, deviceDecisions>>

\* prepare_device_report
PrepareDeviceReport(r, report) ==
    /\ deviceJobs[r] # Absent
    /\ DeviceContext(deviceJobs[r])
    /\ Revision(deviceVersions[r]) < MaxVersions
    /\ IssueTicket([kind |-> "device report", review |-> r, report |-> report,
              expected |-> Revision(deviceVersions[r]), reg |-> CurrentIntake])
    /\ UNCHANGED <<reviewBoot, release, service, generations, trust, site, receipts,
                   turns, deviceVars>>

\* Validated::check by the worker: the report answers this request, under the
\* authority the request pinned, for the package in the registered store.
DeviceVerified(j) == DeviceAuthority = j.authority /\ SameTrust(CurrentIntake, j.reg)

\* The worker reads the report and its signature (Worker::prepare_device_report).
WorkerReadsDevice(t) ==
    DeviceVerified(deviceJobs[t.review]) /\ SameTrust(CurrentIntake, t.reg)

\* The worker checks the recorded report again (Worker::prepare_device_decision,
\* PreparedDecision::approve).
WorkerApprovesDevice(t) ==
    DeviceVerified(deviceJobs[t.review]) /\ t.version.report \in Passing

\* commit_device_report
CommitDeviceReport(t) ==
    /\ t.kind = "device report"
    /\ Redeem(t)
    /\ WorkerReadsDevice(t)
    /\ DeviceContext(deviceJobs[t.review])
    /\ CurrentIntake = t.reg
    /\ Revision(deviceVersions[t.review]) = t.expected
    /\ deviceVersions' = [deviceVersions EXCEPT ![t.review] =
            [revision |-> t.expected + 1, report |-> t.report,
             checker |-> release.device, ready |-> t.report \in Passing]]
    /\ UNCHANGED <<reviewBoot, release, service, generations, trust, site, receipts,
                   turns, deviceAuthority, deviceJobs, deviceDecisions>>

\* The conditions of an approval, at preparation and again at the commit.
DeviceApprovable(j, v, p) ==
    /\ p # j.by
    /\ DeviceContext(j)
    /\ v.ready
    /\ v.checker = release.device

\* prepare_device_decision
PrepareDeviceDecision(r, choice, p) ==
    /\ deviceVersions[r] # Absent
    /\ choice = "Approve" => DeviceApprovable(deviceJobs[r], deviceVersions[r], p)
    /\ Revision(deviceDecisions[r]) < MaxDecisions
    /\ IssueTicket([kind |-> "device decision", review |-> r, choice |-> choice, by |-> p,
              version |-> deviceVersions[r], expected |-> Revision(deviceDecisions[r]),
              reg |-> CurrentIntake])
    /\ UNCHANGED <<reviewBoot, release, service, generations, trust, site, receipts,
                   turns, deviceVars>>

\* The decision the caller read is still the last one.
DeviceDecisionAsSeen(t) == Revision(deviceDecisions[t.review]) = t.expected

\* commit_device_decision; under is the context of the commit, for the
\* properties.
CommitDeviceDecision(t) ==
    /\ t.kind = "device decision"
    /\ Redeem(t)
    /\ deviceVersions[t.review] = t.version
    /\ t.choice = "Approve" =>
            /\ DeviceApprovable(deviceJobs[t.review], deviceVersions[t.review], t.by)
            /\ WorkerApprovesDevice(t)
            /\ CurrentIntake = t.reg
    /\ DeviceDecisionAsSeen(t)
    /\ deviceDecisions' = [deviceDecisions EXCEPT ![t.review] =
            [revision |-> t.expected + 1, choice |-> t.choice, version |-> t.version,
             by |-> t.by,
             under |-> <<site.own, CurrentIntake, DeviceAuthority, release.device>>]]
    /\ UNCHANGED <<reviewBoot, release, service, generations, trust, site, receipts,
                   turns, deviceAuthority, deviceJobs, deviceVersions>>

\* approval_matches_current_review of read_detail, and device_binding::approved
\* for a plan that names this version and this decision.
DeviceEffective(r) ==
    /\ deviceDecisions[r] # Absent
    /\ DeviceContext(deviceJobs[r])
    /\ deviceVersions[r].checker = release.device
    /\ deviceVersions[r].ready
    /\ deviceDecisions[r].choice = "Approve"
    /\ deviceDecisions[r].version = deviceVersions[r]

InitDevice ==
    /\ deviceAuthority = [boot |-> 0, digest |-> Absent]
    /\ deviceJobs = [r \in DeviceReviews |-> Absent]
    /\ deviceVersions = [r \in DeviceReviews |-> Absent]
    /\ deviceDecisions = [r \in DeviceReviews |-> Absent]

=============================================================================
