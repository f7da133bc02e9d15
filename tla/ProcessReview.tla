---------------------------- MODULE ProcessReview ----------------------------
(***************************************************************************)
(* The software review of process packages (engine/process_review.rs,      *)
(* process_review.rs) and, with the modules it extends, the whole way from *)
(* a device package to an approved process: intake, device review, binding *)
(* plan, draft, compile input, intake of the process package, process      *)
(* review.  Anything the way rests on may change at any point of it.       *)
(***************************************************************************)
EXTENDS DeviceBinding

CONSTANTS ProcessReviews, ProcessIntakes

ASSUME ProcessIntakesAssumption == ProcessIntakes \subseteq Intakes

VARIABLES authority, jobs, versions, decisions

processVars == <<authority, jobs, versions, decisions>>
reviewVars == <<intakeVars, deviceVars, plans, draftVars, processVars>>

\* process_review::authority
Authority == IF authority.boot = reviewBoot THEN authority.digest ELSE Absent

\* configure_process_review
ConfigureProcessReview(a) ==
    /\ Word(authority)
    /\ authority' = [boot |-> reviewBoot, digest |-> a]
    /\ UNCHANGED <<reviewBoot, release, service, generations, trust, site, receipts,
                   reviewTickets, deviceVars, plans, draftVars, jobs, versions,
                   decisions>>

\* device_context_current: each plan is as the request recorded it and current,
\* and its device approval is the recorded one and effective.
DeviceContextCurrent(j) ==
    \A n \in DOMAIN j.devices :
        /\ plans[n] = j.devices[n]
        /\ PlanCurrent(plans[n])
        /\ DeviceApproved(plans[n].review, plans[n].version, plans[n].decision)

\* A slip for the mutation runs: the configuration is not compared.
ReviewMatchesAnywhere(j) ==
    /\ DeviceContextCurrent(j)
    /\ Authority = j.authority
    /\ CurrentIntake # Absent /\ CurrentIntake.rules = j.rules

\* context_matches: devices, configuration, authority and the rules of the
\* package policy; neither the generation nor the store owner.
ReviewContextMatches(j) ==
    /\ DeviceContextCurrent(j)
    /\ site.own = j.config
    /\ Authority = j.authority
    /\ CurrentIntake # Absent /\ CurrentIntake.rules = j.rules

\* create_process_review; trust is kept for the properties.
CreateProcessReview(r, i, ps) ==
    /\ jobs[r] = Absent
    /\ receipts[i] # Absent
    /\ CurrentIntake # Absent
    /\ Authority # Absent
    /\ \A n \in ps : Usable(n)
    /\ jobs' = [jobs EXCEPT ![r] =
            [package |-> receipts[i].package, by |-> receipts[i].by,
             config |-> site.own, rules |-> CurrentIntake.rules, authority |-> Authority,
             devices |-> [n \in ps |-> plans[n]], trust |-> trust]]
    /\ UNCHANGED <<intakeVars, deviceVars, plans, draftVars, authority, versions,
                   decisions>>

\* prepare_review_report
PrepareProcessReport(r, report) ==
    /\ jobs[r] # Absent
    /\ ReviewContextMatches(jobs[r])
    /\ Revision(versions[r]) < MaxVersions
    /\ IssueTicket([kind |-> "report", review |-> r, report |-> report,
              expected |-> Revision(versions[r]), reg |-> CurrentIntake])
    /\ UNCHANGED <<reviewBoot, release, service, generations, trust, site, receipts,
                   turns, deviceVars, plans, draftVars, processVars>>

\* verify_fresh: each device package, verified again in the same store, still
\* yields the candidates that were reviewed.
FreshDevices(j) ==
    \A n \in DOMAIN j.devices :
        LET plan == j.devices[n] IN
        /\ plan.builder = release.builder
        /\ DeviceVerified(deviceJobs[plan.review])
        /\ OpenIssues(plan.host, j.config) = {}
        /\ Candidates(plan.host, j.config, deviceJobs[plan.review].package)
                = plan.candidates

\* check_with_devices by the worker, up to the point where a report is refused.
MaterialVerified(j) ==
    /\ FreshDevices(j)
    /\ Authority = j.authority
    /\ CurrentIntake # Absent /\ CurrentIntake.rules = j.rules

\* The worker reads the report, its signature and the resolved process
\* (Worker::prepare_review).
WorkerReads(t) == MaterialVerified(jobs[t.review]) /\ CurrentIntake.owner = t.reg.owner

\* devices::configuration: the steps of the request, those of the cell with the
\* candidates of its plans in their places.
Candidate(j) == [config |-> j.config, plans |-> DOMAIN j.devices]

\* check_process: the package was compiled from the configuration and the
\* device plans of this request.
Checked(j) == j.package.catalog = Candidate(j)

\* The worker checks the recorded material again
\* (Worker::prepare_review_decision, PreparedDecision::approve).
WorkerApproves(t) ==
    /\ MaterialVerified(jobs[t.review])
    /\ t.version.report \in Passing
    /\ Checked(jobs[t.review])

\* commit_review_report
CommitProcessReport(t) ==
    /\ t.kind = "report"
    /\ Redeem(t)
    /\ ReviewContextMatches(jobs[t.review])
    /\ CurrentIntake = t.reg
    /\ WorkerReads(t)
    /\ Revision(versions[t.review]) = t.expected
    /\ versions' = [versions EXCEPT ![t.review] =
            [revision |-> t.expected + 1, report |-> t.report,
             checker |-> release.process,
             ready |-> t.report \in Passing /\ Checked(jobs[t.review])]]
    /\ UNCHANGED <<reviewBoot, release, service, generations, trust, site, receipts,
                   turns, deviceVars, plans, draftVars, authority, jobs, decisions>>

\* The conditions of an approval, at preparation and again at the commit.
Approvable(j, v, p) ==
    /\ p # j.by
    /\ ReviewContextMatches(j)
    /\ v.checker = release.process
    /\ v.ready

\* prepare_review_decision
PrepareProcessDecision(r, choice, p) ==
    /\ versions[r] # Absent
    /\ choice = "Approve" => Approvable(jobs[r], versions[r], p)
    /\ Revision(decisions[r]) < MaxDecisions
    /\ IssueTicket([kind |-> "decision", review |-> r, choice |-> choice, by |-> p,
              version |-> versions[r], expected |-> Revision(decisions[r]),
              reg |-> CurrentIntake])
    /\ UNCHANGED <<reviewBoot, release, service, generations, trust, site, receipts,
                   turns, deviceVars, plans, draftVars, processVars>>

\* The decision the caller read is still the last one.
DecisionAsSeen(t) == Revision(decisions[t.review]) = t.expected

\* commit_review_decision; under is the context of the commit, for the
\* properties.
CommitProcessDecision(t) ==
    /\ t.kind = "decision"
    /\ Redeem(t)
    /\ versions[t.review] = t.version
    /\ t.choice = "Approve" =>
            /\ Approvable(jobs[t.review], versions[t.review], t.by)
            /\ CurrentIntake = t.reg
            /\ WorkerApproves(t)
    /\ DecisionAsSeen(t)
    /\ decisions' = [decisions EXCEPT ![t.review] =
            [revision |-> t.expected + 1, choice |-> t.choice, version |-> t.version,
             by |-> t.by,
             under |-> <<site.own,
                         IF CurrentIntake = Absent THEN Absent ELSE CurrentIntake.rules,
                         Authority, release.process>>]]
    /\ UNCHANGED <<reviewBoot, release, service, generations, trust, site, receipts,
                   turns, deviceVars, plans, draftVars, authority, jobs, versions>>

\* approval_matches_current_review of process_review_revision, and the test of
\* process_change::review before a change may rest on the review.
Effective(r) ==
    /\ decisions[r] # Absent
    /\ ReviewContextMatches(jobs[r])
    /\ versions[r].checker = release.process
    /\ versions[r].ready
    /\ decisions[r].choice = "Approve"
    /\ decisions[r].version = versions[r]

-----------------------------------------------------------------------------

ReviewInit ==
    /\ InitIntake
    /\ InitDevice
    /\ plans = [n \in Plans |-> Absent]
    /\ InitDraft
    /\ authority = [boot |-> 0, digest |-> Absent]
    /\ jobs = [r \in ProcessReviews |-> Absent]
    /\ versions = [r \in ProcessReviews |-> Absent]
    /\ decisions = [r \in ProcessReviews |-> Absent]

Intake ==
    /\ \/ \E t \in Trusts \union {Absent} : ConfigureIntake(t)
       \/ \E i \in DeviceIntakes, p \in Principals : PrepareIntake(i, i, p)
       \/ \E i \in ProcessIntakes, p \in Principals, c \in compiled : PrepareIntake(i, c, p)
       \/ \E t \in reviewTickets : CommitIntake(t) \/ Drop(t)
       \/ \E r \in Releases : Restart(r)
       \/ \E s \in Sites : ChangeSite(s)
    /\ UNCHANGED <<deviceVars, plans, draftVars, processVars>>

ReviewDevice ==
    /\ \/ \E a \in Authorities \union {Absent} : ConfigureDeviceReview(a)
       \/ \E r \in DeviceReviews, i \in DeviceIntakes : CreateDeviceReview(r, i)
       \/ \E r \in DeviceReviews, v \in Reports : PrepareDeviceReport(r, v)
       \/ \E r \in DeviceReviews, c \in {"Approve", "Reject"}, p \in Principals :
                PrepareDeviceDecision(r, c, p)
       \/ \E t \in reviewTickets : CommitDeviceReport(t) \/ CommitDeviceDecision(t)
    /\ UNCHANGED <<plans, draftVars, processVars>>

Bind ==
    /\ \/ \E n \in Plans, r \in DeviceReviews, h \in DeviceHosts, p \in Principals :
                PreparePlan(n, r, h, p)
       \/ \E n \in Plans, p \in Principals : PreparePlanReview(n, p)
       \/ \E t \in reviewTickets : CommitPlan(t) \/ CommitPlanReview(t)
    /\ UNCHANGED <<draftVars, processVars>>

Author ==
    /\ \/ \E d \in Documents : SaveDraft(d)
       \/ \E ps \in SUBSET Plans : SaveBindings(ps)
       \/ Compile
    /\ UNCHANGED processVars

ReviewProcess ==
    \/ \E a \in Authorities \union {Absent} : ConfigureProcessReview(a)
    \/ \E r \in ProcessReviews, i \in ProcessIntakes, ps \in SUBSET Plans :
            CreateProcessReview(r, i, ps)
    \/ \E r \in ProcessReviews, v \in Reports : PrepareProcessReport(r, v)
    \/ \E r \in ProcessReviews, c \in {"Approve", "Reject"}, p \in Principals :
            PrepareProcessDecision(r, c, p)
    \/ \E t \in reviewTickets : CommitProcessReport(t) \/ CommitProcessDecision(t)

ReviewNext == Intake \/ ReviewDevice \/ Bind \/ Author \/ ReviewProcess

ReviewSpec == ReviewInit /\ [][ReviewNext]_reviewVars

-----------------------------------------------------------------------------

Kinds == {"intake", "device report", "device decision", "plan", "plan review",
          "report", "decision"}

\* The types of the state of the reviews; a review is created before it is
\* reported on and reported on before it is decided (device_review.rs:44-70,
\* process_review.rs:103-192).
ReviewTypeOK ==
    /\ IntakeTypeOK
    /\ \A t \in reviewTickets : t.kind \in Kinds
    /\ \A r \in DeviceReviews :
            /\ deviceVersions[r] # Absent =>
                    /\ deviceJobs[r] # Absent
                    /\ deviceVersions[r].revision \in 1..MaxVersions
            /\ deviceDecisions[r] # Absent =>
                    /\ deviceVersions[r] # Absent
                    /\ deviceDecisions[r].revision \in 1..MaxDecisions
    /\ \A n \in Plans : plans[n] # Absent =>
            plans[n].state = "ImpactReviewed" <=> plans[n].reviewer # Absent
    /\ bindings # Absent => draft # Absent
    /\ \A r \in ProcessReviews :
            /\ versions[r] # Absent =>
                    jobs[r] # Absent /\ versions[r].revision \in 1..MaxVersions
            /\ decisions[r] # Absent =>
                    versions[r] # Absent /\ decisions[r].revision \in 1..MaxDecisions

\* A device review counts only while the trust it was requested under has stood
\* without a break: going to another store or policy, or to none, and back again
\* does not revive it (engine/package_intake.rs:50-67 keeps the generation only of
\* an unchanged registration, device_review.rs:37-43 compares it).
DeviceTrustUnbroken ==
    \A r \in DeviceReviews :
        deviceJobs[r] # Absent /\ DeviceContext(deviceJobs[r]) =>
            deviceJobs[r].trust = trust

\* An approval of a device package in force was given by somebody other than the
\* package's submitter, for the report that is the latest, and under the
\* configuration, registration, authority and checker of this moment, whatever
\* was restarted, reconfigured or reported since (read_detail,
\* device_review.rs:78-136).
DeviceApprovalHolds ==
    \A r \in DeviceReviews : DeviceEffective(r) =>
        /\ deviceDecisions[r].by # deviceJobs[r].by
        /\ deviceDecisions[r].version.report = deviceVersions[r].report
        /\ deviceDecisions[r].version.report \in Passing
        /\ deviceDecisions[r].under
                = <<site.own, CurrentIntake, DeviceAuthority, release.device>>

\* Of two people deciding at once the later one does not silently replace the
\* decision of the other: a decision takes the place of the one before it, which
\* its author saw (commit_device_decision, device_review.rs:384-467,
\* commit_review_decision, process_review.rs:603-697).
DecisionsStand ==
    /\ \A r \in DeviceReviews : deviceDecisions'[r] # deviceDecisions[r] =>
            deviceDecisions'[r].revision = Revision(deviceDecisions[r]) + 1
    /\ \A r \in ProcessReviews : decisions'[r] # decisions[r] =>
            decisions'[r].revision = Revision(decisions[r]) + 1

\* An approval of a process package in force was given by somebody other than the
\* submitter, for the latest report, and under the configuration, policy rules,
\* authority and checker of this moment (process_review_revision,
\* process_review.rs:460-534).
ApprovalHolds ==
    \A r \in ProcessReviews : Effective(r) =>
        /\ decisions[r].by # jobs[r].by
        /\ decisions[r].version.report = versions[r].report
        /\ decisions[r].version.report \in Passing
        /\ decisions[r].under
                = <<site.own, CurrentIntake.rules, Authority, release.process>>

\* Every step of a process whose approval is in force exists: the package was
\* compiled from the steps the cell has now, and each planned device step is on a
\* host of the present configuration, was reviewed for the connected cells as
\* they are by somebody other than its proposer, and comes from a device package
\* whose own approval is in force (device_context_current and check_process).
ApprovedStepsExist ==
    \A r \in ProcessReviews : Effective(r) =>
        /\ jobs[r].package.catalog = Catalog(DOMAIN jobs[r].devices)
        /\ \A n \in DOMAIN jobs[r].devices :
                /\ plans[n].candidates.host \in site.own.hosts
                /\ plans[n].impact = site
                /\ plans[n].reviewer \notin {Absent, plans[n].by}
                /\ DeviceEffective(plans[n].review)

\* A compile input never joins the document of one save of a draft with the
\* bindings chosen for another document (draft_compile_input,
\* draft_bindings.rs:363-440).
CompiledAsBound == \A c \in compiled : c.document = c.boundFor

\* Whatever the order of reports, decisions, reconfigurations, restarts and
\* applied changes, an approval in force is one that somebody gave for what it is
\* applied to now (all of the above).
ReviewsHold ==
    /\ ReviewTypeOK
    /\ DeviceTrustUnbroken /\ DeviceApprovalHolds
    /\ ApprovalHolds /\ ApprovedStepsExist /\ CompiledAsBound

\* Approvals hold after every step, and none is lost to a decision its author
\* did not see.
ReviewsAreSound == ReviewsHold /\ [][ReviewsHold' /\ DecisionsStand]_reviewVars
=============================================================================
