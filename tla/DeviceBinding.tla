---------------------------- MODULE DeviceBinding ----------------------------
(***************************************************************************)
(* Plans that bind the actions of an approved device package to the cell   *)
(* (engine/device_binding.rs): an engineer proposes one, the worker builds *)
(* the candidate steps from the verified package, another person reviews   *)
(* the impact.  A plan chooses a host for its actions; a host the cell     *)
(* does not have leaves an issue open, as the other unresolved conditions  *)
(* of build_candidates do.                                                 *)
(***************************************************************************)
EXTENDS DeviceReview

CONSTANTS Plans, DeviceHosts

VARIABLES plans

\* build_candidates: a function of the proposal, the configuration it is made
\* for and the package.
Candidates(host, config, package) ==
    [host |-> host, base |-> config, package |-> package]

OpenIssues(host, config) ==
    IF host \in config.hosts THEN {} ELSE {"HOST_REGISTRATION_REQUIRED"}

\* device_binding::approved: the review is effective through the very version
\* and decision that the plan names.
DeviceApproved(r, version, decision) ==
    /\ DeviceEffective(r)
    /\ deviceVersions[r] = version
    /\ deviceDecisions[r] = decision

\* device_binding::current: same builder, same configuration, same impact on
\* the connected cells.
PlanCurrent(plan) ==
    /\ plan.builder = release.builder
    /\ plan.base = site.own
    /\ plan.impact = site

\* prepare_device_binding: d is the decision the proposer saw.
PreparePlan(n, r, host, p) ==
    /\ plans[n] = Absent
    /\ deviceDecisions[r] # Absent
    /\ DeviceApproved(r, deviceVersions[r], deviceDecisions[r])
    /\ IssueTicket([kind |-> "plan", plan |-> n, review |-> r, host |-> host, by |-> p,
              before |-> site.own, version |-> deviceVersions[r],
              decision |-> deviceDecisions[r], reg |-> deviceJobs[r].reg])
    /\ UNCHANGED <<reviewBoot, release, service, generations, trust, site, receipts,
                   turns, deviceVars, plans>>

\* The worker verifies the device package again and builds the candidates
\* (Worker::prepare_device_binding, Prepared::new).
WorkerBuilds(t) ==
    DeviceVerified(deviceJobs[t.review]) /\ t.version.report \in Passing

\* verify_prepared: the registration, the configuration and the approval that
\* the ticket carries still hold.
PlanVerified(t) ==
    /\ CurrentIntake = t.reg
    /\ WorkerBuilds(t)
    /\ site.own = t.before
    /\ DeviceApproved(t.review, t.version, t.decision)

\* commit_device_binding
CommitPlan(t) ==
    /\ t.kind = "plan"
    /\ Redeem(t)
    /\ PlanVerified(t)
    /\ plans[t.plan] = Absent
    /\ plans' = [plans EXCEPT ![t.plan] =
            [state |-> "Proposed", review |-> t.review, version |-> t.version,
             decision |-> t.decision, host |-> t.host, base |-> t.before,
             candidates |-> Candidates(t.host, t.before, deviceJobs[t.review].package),
             issues |-> OpenIssues(t.host, t.before), builder |-> release.builder,
             impact |-> site, by |-> t.by, reviewer |-> Absent]]
    /\ UNCHANGED <<reviewBoot, release, service, generations, trust, site, receipts,
                   turns, deviceVars>>

\* What a reviewer may answer for: a proposal of somebody else that is current.
Reviewable(plan, p) ==
    /\ plan.state = "Proposed"
    /\ plan.by # p
    /\ PlanCurrent(plan)

\* prepare_device_binding_review
PreparePlanReview(n, p) ==
    /\ plans[n] # Absent
    /\ Reviewable(plans[n], p)
    /\ DeviceApproved(plans[n].review, plans[n].version, plans[n].decision)
    /\ IssueTicket([kind |-> "plan review", plan |-> n, review |-> plans[n].review,
              by |-> p, before |-> plans[n].base, version |-> plans[n].version,
              decision |-> plans[n].decision, reg |-> deviceJobs[plans[n].review].reg])
    /\ UNCHANGED <<reviewBoot, release, service, generations, trust, site, receipts,
                   turns, deviceVars, plans>>

\* The plan with its impact reviewed by p.
Reviewed(plan, p) == [plan EXCEPT !.state = "ImpactReviewed", !.reviewer = p]

\* commit_device_binding_review: the candidates are built again and compared.
CommitPlanReview(t) ==
    /\ t.kind = "plan review"
    /\ Redeem(t)
    /\ Reviewable(plans[t.plan], t.by)
    /\ PlanVerified(t)
    /\ Candidates(plans[t.plan].host, t.before, deviceJobs[t.review].package)
            = plans[t.plan].candidates
    /\ plans' = [plans EXCEPT ![t.plan] = Reviewed(@, t.by)]
    /\ UNCHANGED <<reviewBoot, release, service, generations, trust, site, receipts,
                   turns, deviceVars>>

\* A plan that drafts and process reviews may build upon (selected_catalog).
Usable(n) ==
    /\ plans[n] # Absent
    /\ plans[n].state = "ImpactReviewed"
    /\ plans[n].issues = {}
    /\ PlanCurrent(plans[n])
    /\ DeviceApproved(plans[n].review, plans[n].version, plans[n].decision)

-----------------------------------------------------------------------------

\* Process drafts and their bindings (engine/process_draft.rs,
\* engine/draft_bindings.rs): a document under revision control, the choice of a
\* cell step or a planned device step for each of its actions, and the compile
\* input handed to the authoring tools, which build and sign a process package
\* from it.

CONSTANTS Documents, MaxSaves   \* bound: saves of the draft and of its bindings

ASSUME DraftAssumption == Absent \notin [revision : Nat, document : Documents]

VARIABLES draft, bindings, compiled

draftVars == <<draft, bindings, compiled>>

\* The catalogue of steps to choose from: the cell's own and those of plans.
Catalog(ps) == [config |-> site.own, plans |-> ps]

\* save_process_draft: on top of the revision the author has.
SaveDraft(document) ==
    /\ Revision(draft) < MaxSaves
    /\ draft' = [revision |-> Revision(draft) + 1, document |-> document]
    /\ UNCHANGED <<intakeVars, deviceVars, plans, bindings, compiled>>

\* save_draft_bindings: for the draft as it is, from plans that are usable now.
SaveBindings(ps) ==
    /\ draft # Absent
    /\ Revision(bindings) < MaxSaves
    /\ \A n \in ps : Usable(n)
    /\ bindings' = [revision |-> Revision(bindings) + 1, document |-> draft.document,
                    catalog |-> Catalog(ps)]
    /\ UNCHANGED <<intakeVars, deviceVars, plans, draft, compiled>>

\* The bindings are of this document and of the catalogue as it is now.
BindingsFit ==
    /\ bindings.document = draft.document
    /\ bindings.catalog = Catalog(bindings.catalog.plans)

\* draft_compile_input; boundFor is kept for the properties.
Compile ==
    /\ draft # Absent
    /\ bindings # Absent
    /\ \A n \in bindings.catalog.plans : Usable(n)
    /\ BindingsFit
    /\ compiled' = compiled \union
            {[document |-> draft.document, catalog |-> bindings.catalog,
              boundFor |-> bindings.document]}
    /\ UNCHANGED <<intakeVars, deviceVars, plans, draft, bindings>>

InitDraft == draft = Absent /\ bindings = Absent /\ compiled = {}

=============================================================================
