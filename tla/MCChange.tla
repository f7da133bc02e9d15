------------------------------ MODULE MCChange ------------------------------
(* A process on its way to the equipment, in two parts that share no state;    *)
(* the initial state chooses one, and only that one moves.                     *)
(*                                                                             *)
(* Changing: a revalidation c1, a replacement c2, one run, two hosts.          *)
(* Reviewing: a device package, a plan that binds it, a draft, a process       *)
(* package; two people, two policies, two releases, three sites.               *)
EXTENDS ConfigurationDispatch, ProcessReview, TLC

CONSTANTS c1, c2, A, B, di, pi, d, p, n, rules1, rules2, doc1, doc2, ann, bob

VARIABLE part       \* "changing" or "reviewing"

RevalidateFirst == [c \in Changes |-> IF c = c1 THEN "revalidate" ELSE "replace"]
TargetB == [c \in Changes |-> B]

People == {ann, bob}
TwoPolicies == {[owner |-> "store", rules |-> x] : x \in {rules1, rules2}}
ThreeSites ==
    {[own |-> [version |-> 1, hosts |-> {"h"}], connected |-> 1],
     [own |-> [version |-> 1, hosts |-> {"h"}], connected |-> 2],
     [own |-> [version |-> 2, hosts |-> {}], connected |-> 1]}
TwoReleases == {[device |-> k, process |-> k, builder |-> k] : k \in 1..2}

Alike == Permutations(Hosts) \cup Permutations(People)

-----------------------------------------------------------------------------
(* Bounds of the changes. *)

Replacing ==
    /\ change[c1] = None /\ c1 \in approved
    /\ \A t \in tickets : t.change = c2
    /\ Cardinality(tickets) <= 1

Attempted(c) ==
    IF change[c] = None THEN 0
    ELSE IF change[c].prep = None THEN 0 ELSE change[c].prep.attempt

\* Nothing host h is told or answers is lost, expired or refused.
Smooth(h) ==
    /\ host[h].gen = 1 /\ host[h].cells = "as_named"
    /\ \A e \in fences[h] : e >= host[h].epoch
    /\ \A k \in Tasks : HostOf(k) = h /\ task[k] # None =>
        /\ task[k].issue = None
        /\ task[k].phase = "send_entered" => k \in wire
        /\ task[k].seen # None => <<k, task[k].seen>> \in reads
        /\ receipt[k] # None => receipt[k].status = "applied"

\* Host g was told and asked before h.
Before(g, h) ==
    \A k \in Tasks :
        /\ HostOf(k) = h /\ task[k] # None
        /\ task[k].phase # "awaiting" \/ task[k].issue # None \/ worker[h].at # "idle"
        => worker[g].at = "idle" /\ task[<<ChangeOf(k), AttemptOf(k), g>>].seen # None

\* The host reports the cells the tasks name, and has not reported others.
CellsAsNamed(h) ==
    /\ host[h].cells = "as_named"
    /\ worker[h].seen # None => worker[h].seen.cells = "as_named"
    /\ \A k \in Tasks : HostOf(k) = h /\ task[k] # None /\ task[k].seen # None =>
        task[k].seen.cells = "as_named"

\* One attempt at a replacement, with a run and two hosts side by side, one of
\* which may fail.
OneAttempt ==
    /\ Replacing
    /\ boot = 1 /\ group.epoch <= 3
    /\ \A h \in Hosts : host[h].gen = 1 /\ CellsAsNamed(h)
    /\ \E h \in Hosts : \A g \in Hosts \ {h} : Smooth(g)
    /\ Attempted(c2) <= 1
    /\ change[c2] # None => change[c2].rev <= 6

\* Two attempts, with a restart of the runtime or of the host told last.
TwoAttempts ==
    /\ Replacing /\ c2 \in approved
    /\ \A r \in Runs : run[r] = None
    /\ group.epoch <= 4
    /\ \E h \in Hosts :
        /\ boot + host[h].gen <= 3 /\ CellsAsNamed(h)
        /\ \A g \in Hosts \ {h} : Smooth(g) /\ Before(g, h)

\* One attempt, with one host whose cells change along the way.
CellsMove ==
    /\ Replacing /\ c2 \in approved
    /\ \A r \in Runs : run[r] = None
    /\ boot = 1 /\ group.epoch <= 3
    /\ \A h \in Hosts : host[h].gen = 1
    /\ \E h \in Hosts : \A g \in Hosts \ {h} : Smooth(g) /\ Before(g, h)
    /\ Attempted(c2) <= 1
    /\ change[c2] # None => change[c2].rev <= 6

\* A revalidation and a replacement, one after or beside the other.
TwoChanges ==
    /\ approved = Changes /\ Cardinality(tickets) <= 1
    /\ \A r \in Runs : run[r] = None
    /\ boot = 1
    /\ \A h \in Hosts : Smooth(h)
    /\ \A g, h \in Hosts : worker[g].at # "idle" /\ worker[h].at # "idle" => g = h
    /\ \A c \in Changes : Attempted(c) <= 1 /\ (change[c] # None => change[c].rev <= 6)

-----------------------------------------------------------------------------
(* Bounds of the reviews. *)

OneTicket == Cardinality(reviewTickets) <= 1

(* The two people's decisions on the first report are the only tickets that    *)
(* are out together.                                                           *)
Together(kind, version, decision) ==
    OneTicket \/ /\ \A t \in reviewTickets : t.kind = kind
                 /\ version.revision = 1 /\ decision = Absent

(* The registration is made once, and perhaps withdrawn.                       *)
OnePolicy == trust <= 1 /\ (trust = 1 => service.reg # Absent /\ service.reg.rules = rules1)

NoProcess ==
    /\ receipts[pi] = Absent /\ authority.boot = 0
    /\ \A t \in reviewTickets : t.kind = "intake" => t.intake = di

NoPlan == plans[n] = Absent /\ draft = Absent /\ \A t \in reviewTickets : t.kind # "plan"

NoDevice ==
    /\ receipts[di] = Absent /\ deviceAuthority.boot = 0
    /\ \A t \in reviewTickets : t.kind = "intake" => t.intake = pi

OneDraft ==
    /\ draft # Absent => draft.revision = 1 /\ draft.document = doc1
    /\ bindings # Absent => bindings.revision = 1

(* Of either kind of package alone, with one change of the surroundings.       *)
OnePackage ==
    /\ OnePolicy /\ turns <= 1 /\ site.connected = 1
    /\ \/ NoProcess /\ NoPlan /\ Together("device decision", deviceVersions[d], deviceDecisions[d])
       \/ NoDevice /\ OneDraft /\ Together("decision", versions[p], decisions[p])

(* Policies that come and go around a device review.                           *)
Policies ==
    /\ NoProcess /\ NoPlan /\ OneTicket
    /\ release.device = 1 /\ site.own.version = 1 /\ site.connected = 1
    /\ deviceVersions[d] # Absent => deviceVersions[d].revision = 1
    /\ deviceDecisions[d] = Absent

(* From the device package to the process: every report is good, the device is *)
(* approved once, and one thing changes underneath.                            *)
Favourable ==
    /\ OnePolicy /\ turns <= 1 /\ release.device = 1 /\ OneTicket
    /\ deviceVersions[d] # Absent => deviceVersions[d].revision = 1 /\ deviceVersions[d].ready
    /\ deviceDecisions[d] # Absent =>
            deviceDecisions[d].revision = 1 /\ deviceDecisions[d].choice = "Approve"
    /\ \A t \in reviewTickets :
            /\ t.kind \in {"device report", "report"} => t.report = "good"
            /\ t.kind = "device decision" => t.choice = "Approve"

Drafting == Favourable /\ NoProcess /\ (plans[n] # Absent => plans[n].host = "h")

Whole ==
    /\ Favourable /\ OneDraft
    /\ versions[p] # Absent => versions[p].revision = 1
    /\ decisions[p] # Absent => decisions[p].revision = 1
    /\ turns = 1 => jobs[p] # Absent \/ NoProcess

-----------------------------------------------------------------------------
PartsInit ==
    /\ Init /\ ReviewInit
    /\ \/ part = "changing" /\ release.device = 1 /\ site.own.version = 1 /\ site.connected = 1
       \/ part = "reviewing" /\ \A r \in Runs : run[r] = None

InChanging  == part = "changing"  /\ UNCHANGED <<reviewVars, part>>
InReviewing == part = "reviewing" /\ UNCHANGED <<vars, part>>

PartsNext ==
    \/ InChanging /\ Next /\ (OneAttempt \/ TwoAttempts \/ CellsMove \/ TwoChanges)'
    \/ InReviewing /\ ReviewNext /\ (OnePackage \/ Policies \/ Drafting \/ Whole)'

PartsSpec == PartsInit /\ [][PartsNext]_<<vars, reviewVars, part>>
=============================================================================
