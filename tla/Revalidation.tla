---------------------------- MODULE Revalidation ----------------------------
(***************************************************************************)
(* Evidence rounds of an open controller (apply_locked() in                *)
(* src/control/controller.cpp) over the whole composer, and the report     *)
(* each makes on itself: from the dependencies its decisions declared, the *)
(* index of the previous round plans which decisions the new evidence can  *)
(* change, and the report lists those that changed although the plan does  *)
(* not name them (src/engine/dependency.cpp).  Operator overrides,         *)
(* restarts, failing commits and the expiry of tokens are PodController's. *)
(***************************************************************************)
EXTENDS Verdicts, Functions, SequencesExt

CONSTANTS
    Snapshots(_),          \* the evidence that may follow a given snapshot
    FirstSnapshots,        \* the evidence a new pod may be given
    MaxRounds,             \* bound of the model: evidence rounds
    MaxGrants              \* bound of the model: tokens granted

ASSUME RevalidationAssumption == MaxRounds \in Nat /\ MaxGrants \in Nat

VARIABLES
    evidence,              \* last_evidence_, <<>> before the first round
    expected,              \* expectations_
    epoch,
    pod,                   \* state_: the verdicts of the last round
    index,                 \* index_: the decisions it published
    contextLifecycle,      \* context_lifecycle_: what the last round started from
    tokens, revoked,       \* tokens_ and revoked_, by lease; tokens with their epoch
    rounds, grants         \* how many there were
vars == <<evidence, expected, epoch, pod, index, contextLifecycle, tokens, revoked, rounds,
          grants>>

\* lifecycle_
Lifecycle == IF pod = <<>> THEN "constructing" ELSE pod.lifecycle

-----------------------------------------------------------------------------
\* compose(): the verdicts of one round.  tokens is the set of [lease, epoch].
Compose(s, context) ==
    LET m            == Members(s, context.expected)
        at           == ComposedEpoch(context.epoch, [reports |-> Sightings(s)], context.expected)
        domains      == Domains(s, m)
        capacity     == Capacity(s, m)
        connectivity == Connectivity(s, m, domains)
        obligations  == [o \in DOMAIN s.obligations |->
                            ObligationVerdict(s, m, domains, capacity, connectivity,
                                              s.obligations[o])]
        desired      == DesiredLifecycle(s, m, domains, capacity, connectivity, obligations,
                                         at # context.epoch)
        lifecycle    == next_lifecycle(context.lifecycle, desired)
        valid        == {t \in context.tokens : t.epoch = at /\ t.lease \notin context.revoked}
    IN  [members |-> m, domains |-> domains, capacity |-> capacity,
         connectivity |-> connectivity, obligations |-> obligations,
         epoch |-> at, desired |-> desired, lifecycle |-> lifecycle, valid |-> valid,
         authority |-> AuthorityStatus(s, m, domains, capacity, obligations, lifecycle,
                                       valid # {})]

-----------------------------------------------------------------------------
\* emit_decisions(): every decision with its outcome code, the keys it depends on
\* and its reasons, which together make its fingerprint.  Identities, of decisions
\* and of keys, are a kind and what it is about.
Decision(status, deps, reasons) == [status |-> status, deps |-> deps, reasons |-> reasons]
MemberKeys(racks) == {<<"member", r>> : r \in racks}
OnDecision(ids)   == {<<"decision", id>> : id \in ids}
Alone(id, decision) == [x \in {id} |-> decision]
Beside(f, g) == [x \in DOMAIN f \cup DOMAIN g |-> IF x \in DOMAIN f THEN f[x] ELSE g[x]]

\* Why a rack is what it is.  The reasons of the other verdicts are their own,
\* except that capacity gives its status here, and authority its invalid tokens.
MemberReasons(s, known, m, r) ==
    LET x == s.members[r]
    IN  When(\E d \in DeclaredBy(s, r) : OverlapsAt(s, r, d), <<"overlap">>)
        \cup IF m.status[r] = "established" THEN {<<"health", x.health>>, <<"admin", x.admin>>}
             ELSE IF m.status[r] = "stale" /\ Fresh(x.observed, s.at)
             THEN {<<"regression", x.generation, known[r].generation>>}
             ELSE {<<m.status[r], x.count, x.membership>>}

PairCode == [usable |-> "ok", degraded |-> "stale", blocked |-> "unavailable", stale |-> "stale",
             conflicting |-> "conflicting", indeterminate |-> "indeterminate",
             unsupported |-> "unsupported"]
ObligationOutcome == [satisfied |-> "ok", atrisk |-> "stale", violated |-> "refused",
                      indeterminate |-> "indeterminate", unsupported |-> "unsupported"]
LifecycleCode == [active |-> "ok", constructing |-> "incomplete", degraded |-> "stale",
                  partitioned |-> "unavailable", recovering |-> "indeterminate",
                  maintenance |-> "stale", draining |-> "stale", retired |-> "refused"]

MemberDecisions(s, p, known) ==
    [id \in {<<"member", r>> : r \in Composed(p.members)} |->
        Decision(member_code(p.members.status[id[2]]), MemberKeys({id[2]}),
                 MemberReasons(s, known, p.members, id[2]))]
DomainDecisions(s, p) ==
    [id \in {<<"domain", d>> : d \in DOMAIN p.domains} |->
        Decision(domain_code(p.domains[id[2]].status), {id} \cup MemberKeys(Listed(s, id[2])),
                 p.domains[id[2]].reasons)]
CapacityDecisions(p) ==
    [id \in {<<"capacity", x>> : x \in DOMAIN p.capacity} |->
        LET account == p.capacity[id[2]]
        IN  Decision(capacity_code(account.status), MemberKeys(account.owners), {account.status})]
DomainCapacityDecisions(p) ==
    [id \in UNION {{<<"domain capacity", x, d>> : d \in DOMAIN p.capacity[x].scoped} :
                       x \in DOMAIN p.capacity} |->
        LET share == p.capacity[id[2]].scoped[id[3]]
        IN  Decision(capacity_code(share.status), {<<"domain", id[3]>>} \cup MemberKeys(share.owners),
                     {share.status})]
\* Mutant: a pair does not say which links it was decided on.
PairDecisionsWithoutLinks(s, p) ==
    [id \in {<<"pair", pair>> : pair \in DOMAIN p.connectivity} |->
        Decision(PairCode[p.connectivity[id[2]].status],
                 MemberKeys(id[2]) \cup {<<"route", q>> : q \in PairRoutes(s, id[2])},
                 p.connectivity[id[2]].reasons)]
PairDecisions(s, p) ==
    [id \in {<<"pair", pair>> : pair \in DOMAIN p.connectivity} |->
        Decision(PairCode[p.connectivity[id[2]].status],
                 MemberKeys(id[2]) \cup {<<"link", l>> : l \in PairLinks(s, id[2])}
                     \cup {<<"route", q>> : q \in PairRoutes(s, id[2])},
                 p.connectivity[id[2]].reasons)]
ObligationDecisions(s, p) ==
    [id \in {<<"obligation", o>> : o \in DOMAIN p.obligations} |->
        LET asked == s.obligations[id[2]]
        IN  Decision(ObligationOutcome[p.obligations[id[2]].status],
                     {id} \cup MemberKeys(asked.racks)
                     \cup OnDecision({<<"capacity", x>> : x \in DOMAIN asked.floors})
                     \cup OnDecision({<<"pair", pair>> : pair \in Pairs \cap SUBSET asked.racks}),
                     p.obligations[id[2]].reasons)]

Decisions(s, context, p) ==
    LET racks     == Beside(MemberDecisions(s, p, context.expected), DomainDecisions(s, p))
        claims    == Beside(CapacityDecisions(p), DomainCapacityDecisions(p))
        paths     == Beside(PairDecisions(s, p), ObligationDecisions(s, p))
        evidenced == Beside(Beside(racks, claims), paths)
        several   == Cardinality(p.members.established) >= 2
        lifecycle == Decision(LifecycleCode[p.lifecycle],
                              OnDecision(DOMAIN evidenced)
                              \cup {<<"epoch", p.epoch>>, <<"lifecycle", context.lifecycle>>},
                              When(p.epoch # context.epoch, "epoch advanced")
                              \cup When(several /\ p.connectivity = <<>>, "no connectivity evidence")
                              \cup When(p.lifecycle # p.desired, "not legal"))
        leases    == {t.lease : t \in context.tokens} \cup context.revoked
        authority == Decision(p.authority,
                              OnDecision({<<"lifecycle">>}) \cup {<<"epoch", p.epoch>>}
                              \cup MemberKeys(Composed(p.members))
                              \cup {<<"token", lease>> : lease \in leases},
                              {t.lease : t \in context.tokens \ p.valid})
    IN  Beside(evidenced, Beside(Alone(<<"lifecycle">>, lifecycle), Alone(<<"authority">>, authority)))

-----------------------------------------------------------------------------
\* membership_change_keys(), snapshot_change_keys() and token_change_keys(): what
\* the round knows to have moved.  A second record of a rack is not told from one.
Moved(kind, before, after) ==
    {<<kind, x>> : x \in {y \in DOMAIN before \cup DOMAIN after :
                            ~(/\ y \in DOMAIN before /\ y \in DOMAIN after
                              /\ before[y] = after[y])}}
Record(x) == IF x.count = 0 THEN <<>> ELSE <<[x EXCEPT !.count = 1]>>
ChangedKeys(s, derived, composed) ==
    {<<"member", r>> : r \in {x \in Racks : expected[x] # derived[x]}}
    \cup (IF evidence = <<>> THEN {} ELSE
             {<<"member", r>> : r \in {x \in Racks :
                                         Record(evidence.members[x]) # Record(s.members[x])}}
             \cup Moved("link", evidence.links, s.links)
             \cup Moved("route", evidence.routes, s.routes)
             \cup Moved("domain", evidence.domains, s.domains)
             \cup Moved("obligation", evidence.obligations, s.obligations))
    \cup {<<"token", t.lease>> : t \in tokens \ composed.valid}
    \cup When(composed.epoch # epoch, <<"epoch", epoch>>)
    \cup When(contextLifecycle # Lifecycle, <<"lifecycle", contextLifecycle>>)

\* DecisionIndex::plan(): the decisions that depend on a changed key, and those
\* that depend on a planned decision, along edges of any length.
DependentsOf(published, keys) == {id \in DOMAIN published : published[id].deps \cap keys # {}}
\* Mutant: decisions that depend on a planned decision are not followed.
DirectOnly(published, keys) == DependentsOf(published, keys)
Plan(published, keys) ==
    LET closure[planned \in SUBSET DOMAIN published] ==
            LET wider == planned \cup DependentsOf(published, OnDecision(planned))
            IN  IF wider = planned THEN planned ELSE closure[wider]
    IN  closure[DependentsOf(published, keys)]

\* revalidate(): the plan, and what changed, came or went without being in it.
\* Nothing published before, the plan is every decision.
revalidate(published, decisions, keys) ==
    LET plan == IF published = <<>> THEN DOMAIN decisions ELSE Plan(published, keys)
        both == DOMAIN published \cap DOMAIN decisions
    IN  [plan    |-> plan,
         changed |-> {id \in both : published[id] # decisions[id]} \ plan,
         added   |-> (DOMAIN decisions \ DOMAIN published) \ plan,
         removed |-> (DOMAIN published \ DOMAIN decisions) \ plan]

-----------------------------------------------------------------------------
\* The report is made of the step from one round to the next.
RevalidationReport == revalidate(index, index', ChangedKeys(evidence', expected', pod'))

Init == /\ evidence = <<>> /\ expected = [r \in Racks |-> NoExpectation]
        /\ epoch = 0 /\ pod = <<>> /\ index = <<>> /\ contextLifecycle = "constructing"
        /\ tokens = {} /\ revoked = {} /\ rounds = 0 /\ grants = 0

Context == [epoch |-> epoch, lifecycle |-> Lifecycle, expected |-> expected,
            tokens |-> tokens, revoked |-> revoked]

\* apply(): what compose() refuses leaves everything as it is.
Apply(s) ==
    /\ rounds < MaxRounds /\ rounds' = rounds + 1
    /\ ValidSnapshot(s)
    /\ evidence' = s /\ contextLifecycle' = Lifecycle
    /\ expected' = derive_expectations([reports |-> Sightings(s)], expected)
    /\ \E composed \in {Compose(s, Context)} :
          /\ pod' = composed /\ epoch' = composed.epoch /\ tokens' = composed.valid
          /\ index' = Decisions(s, Context, composed)
    /\ UNCHANGED <<revoked, grants>>

\* mint_authority() and revoke_authority(), between rounds.
Mint == /\ grants < MaxGrants /\ grants' = grants + 1
        /\ tokens' = tokens \cup {[lease |-> grants', epoch |-> epoch]}
        /\ UNCHANGED <<evidence, expected, epoch, pod, index, contextLifecycle, revoked, rounds>>
Revoke(t) == /\ tokens' = tokens \ {t} /\ revoked' = revoked \cup {t.lease}
             /\ UNCHANGED <<evidence, expected, epoch, pod, index, contextLifecycle, rounds,
                            grants>>

Next == \/ \E s \in IF evidence = <<>> THEN FirstSnapshots ELSE Snapshots(evidence) : Apply(s)
        \/ Mint
        \/ \E t \in tokens : Revoke(t)
Spec == Init /\ [][Next]_vars

-----------------------------------------------------------------------------
DecisionIds == DOMAIN index

\* How a snapshot is written down: a record, what the racks report of the types of
\* their fields, its domains of racks the pod may know, its routes listed in some
\* order, each once or more, what it carries counted, and finitely many of each.
ClaimRecords == [resource : Nat, key : Nat, domain : Nat, amount : Nat, reserved : Nat]
ReportTyped(x) ==
    /\ x.count \in 0 .. 2
    /\ x.count > 0 => /\ x.generation \in 0 .. MaxGeneration /\ x.digest \in Digests
                      /\ x.admin \in AdminStates
                      /\ x.claims \subseteq ClaimRecords /\ IsFiniteSet(x.claims)
Carried(s)         == Range(s.links) \cup Range(s.routes)
ResourceClasses(s) == {x.resource : x \in Carried(s)}
Representable(s) ==
    /\ s = [at |-> s.at, members |-> s.members, domains |-> s.domains, links |-> s.links,
            routes |-> s.routes, order |-> s.order, obligations |-> s.obligations]
    /\ s.order \in Seq(DOMAIN s.routes) /\ DOMAIN s.routes \subseteq Range(s.order)
    /\ \A x \in Carried(s) : x.capacity \in Nat
    /\ IsFiniteSet(ResourceClasses(s))
    /\ \A r \in Racks : ReportTyped(s.members[r])
    /\ DOMAIN s.domains \subseteq Nat /\ IsFiniteSet(DOMAIN s.domains)
    /\ \A d \in DOMAIN s.domains : s.domains[d].members \subseteq Racks
    /\ \A o \in DOMAIN s.obligations :
          s.obligations[o].kind \in ObligationKinds /\ s.obligations[o].domains \in Nat

\* The records are what the code's types allow, and the index is what the last
\* round decided.
TypeOK ==
    /\ expected \in [Racks -> Expectations]
    /\ epoch \in 0 .. rounds /\ rounds \in 0 .. MaxRounds /\ grants \in 0 .. MaxGrants
    /\ Lifecycle \in LifecycleStates /\ contextLifecycle \in LifecycleStates
    /\ tokens \subseteq [lease : 1 .. grants, epoch : 0 .. epoch]
    /\ revoked \subseteq 1 .. grants
    /\ (evidence = <<>>) = (rounds = 0) /\ (pod = <<>>) = (rounds = 0) /\ (index = <<>>) = (rounds = 0)
    /\ \A id \in DecisionIds : index[id].status \in DOMAIN CodeSeverity
    /\ evidence # <<>> => Representable(evidence)

\* What Composition makes of this evidence: a link's or a route's own evidence is
\* in order, or not, whatever is said of its ends.
LinkSound(s, verdicts, link) ==
    /\ link.admin = "enabled" /\ link.oper \notin {"down", "unknown"} /\ Fresh(link.observed, s.at)
    /\ \A i \in 1 .. 2 : link.generations[i] = s.members[link.ends[i]].generation
    /\ link.route = 0 \/ (link.route \in DOMAIN s.routes /\ RouteSettled(s, link.route))
    /\ link.domain \in DOMAIN s.domains => verdicts[link.domain].status # "conflicting"
RouteSound(s, route) ==
    /\ route.state = "installed" /\ Fresh(route.observed, s.at)
    /\ \A i \in DOMAIN route.path : route.generations[i] = s.members[route.path[i]].generation
Summary(s, p) ==
    [reports  |-> Sightings(s),
     up       |-> {LinkPair(l) : l \in {x \in Range(s.links) : LinkSound(s, p.domains, x)}},
     down     |-> {LinkPair(l) : l \in {x \in Range(s.links) : ~LinkSound(s, p.domains, x)}},
     routes   |-> {[path |-> q.path, works |-> RouteSound(s, q)] : q \in Range(s.routes)},
     impaired |-> \/ \E d \in DOMAIN p.domains : p.domains[d].status # "ok"
                  \/ \E x \in DOMAIN p.capacity : ~capacity_is_usable(p.capacity[x].status)
                  \/ \E o \in DOMAIN p.obligations : p.obligations[o].status # "satisfied"
                  \/ \E l \in Range(s.links) :
                        \/ l.oper = "degraded"
                        \/ /\ l.domain \in DOMAIN s.domains
                           /\ p.domains[l.domain].status # "ok"]

\* The lifecycle of a round is the one Composition derives from a summary of the
\* same evidence and the record of members the round started from: classifying
\* every link and route, and adding them up per pair, leaves nothing else behind.
LifecycleAgrees ==
    [][rounds' # rounds
          /\ Cardinality(ResourceClasses(evidence')) =< 1
       => /\ pod'.lifecycle = ComposedLifecycle(Lifecycle, Summary(evidence', pod'), expected,
                                                FALSE, FALSE)
          /\ pod'.epoch = ComposedEpoch(epoch, Summary(evidence', pod'), expected)]_vars

\* The claims that may be counted, by what is known of their racks, and what they
\* come to when every physical budget counts once, at the smallest amount offered.
Serving(r) == /\ pod.members.status[r] = "established"
              /\ evidence.members[r].health \in {"ok", "impaired"}
              /\ evidence.members[r].admin # "disabled"
ClaimsOn(x) == {c \in Claims(evidence) : c.resource = x}
Counted(x) ==
    {c \in ClaimsOn(x) : Serving(c.owner) /\ c.domain \in evidence.members[c.owner].domains}
EachBudgetOnce(claims) ==
    LET Offered(key) == Min({c.amount : c \in {y \in claims : y.key = key}})
    IN  MapThenSumSet(Offered, {c.key : c \in claims})
CountedOnce(x) == EachBudgetOnce(Counted(x))
Resources == IF pod = <<>> THEN {} ELSE DOMAIN pod.capacity

\* ledger.cpp: "so the sum over domains equals the pod total".
SumOverDomains(account, field) ==
    MapThenSumSet(LAMBDA d : account.scoped[d][field], DOMAIN account.scoped)

\* README, guarantee 4: "Two owners reporting the same physical budget are counted
\* once; disagreeing magnitudes become CONFLICTING and take the smaller value."  An
\* account a caller may rely on neither lost a sum to overflow nor left a claim out,
\* and a budget that two racks report in different domains counts in one of them.
CapacityIsCountedOnce ==
    \A x \in Resources :
        LET account == pod.capacity[x]
            fits    == CountedOnce(x) =< CounterLimit
        IN  /\ fits => /\ account.total = CountedOnce(x)
                       /\ account.total = SumOverDomains(account, "total")
                       /\ account.reserved = SumOverDomains(account, "reserved")
            /\ account.total =< CountedOnce(x)
            /\ capacity_is_usable(account.status) =>
                   /\ fits /\ \A c \in ClaimsOn(x) : Serving(c.owner)
                   /\ \A c, d \in Counted(x) : c.key = d.key => c.amount = d.amount
                   /\ account.reserved + account.headroom = account.total

\* A rack whose report is behind the generation on record, and what it must not do.
Superseded(r) == /\ rounds' # rounds /\ evidence'.members[r].count > 0
                 /\ evidence'.members[r].generation < expected[r].generation
CarriesNothing(r) == /\ r \notin pod'.members.established
                     /\ \A pair \in DOMAIN pod'.connectivity :
                           r \in pair => pod'.connectivity[pair].capacity = 0
CountsForNothing(r) ==
    /\ \A x \in DOMAIN pod'.capacity, d \in AllDomains(evidence') :
          d \in DOMAIN pod'.capacity[x].scoped => r \notin pod'.capacity[x].scoped[d].owners
    /\ CodeSeverity[pod'.authority] >= CodeSeverity["stale"]

\* README, guarantee 1: a rack whose report is behind the generation the pod has
\* recorded is no member this round, no pair with it carries anything, nothing it
\* claims is counted, and the pod's authority is at least stale.
StaleRackCarriesNothing ==
    [][\A r \in Racks : Superseded(r) => CarriesNothing(r) /\ CountsForNothing(r)]_vars

\* composer.cpp of the greedy packing: "if it returns N then N disjoint domains
\* really exist".  An obligation reported satisfied names a number of domains that
\* can serve at once without a rack in common, overlapping declarations included.
Serves(s, established, d, asked) ==
    \E r \in Listed(s, d) \cap established :
        /\ s.members[r].health \in {"ok", "impaired"}
        /\ s.members[r].admin \in IF asked.kind = "maintenance window" THEN {"enabled"}
                                  ELSE AdminStates \ {"disabled"}
ServeApart(s, established, chosen, asked) ==
    /\ \A d \in chosen : Kind(s, d) = asked.domainKind /\ Serves(s, established, d, asked)
    /\ \A d, e \in chosen : d # e => Listed(s, d) \cap Listed(s, e) = {}
DiversityIsReal ==
    \A o \in IF pod = <<>> THEN {} ELSE DOMAIN pod.obligations :
        LET asked == evidence.obligations[o]
        IN  /\ asked.kind \in {"domain diversity", "maintenance window"}
            /\ pod.obligations[o].status = "satisfied"
            => \E chosen \in SUBSET DOMAIN evidence.domains :
                  /\ Cardinality(chosen) >= asked.domains
                  /\ ServeApart(evidence, pod.members.established, chosen, asked)

\* README, guarantee 8, and obligation.hpp: a pod that reports ACTIVE has every rack
\* it knows of established, every pair in order, its capacity accounted for and
\* every obligation met, unless it has no member left.
ActiveIsEarned ==
    pod # <<>> /\ Lifecycle = "active" /\ pod.members.established # {} =>
        /\ \A r \in Racks : /\ expected[r] # NoExpectation => r \in pod.members.established
                            /\ r \in pod.members.established => evidence.members[r].admin = "enabled"
        /\ \A pair \in DOMAIN pod.connectivity : pod.connectivity[pair].status = "usable"
        /\ \A o \in DOMAIN pod.obligations : pod.obligations[o].status = "satisfied"
        /\ \A x \in DOMAIN pod.capacity : capacity_is_usable(pod.capacity[x].status)
        /\ Cardinality(pod.members.established) >= 2 => pod.connectivity # <<>>

\* composer.hpp: "no ordering of the input collections can change the result".  The
\* order routes are listed in decides nothing, except between routes of one pair
\* that tie in capacity and carry different resource classes.
OrderDecidesTiesOnly ==
    \A pair \in IF pod = <<>> THEN {} ELSE DOMAIN pod.connectivity :
        LET routes == PairRoutes(evidence, pair)
            tie    == \E q, other \in routes :
                         /\ evidence.routes[q].capacity = evidence.routes[other].capacity
                         /\ evidence.routes[q].resource # evidence.routes[other].resource
            turned == [evidence EXCEPT !.order = Reverse(@)]
        IN  tie \/ PairVerdict(turned, pod.members, pod.domains, pair) = pod.connectivity[pair]

-----------------------------------------------------------------------------
\* What a decision is made from and does not declare, when it moved in this round:
\* anything it newly depends on, such as a link nobody had reported before; for a
\* member the kinds its domains are listed under; for a domain those of the others
\* and the declarations of racks it does not list; for a domain's share of capacity
\* any other claim on the resource, since it copies the status of the pod's account;
\* for a pair the domain a link is in, the route it cites and the racks its routes
\* pass through; for diversity the domains; for the lifecycle an advance of the
\* epoch that no longer shows; for authority a token granted or revoked since.
Differ(f, g, x) == ~(x \in DOMAIN f <=> x \in DOMAIN g) \/ (x \in DOMAIN f /\ f[x] # g[x])
MemberMoved(r)  == evidence.members[r] # evidence'.members[r] \/ expected[r] # expected'[r]
KindMoved(d)    == Kind(evidence, d) # Kind(evidence', d)
Claimants(s, x) == {r \in Racks : s.members[r].count > 0
                                  /\ \E c \in s.members[r].claims : c.resource = x}
Undeclared(id) ==
    CASE id[1] = "member" -> \E d \in DeclaredBy(evidence', id[2]) : KindMoved(d)
      [] id[1] = "domain" ->
            \/ \E d \in AllDomains(evidence') \ {id[2]} : KindMoved(d)
            \/ \E r \in Racks : DeclaredBy(evidence, r) # DeclaredBy(evidence', r)
      [] id[1] = "domain capacity" ->
            \E r \in Claimants(evidence', id[2]) \cup Claimants(evidence, id[2]) : MemberMoved(r)
      [] id[1] = "pair" ->
            \/ \E link \in {evidence'.links[l] : l \in PairLinks(evidence', id[2])} :
                  \/ Differ(index, index', <<"domain", link.domain>>)
                  \/ Differ(evidence.routes, evidence'.routes, link.route)
            \/ \E q \in PairRoutes(evidence', id[2]) :
                  \E r \in Range(evidence'.routes[q].path) \ id[2] : MemberMoved(r)
      [] id[1] = "obligation" ->
            evidence'.obligations[id[2]].kind \in {"domain diversity", "maintenance window"}
      [] id[1] = "lifecycle" -> "epoch advanced" \in index[id].reasons
      [] id[1] = "authority" -> pod.valid # tokens
      [] OTHER -> FALSE
Explained(id, report) ==
    \/ ~(index'[id].deps \subseteq index[id].deps)
    \/ index'[id].deps \cap OnDecision(report.changed \cup report.added \cup report.removed) # {}
    \/ Undeclared(id)

\* README, guarantee 3, as far as it holds: when records move only as the round can
\* see them move (no rack is reported twice, no record ages without changing), a
\* decision changes outside the plan only for one of the inputs listed above, or
\* because it follows a decision that did.
SurprisesAreKnown ==
    [][rounds' # rounds /\ evidence # <<>> /\ evidence.at = evidence'.at
          /\ (\A r \in Racks : evidence.members[r].count =< 1 /\ evidence'.members[r].count =< 1)
       => \A report \in {RevalidationReport} : \A id \in report.changed : Explained(id, report)]_vars
=============================================================================
