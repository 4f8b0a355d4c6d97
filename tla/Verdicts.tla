------------------------------ MODULE Verdicts ------------------------------
(***************************************************************************)
(* The whole composer (src/engine/composer.cpp): what one round says of    *)
(* failure domains, capacity, links, routes, pairs of racks, obligations,  *)
(* lifecycle and authority, from a snapshot and the pod's record of its    *)
(* members.  Composition decides the members and the epoch; it also states *)
(* the lifecycle from a summary of the evidence, which the lifecycle given *)
(* here must agree with.  Reasons are kept as one word for each sentence.  *)
(*                                                                         *)
(* A snapshot is a record [at, members, domains, links, routes, order,     *)
(* obligations]: a report for every rack, and functions from the           *)
(* identities the snapshot lists to their records; `order' is the sequence *)
(* it lists its routes in.  Identities are numbers in the order of their   *)
(* tokens, 0 the nil route.                                                *)
(***************************************************************************)
EXTENDS Composition, Ledger, Integers

CONSTANTS
    EvidenceTtl,           \* policy.evidence_ttl
    EvidenceSkew,          \* policy.clock_skew, as evidence is judged by it
    MaxCapacityAmount,     \* policy.max_capacity_amount
    DefaultMargin,         \* policy.default_margin_percent
    RequireToken           \* policy.require_authority_token

ASSUME VerdictsAssumption ==
    /\ Racks \subseteq Nat
    /\ EvidenceTtl \in Nat /\ EvidenceSkew \in Nat
    /\ MaxCapacityAmount \in Nat \ {0} /\ MaxCapacityAmount =< MaxCapacityTotal
    /\ DefaultMargin \in Nat
    /\ RequireToken \in BOOLEAN

When(condition, x) == IF condition THEN {x} ELSE {}

\* fresh(): a record without a time of its own has that of the snapshot.
Fresh(observed, at) ==
    \/ observed = 0 \/ EvidenceTtl = 0
    \/ at - observed =< EvidenceTtl /\ observed - at =< EvidenceSkew

\* validate() of the snapshot, as far as records can be wrong in themselves: what
\* it leaves to the composer is not asked here.
ValidClaims(claims) ==
    /\ \A c \in claims : c.amount =< MaxCapacityAmount /\ c.reserved =< c.amount
    /\ \A c, d \in claims : <<c.resource, c.key>> = <<d.resource, d.key>> => c = d
ValidRoute(route) ==
    /\ route.path \in Paths /\ Len(route.generations) = Len(route.path)
    /\ route.capacity =< MaxCapacityAmount
ValidSnapshot(s) ==
    /\ s.at # 0
    /\ \A r \in Racks : s.members[r].count > 0 =>
          s.members[r].generation # 0 /\ ValidClaims(s.members[r].claims)
    /\ \A l \in DOMAIN s.links :
          /\ s.links[l].ends[1] # s.links[l].ends[2]
          /\ s.links[l].capacity =< MaxCapacityAmount
    /\ \A q \in DOMAIN s.routes : ValidRoute(s.routes[q])
    /\ \A o \in DOMAIN s.obligations : \A x \in DOMAIN s.obligations[o].floors :
          s.obligations[o].floors[x] =< MaxCapacityAmount

\* The member records with their freshness, as Composition reads them, and what
\* evaluate_members() makes of them.  A rack trusted with connectivity is trusted
\* with capacity.
Sightings(s) ==
    [r \in Racks |->
        LET x == s.members[r]
        IN  [count |-> x.count, generation |-> x.generation, digest |-> x.digest,
             fresh |-> Fresh(x.observed, s.at), supported |-> x.supported,
             admissible |-> x.admissible, membership |-> x.membership,
             health |-> x.health, admin |-> x.admin]]
Members(s, expected) ==
    LET evidence == [reports |-> Sightings(s)]
    IN  [status      |-> [r \in Racks |-> MemberStatus(evidence.reports[r], expected[r])],
         established |-> Established(evidence, expected),
         usable      |-> Reachable(evidence, expected)]
Composed(m) == {r \in Racks : m.status[r] # "unknown"}

-----------------------------------------------------------------------------
\* Failure domains: those the snapshot lists and those a rack declares.  The
\* declarations of a rack reported twice are not read.
DeclaredBy(s, r) == IF s.members[r].count = 1 THEN s.members[r].domains ELSE {}
Listed(s, d)     == IF d \in DOMAIN s.domains THEN s.domains[d].members ELSE {}
Kind(s, d)       == IF d \in DOMAIN s.domains THEN s.domains[d].kind ELSE "unknown"
AllDomains(s)    == DOMAIN s.domains \cup UNION {DeclaredBy(s, r) : r \in Racks}

\* A rack in two domains of one kind.
OverlapsAt(s, r, d) ==
    /\ d \in DeclaredBy(s, r)
    /\ \E e \in DeclaredBy(s, r) \ {d} : Kind(s, e) = Kind(s, d)

\* evaluate_domains(), for one domain.
DomainVerdict(s, m, d) ==
    LET listed   == Listed(s, d)
        served   == listed \cap m.usable # {}
        unread   == \E r \in listed : s.members[r].count > 0 /\ d \notin DeclaredBy(s, r)
        unlisted == \E r \in Racks \ listed : d \in DeclaredBy(s, r)
        overlaps == \E r \in Racks : OverlapsAt(s, r, d)
        torn     == unread \/ unlisted
    IN  [status  |-> IF torn \/ overlaps THEN "conflicting"
                     ELSE IF listed = {} THEN "incomplete"
                     ELSE IF ~served THEN "degraded"
                     ELSE "ok",
         reasons |-> When(d \notin DOMAIN s.domains, "never declared")
                     \cup When(\E r \in listed : s.members[r].count = 0, "rack not described")
                     \cup When(unread, "rack does not declare it")
                     \cup When(unlisted, "does not list the rack")
                     \cup When(~torn /\ listed = {}, "no members")
                     \cup When(~torn /\ listed # {} /\ ~served, "no member established")
                     \cup When(overlaps, "overlap")]
Domains(s, m) == [d \in AllDomains(s) |-> DomainVerdict(s, m, d)]

-----------------------------------------------------------------------------
\* evaluate_capacity(): the claims the ledger counts, and those it is given to
\* withhold.
OwnedBy(r, c) == [owner |-> r, resource |-> c.resource, key |-> c.key, domain |-> c.domain,
                  amount |-> c.amount, reserved |-> c.reserved]
Claims(s) == UNION {{OwnedBy(r, c) : c \in s.members[r].claims} :
                        r \in {x \in Racks : s.members[x].count > 0}}

\* Mutant: a rack that is not established is counted all the same.
ClaimsOfAll(s, m) == {c \in Claims(s) : c.domain \in DeclaredBy(s, c.owner)}

UsableClaims(s, m) ==
    {c \in Claims(s) : c.owner \in m.usable /\ c.domain \in DeclaredBy(s, c.owner)}

Capacity(s, m) ==
    LET usable == UsableClaims(s, m)
    IN  [x \in {c.resource : c \in Claims(s)} |-> by_resource(usable, Claims(s) \ usable, x)]

-----------------------------------------------------------------------------
\* What is said of a link or route; one that carries nothing offers nothing.
Outcome(item, capacity, status, reason) ==
    [status |-> status, reason |-> reason, resource |-> item.resource,
     capacity |-> IF status \in {"usable", "degraded"} THEN capacity ELSE 0]

\* The state of a routing decision; shared by links that cite it and by routes.
RouteGone(s, q)    == s.routes[q].state \in {"withdrawn", "failed"}
RouteSettled(s, q) == s.routes[q].state = "installed"

\* Mutant: a link is read without the conditions of its domain.
LinkWithoutDomain(s, m, domains, link) ==
    LET ends == {link.ends[1], link.ends[2]}
    IN  IF ~(ends \subseteq m.usable) \/ link.admin # "enabled" \/ link.oper # "up"
           \/ \E i \in 1 .. 2 : link.generations[i] # s.members[link.ends[i]].generation
        THEN Outcome(link, link.capacity, "blocked", "not in order")
        ELSE Outcome(link, link.capacity, "usable", "")

\* classify_link(): the first rule that applies.
classify_link(s, m, domains, link) ==
    LET ends == {link.ends[1], link.ends[2]}
        Is(status, reason) == Outcome(link, link.capacity, status, reason)
        Domain(statuses) == /\ link.domain \in DOMAIN s.domains
                            /\ domains[link.domain].status \in statuses
    IN  IF ~(ends \subseteq Composed(m)) THEN Is("indeterminate", "not a member")
        ELSE IF ~(ends \subseteq m.established) THEN Is("blocked", "end not established")
        ELSE IF ~(ends \subseteq m.usable) THEN Is("blocked", "end unhealthy")
        ELSE IF link.admin # "enabled" THEN Is("blocked", "not enabled")
        ELSE IF link.oper = "down" THEN Is("blocked", "down")
        ELSE IF link.oper = "unknown" THEN Is("indeterminate", "state unknown")
        ELSE IF \E i \in 1 .. 2 : link.generations[i] # s.members[link.ends[i]].generation
             THEN Is("stale", "superseded generation")
        ELSE IF ~Fresh(link.observed, s.at) THEN Is("stale", "old evidence")
        ELSE IF link.route # 0 /\ link.route \notin DOMAIN s.routes
             THEN Is("indeterminate", "cited route missing")
        ELSE IF link.route # 0 /\ RouteGone(s, link.route) THEN Is("blocked", "cited route gone")
        ELSE IF link.route # 0 /\ ~RouteSettled(s, link.route)
             THEN Is("indeterminate", "cited route not settled")
        ELSE IF Domain({"conflicting"}) THEN Is("conflicting", "domain in conflict")
        ELSE IF Domain({"degraded", "incomplete"}) THEN Is("degraded", "domain unhealthy")
        ELSE IF link.oper = "degraded" \/ \E r \in ends : s.members[r].health = "impaired"
             THEN Is("degraded", "link or end degraded")
        ELSE Is("usable", "")

\* classify_route(): the first rack on the path that is not in order decides.
classify_route(s, m, q) ==
    LET route == s.routes[q]
        Is(status, reason) == Outcome(route, route.capacity, status, reason)
        Current(i) == route.generations[i] = s.members[route.path[i]].generation
        amiss == {i \in DOMAIN route.path : ~(route.path[i] \in m.usable /\ Current(i))}
        first == Min(amiss)
    IN  IF RouteGone(s, q) THEN Is("blocked", "gone")
        ELSE IF ~RouteSettled(s, q) THEN Is("indeterminate", "not settled")
        ELSE IF ~Fresh(route.observed, s.at) THEN Is("stale", "old evidence")
        ELSE IF amiss = {} THEN Is("usable", "")
        ELSE IF route.path[first] \notin m.established THEN Is("blocked", "rack not established")
        ELSE IF ~Current(first) THEN Is("stale", "superseded generation")
        ELSE Is("blocked", "rack unhealthy")

LinkSeverity == [usable |-> 0, degraded |-> 1, stale |-> 2, indeterminate |-> 3, blocked |-> 4,
                 conflicting |-> 5, unsupported |-> 6]
WorstLink(statuses) ==
    CHOOSE x \in statuses : \A y \in statuses : LinkSeverity[x] >= LinkSeverity[y]

\* The pairs evaluate_connectivity() gives a verdict on, and the evidence of one.
LinkPair(link)     == {link.ends[1], link.ends[2]}
PairLinks(s, pair)  == {l \in DOMAIN s.links : LinkPair(s.links[l]) = pair}
PairRoutes(s, pair) == {q \in DOMAIN s.routes : pair \in RoutePairs(s.routes[q])}
PairsOf(s, m) ==
    {LinkPair(s.links[l]) : l \in DOMAIN s.links}
    \cup (UNION {RoutePairs(s.routes[q]) : q \in DOMAIN s.routes})
    \cup {pair \in Pairs : RequireFullCoverage /\ pair \subseteq m.established}

Position(order, q) == CHOOSE i \in DOMAIN order : order[i] = q

\* Mutant: the last route that offers anything overwrites what came before.
LastRoute(order, outcomes) ==
    CHOOSE q \in DOMAIN outcomes : \A other \in DOMAIN outcomes :
        \/ outcomes[q].capacity > 0 /\ outcomes[other].capacity = 0
        \/ /\ (outcomes[q].capacity > 0) = (outcomes[other].capacity > 0)
           /\ Position(order, q) >= Position(order, other)

\* The largest routed capacity is that of the first route that offers it.
BestRoute(order, outcomes) ==
    CHOOSE q \in DOMAIN outcomes : \A other \in DOMAIN outcomes :
        \/ outcomes[q].capacity > outcomes[other].capacity
        \/ /\ outcomes[q].capacity = outcomes[other].capacity
           /\ Position(order, q) =< Position(order, other)

\* The verdict on one pair from what is said of its links and routes.  Direct links
\* add up, routes share one fabric with them.
Judged(order, links, routes) ==
    LET statuses == {links[l].status : l \in DOMAIN links}
                    \cup {routes[q].status : q \in DOMAIN routes}
        carrying == statuses \cap {"usable", "degraded"}
        best     == BestRoute(order, routes)
        routed   == IF routes = <<>> THEN 0 ELSE routes[best].capacity
        direct   == MapThenSumSet(LAMBDA l : links[l].capacity, DOMAIN links)
        classes  == {links[l].resource : l \in {x \in DOMAIN links : links[x].capacity > 0}}
                    \cup When(routed > 0, routes[best].resource)
        mixed    == Cardinality(classes) > 1
        status   == IF mixed THEN "conflicting"
                    ELSE IF statuses = {"usable"} THEN "usable"
                    ELSE IF carrying # {} THEN "degraded"
                    ELSE IF statuses # {} THEN WorstLink(statuses)
                    ELSE "indeterminate"
    IN  [status   |-> status,
         capacity |-> IF mixed \/ carrying = {} THEN 0 ELSE Max({direct, routed}),
         reasons  |-> ({links[l].reason : l \in DOMAIN links}
                       \cup {routes[q].reason : q \in DOMAIN routes}
                       \cup When(mixed, "mixed classes") \cup When(statuses = {}, "no evidence"))
                      \ {""}]

\* evaluate_connectivity(), for one pair and for all.
PairVerdict(s, m, domains, pair) ==
    Judged(s.order, [l \in PairLinks(s, pair) |-> classify_link(s, m, domains, s.links[l])],
           [q \in PairRoutes(s, pair) |-> classify_route(s, m, q)])
Connectivity(s, m, domains) == [pair \in PairsOf(s, m) |-> PairVerdict(s, m, domains, pair)]

-----------------------------------------------------------------------------
\* diversity(): the domains of a kind that can serve, and how many of them the
\* greedy packing takes, smallest first, each disjoint from those before.
Serviceable(s, m, domains, kind, excludeDrained) ==
    {d \in DOMAIN s.domains :
        /\ Kind(s, d) = kind /\ domains[d].status # "conflicting"
        /\ \E r \in Listed(s, d) \cap m.usable :
              excludeDrained => s.members[r].admin = "enabled"}

PackedBefore(s, d, e) ==
    LET size(x) == Cardinality(Listed(s, x))
    IN  size(d) < size(e) \/ (size(d) = size(e) /\ d < e)
LastPacked(s, candidates) == CHOOSE d \in candidates : \A e \in candidates \ {d} : PackedBefore(s, e, d)

\* Mutant: a domain is taken whatever racks it shares with those before.
TakeAny(s, d, taken) == taken \cup {d}
Take(s, d, taken) ==
    IF \E e \in taken : Listed(s, d) \cap Listed(s, e) # {} THEN taken ELSE taken \cup {d}
Packing(s, candidates) ==
    MapThenFoldSet(LAMBDA d, taken : Take(s, d, taken), {}, LAMBDA d : d,
                   LAMBDA rest : LastPacked(s, rest), candidates)

HasKind(s, domains, kind)    == \E d \in DOMAIN domains : Kind(s, d) = kind
Conflicted(s, domains, kind) ==
    \E d \in DOMAIN domains : Kind(s, d) = kind /\ domains[d].status = "conflicting"

ObligationSeverity ==
    [satisfied |-> 0, atrisk |-> 1, indeterminate |-> 2, unsupported |-> 3, violated |-> 4]
WorstObligation(statuses) ==
    CHOOSE x \in statuses : \A y \in statuses : ObligationSeverity[x] >= ObligationSeverity[y]

\* evaluate_obligations(), by the kind of obligation: what each requirement, rack
\* or pair contributes.  CapacityFloor: the margin is a percentage of the floor.
FloorStatus(capacity, resource, minimum, margin) ==
    IF resource \notin DOMAIN capacity THEN "indeterminate"
    ELSE IF ~capacity_is_usable(capacity[resource].status)
         THEN IF capacity[resource].status = "exhausted" THEN "violated" ELSE "indeterminate"
    ELSE LET headroom == capacity[resource].headroom
             percent  == IF margin = 0 THEN DefaultMargin ELSE margin
             extra    == (minimum * percent) \div 100
         IN  IF minimum * percent > CounterLimit \/ ~Fits(minimum, extra) THEN "indeterminate"
             ELSE IF headroom < minimum THEN "violated"
             ELSE IF headroom < minimum + extra THEN "atrisk"
             ELSE "satisfied"

ProtectedPairStatus(connectivity, pair) ==
    IF pair \notin DOMAIN connectivity THEN "indeterminate"
    ELSE CASE connectivity[pair].status = "usable" -> "satisfied"
           [] connectivity[pair].status = "degraded" -> "atrisk"
           [] connectivity[pair].status \in {"blocked", "stale", "conflicting"} -> "violated"
           [] OTHER -> "indeterminate"

Satisfying(s, m, domains, obligation) ==
    Packing(s, Serviceable(s, m, domains, obligation.domainKind,
                           obligation.kind = "maintenance window"))

ObligationKinds == {"capacity floor", "protected path", "domain diversity", "maintenance window"}

\* What the parts of an obligation contribute; none when there is nothing it asks.
Contributions(s, m, domains, capacity, connectivity, obligation) ==
    CASE obligation.kind = "capacity floor" ->
            {FloorStatus(capacity, x, obligation.floors[x], obligation.margin) :
                x \in DOMAIN obligation.floors}
      [] obligation.kind = "protected path" ->
            {IF r \in m.established THEN "satisfied" ELSE "violated" : r \in obligation.racks}
            \cup {ProtectedPairStatus(connectivity, pair) : pair \in Pairs \cap SUBSET obligation.racks}
      [] obligation.kind \in {"domain diversity", "maintenance window"} ->
            LET kind   == obligation.domainKind
                wanted == obligation.domains
                now    == Packing(s, Serviceable(s, m, domains, kind, FALSE))
            IN  IF wanted = 0 \/ ~HasKind(s, domains, kind) THEN {}
                ELSE {"satisfied"}
                     \cup When(Conflicted(s, domains, kind), "indeterminate")
                     \cup When(Cardinality(now) < wanted, "violated")
                     \cup When(Cardinality(Satisfying(s, m, domains, obligation)) < wanted, "atrisk")

ObligationVerdict(s, m, domains, capacity, connectivity, obligation) ==
    LET parts == Contributions(s, m, domains, capacity, connectivity, obligation)
    IN  [status  |-> IF parts = {} THEN "unsupported" ELSE WorstObligation(parts),
         reasons |-> parts \ {"satisfied"},
         served  |-> IF obligation.kind \in {"domain diversity", "maintenance window"} /\ parts # {}
                     THEN Cardinality(Satisfying(s, m, domains, obligation)) ELSE 0]

-----------------------------------------------------------------------------
\* Mutant: obligations are not asked.
DegradedWithoutObligations(m, domains, capacity, connectivity, obligations) ==
    \/ Composed(m) # m.established
    \/ \E pair \in DOMAIN connectivity : connectivity[pair].status # "usable"
    \/ \E x \in DOMAIN capacity : ~capacity_is_usable(capacity[x].status)
    \/ \E d \in DOMAIN domains : domains[d].status # "ok"

\* evaluate_lifecycle(), without a restart or a doubtful commit behind it.
degraded(m, domains, capacity, connectivity, obligations) ==
    \/ Composed(m) # m.established
    \/ \E pair \in DOMAIN connectivity : connectivity[pair].status # "usable"
    \/ \E x \in DOMAIN capacity : ~capacity_is_usable(capacity[x].status)
    \/ \E d \in DOMAIN domains : domains[d].status # "ok"
    \/ \E o \in DOMAIN obligations : obligations[o].status # "satisfied"

DesiredLifecycle(s, m, domains, capacity, connectivity, obligations, advanced) ==
    LET several  == Cardinality(m.established) >= 2
        joined   == \E pair \in DOMAIN connectivity :
                       connectivity[pair].status \in {"usable", "degraded"}
        admins   == {s.members[r].admin : r \in m.established}
    IN  IF several /\ connectivity = <<>> /\ ~RequireFullCoverage THEN "degraded"
        ELSE IF m.established = {} THEN "constructing"
        ELSE IF several /\ ~joined THEN "partitioned"
        ELSE IF admins = {"maintenance"} THEN "maintenance"
        ELSE IF admins # {"enabled"} THEN "draining"
        ELSE IF \/ degraded(m, domains, capacity, connectivity, obligations)
                \/ Cardinality(m.established) < MinEstablished \/ advanced THEN "degraded"
        ELSE "active"

-----------------------------------------------------------------------------
\* The codes verdicts contribute to authority, from the mildest to the worst.
CodeSeverity == [ok |-> 0, incomplete |-> 5, stale |-> 6, unsupported |-> 7, indeterminate |-> 8,
                 conflicting |-> 9, unavailable |-> 10, exhausted |-> 11, refused |-> 12]
worst(codes) == CHOOSE x \in codes : \A y \in codes : CodeSeverity[x] >= CodeSeverity[y]

\* Mutant: a rack that reports an old generation is only incomplete.
LenientMemberCode(status) ==
    CASE status = "established" -> "ok"
      [] status \in {"conflicting", "unsupported"} -> status
      [] OTHER -> "incomplete"
member_code(status) ==
    CASE status = "established" -> "ok"
      [] status = "joining" -> "incomplete"
      [] status \in {"conflicting", "unsupported"} -> status
      [] OTHER -> "stale"
domain_code(status)   == IF status = "degraded" THEN "incomplete" ELSE status
capacity_code(status) == IF status = "deduplicated" THEN "ok" ELSE status

\* evaluate_authority(): the worst of what members, domains, capacity, obligations,
\* lifecycle and the missing of a token contribute; connectivity does not.
ObligationCode(obligation, status) ==
    CASE status = "violated" -> IF obligation.mandatory THEN "refused" ELSE "stale"
      [] status = "indeterminate" -> "incomplete"
      [] OTHER -> "ok"
AuthorityStatus(s, m, domains, capacity, obligations, lifecycle, tokenValid) ==
    worst({"ok"}
        \cup {member_code(m.status[r]) : r \in Composed(m)}
        \cup {domain_code(domains[d].status) : d \in DOMAIN domains}
        \cup {capacity_code(capacity[x].status) : x \in DOMAIN capacity}
        \cup {ObligationCode(s.obligations[o], obligations[o].status) : o \in DOMAIN obligations}
        \cup When(lifecycle = "retired", "refused")
        \cup When(lifecycle = "constructing", "incomplete")
        \cup When(RequireToken /\ ~tokenValid, "stale"))
=============================================================================
