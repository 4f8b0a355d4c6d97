------------------------- MODULE RevalidationProofs -------------------------
(***************************************************************************)
(* What is proved of evidence rounds over the whole composer, for every    *)
(* snapshot a pod may be given: that Active is earned, that a superseded   *)
(* rack counts for nothing, that the order of routes decides ties only,    *)
(* that capacity is counted once, that diversity is real, and that the     *)
(* lifecycle is the one the controller's model takes it for.               *)
(***************************************************************************)
EXTENDS Revalidation, VerdictProofs

\* The verdicts of a round that the lifecycle follows from.
LEMMA ComposeFields ==
    ASSUME NEW s, NEW context
    PROVE  LET p == Compose(s, context)
               m == Members(s, context.expected)
           IN  /\ p.members = m
               /\ p.domains = Domains(s, m)
               /\ p.capacity = Capacity(s, m)
               /\ p.connectivity = Connectivity(s, m, p.domains)
               /\ p.desired = DesiredLifecycle(s, m, p.domains, p.capacity, p.connectivity,
                                               p.obligations, p.epoch # context.epoch)
               /\ p.lifecycle = next_lifecycle(context.lifecycle, p.desired)
  <1> DEFINE m == Members(s, context.expected)
  <1> HIDE DEF m
  <1>1. LET p == Compose(s, context)
        IN  /\ p.members = m
            /\ p.domains = Domains(s, m)
            /\ p.capacity = Capacity(s, m)
            /\ p.connectivity = Connectivity(s, m, p.domains)
            /\ p.desired = DesiredLifecycle(s, m, p.domains, p.capacity, p.connectivity,
                                            p.obligations, p.epoch # context.epoch)
            /\ p.lifecycle = next_lifecycle(context.lifecycle, p.desired)
    BY DEF Compose, m
  <1> QED  BY <1>1 DEF m

\* next_lifecycle() grants "active" only when asked for it, unless the pod is
\* active already and asks to be what no pod may become again.
LEMMA ActiveIsAskedFor ==
    ASSUME NEW current, NEW desired \in LifecycleStates,
           next_lifecycle(current, desired) = "active"
    PROVE  desired \in {"active", "constructing"}
  BY DEF next_lifecycle, legal, Targets, LifecycleStates, Live

\* evaluate_lifecycle() asks for a state there is.
LEMMA DesiredIsAState ==
    ASSUME NEW s, NEW m, NEW domains, NEW capacity, NEW connectivity, NEW obligations,
           NEW advanced \in BOOLEAN
    PROVE  DesiredLifecycle(s, m, domains, capacity, connectivity, obligations, advanced)
               \in LifecycleStates \ {"retired"}
  BY DEF DesiredLifecycle, LifecycleStates, Live

\* It asks for "constructing" only without a member, and for "active" only with
\* every verdict in order.
LEMMA DesiredMeans ==
    ASSUME NEW s, NEW m, NEW domains, NEW capacity, NEW connectivity, NEW obligations,
           NEW advanced \in BOOLEAN,
           m.established # {},
           DesiredLifecycle(s, m, domains, capacity, connectivity, obligations, advanced)
               \in {"active", "constructing"}
    PROVE  /\ ~degraded(m, domains, capacity, connectivity, obligations)
           /\ \A r \in m.established : s.members[r].admin = "enabled"
           /\ Cardinality(m.established) >= 2 => connectivity # <<>>
  <1> DEFINE several == Cardinality(m.established) >= 2
             joined  == \E pair \in DOMAIN connectivity :
                           connectivity[pair].status \in {"usable", "degraded"}
             admins  == {s.members[r].admin : r \in m.established}
             worse   == degraded(m, domains, capacity, connectivity, obligations)
             few     == Cardinality(m.established) < MinEstablished
  <1>1. connectivity = <<>> => ~joined
    OBVIOUS
  <1>2. admins = {"enabled"} => \A r \in m.established : s.members[r].admin = "enabled"
    OBVIOUS
  <1>3. (IF several /\ connectivity = <<>> /\ ~RequireFullCoverage THEN "degraded"
         ELSE IF m.established = {} THEN "constructing"
         ELSE IF several /\ ~joined THEN "partitioned"
         ELSE IF admins = {"maintenance"} THEN "maintenance"
         ELSE IF admins # {"enabled"} THEN "draining"
         ELSE IF worse \/ few \/ advanced THEN "degraded"
         ELSE "active") \in {"active", "constructing"}
    BY DEF DesiredLifecycle
  <1> HIDE DEF several, joined, admins, worse, few
  <1>4. admins = {"enabled"} /\ ~worse /\ ~(several /\ ~joined)
    BY <1>3
  <1> QED  BY <1>1, <1>2, <1>4 DEF several, worse

\* A rack a round leaves a record of is one it gave a verdict on.
LEMMA RecordsAreOfMembers ==
    ASSUME NEW s, NEW known, NEW r \in Racks,
           derive_expectations([reports |-> Sightings(s)], known)[r] # NoExpectation
    PROVE  r \in Composed(Members(s, known))
  <1> DEFINE report == Sightings(s)[r]
             status == MemberStatus(report, known[r])
  <1>1. Members(s, known).status[r] = status
    BY DEF Members
  <1>2. /\ status = "retiring" => derive_expectations([reports |-> Sightings(s)], known)[r] = NoExpectation
        /\ status \notin {"retiring", "established"} =>
              derive_expectations([reports |-> Sightings(s)], known)[r] = known[r]
    BY DEF derive_expectations
  <1>3. status = "unknown" => known[r] = NoExpectation
    BY DEF MemberStatus
  <1>4. status # "unknown"
    BY <1>2, <1>3
  <1> QED  BY <1>1, <1>4 DEF Composed

-----------------------------------------------------------------------------
\* A round that ends active earned it: apply_locked() publishes the lifecycle, the
\* verdicts and the record of members of one composition together.
LEMMA RoundEarnsActive ==
    ASSUME NEW s, Apply(s)
    PROVE  ActiveIsEarned'
  <1> DEFINE p == Compose(s, Context)
             m == Members(s, expected)
  <1> SUFFICES ASSUME pod' # <<>>, Lifecycle' = "active", pod'.members.established # {}
               PROVE  /\ \A r \in Racks :
                            /\ expected'[r] # NoExpectation => r \in pod'.members.established
                            /\ r \in pod'.members.established => evidence'.members[r].admin = "enabled"
                      /\ \A pair \in DOMAIN pod'.connectivity : pod'.connectivity[pair].status = "usable"
                      /\ \A o \in DOMAIN pod'.obligations : pod'.obligations[o].status = "satisfied"
                      /\ \A x \in DOMAIN pod'.capacity : capacity_is_usable(pod'.capacity[x].status)
                      /\ Cardinality(pod'.members.established) >= 2 => pod'.connectivity # <<>>
    BY DEF ActiveIsEarned
  <1>1. /\ pod' = p /\ evidence' = s
        /\ expected' = derive_expectations([reports |-> Sightings(s)], expected)
    BY DEF Apply
  <1>2. Context.expected = expected
    BY DEF Context
  <1>3. /\ p.members = m
        /\ p.desired = DesiredLifecycle(s, m, p.domains, p.capacity, p.connectivity,
                                        p.obligations, p.epoch # Context.epoch)
        /\ p.lifecycle = next_lifecycle(Context.lifecycle, p.desired)
    BY <1>2, ComposeFields
  <1>4. p.lifecycle = "active" /\ m.established # {}
    BY <1>1, <1>3 DEF Lifecycle
  <1> HIDE DEF p, m
  <1>5. p.desired \in {"active", "constructing"}
    <2>1. p.desired \in LifecycleStates
      BY <1>3, DesiredIsAState
    <2> QED  BY <1>3, <1>4, <2>1, ActiveIsAskedFor
  <1>6. /\ ~degraded(m, p.domains, p.capacity, p.connectivity, p.obligations)
        /\ \A r \in m.established : s.members[r].admin = "enabled"
        /\ Cardinality(m.established) >= 2 => p.connectivity # <<>>
    <2> DEFINE advanced == p.epoch # Context.epoch
    <2>1. /\ advanced \in BOOLEAN
          /\ DesiredLifecycle(s, m, p.domains, p.capacity, p.connectivity, p.obligations, advanced)
                 \in {"active", "constructing"}
      BY <1>3, <1>5
    <2> HIDE DEF advanced
    <2> QED  BY <1>4, <2>1, DesiredMeans
  <1>7. /\ Composed(m) = m.established
        /\ \A pair \in DOMAIN p.connectivity : p.connectivity[pair].status = "usable"
        /\ \A x \in DOMAIN p.capacity : capacity_is_usable(p.capacity[x].status)
        /\ \A o \in DOMAIN p.obligations : p.obligations[o].status = "satisfied"
    BY <1>6 DEF degraded
  <1>8. \A r \in Racks : expected'[r] # NoExpectation => r \in m.established
    BY <1>1, <1>7, RecordsAreOfMembers DEF m
  <1> QED  BY <1>1, <1>3, <1>6, <1>7, <1>8

\* A pod that reports ACTIVE has every rack it knows of established and enabled,
\* every pair usable, its capacity accounted for and every obligation met, whatever
\* the evidence it was given: the lifecycle is read off the verdicts of the same
\* round, and next_lifecycle() never grants what was not asked for.
THEOREM ActiveMeansReady == Spec => []ActiveIsEarned
  <1>1. Init => ActiveIsEarned
    BY DEF Init, ActiveIsEarned
  <1>2. ActiveIsEarned /\ [Next]_vars => ActiveIsEarned'
    <2> SUFFICES ASSUME ActiveIsEarned, [Next]_vars
                 PROVE  ActiveIsEarned'
      OBVIOUS
    <2>1. ASSUME NEW s, Apply(s) PROVE ActiveIsEarned'
      BY <2>1, RoundEarnsActive
    <2>2. CASE Mint
      BY <2>2 DEF Mint, ActiveIsEarned, Lifecycle
    <2>3. ASSUME NEW t, Revoke(t) PROVE ActiveIsEarned'
      BY <2>3 DEF Revoke, ActiveIsEarned, Lifecycle
    <2>4. CASE UNCHANGED vars
      BY <2>4 DEF vars, ActiveIsEarned, Lifecycle
    <2> QED  BY <2>1, <2>2, <2>3, <2>4 DEF Next
  <1> QED  BY <1>1, <1>2, PTL DEF Spec
-----------------------------------------------------------------------------
\* evaluate_members() establishes no rack that reports less than the generation on
\* record: that rule comes before the one that adopts a newer generation.
LEMMA SupersededIsOut ==
    ASSUME NEW s, NEW known, NEW r \in Racks,
           s.members[r].count > 0, s.members[r].generation < known[r].generation
    PROVE  r \notin Members(s, known).established
  <1> DEFINE report == Sightings(s)[r]
  <1>1. report.generation < known[r].generation
    BY DEF Sightings
  <1>2. MemberStatus(report, known[r]) # "established"
    BY <1>1 DEF MemberStatus
  <1>3. Members(s, known).established
            = {x \in Racks : MemberStatus(Sightings(s)[x], known[x]) = "established"}
    BY DEF Members, Established
  <1> QED  BY <1>2, <1>3

LEMMA UsableIsEstablished ==
    ASSUME NEW s, NEW known
    PROVE  Members(s, known).usable \subseteq Members(s, known).established
  BY DEF Members, Reachable

\* A pair is one of two racks that are on the path of every route that says
\* something of it.
LEMMA OnThePath ==
    ASSUME NEW route, route.path \in Paths, NEW pair \in RoutePairs(route), NEW r \in pair
    PROVE  \E i \in DOMAIN route.path : route.path[i] = r
  <1> DEFINE path == route.path
  <1>1. PICK n \in 1 .. Cardinality(Racks) : path \in [1 .. n -> Racks]
    BY DEF Paths
  <1>2. n \in Nat \ {0} /\ DOMAIN path = 1 .. n
    <2>1. n \in Int /\ n >= 1
      BY <1>1
    <2> QED  BY <1>1, <2>1
  <1>3. Len(path) = n
    BY <1>1, <1>2
  <1>4. \/ \E i \in 1 .. Len(path) - 1 : pair = {path[i], path[i + 1]}
        \/ pair = {path[1], path[Len(path)]}
    BY DEF RoutePairs
  <1>5. CASE \E i \in 1 .. Len(path) - 1 : pair = {path[i], path[i + 1]}
    <2>1. PICK i \in 1 .. n - 1 : pair = {path[i], path[i + 1]}
      BY <1>3, <1>5
    <2>2. i \in 1 .. n /\ i + 1 \in 1 .. n
      BY <1>2, <2>1
    <2> QED  BY <1>2, <2>1, <2>2
  <1>6. CASE pair = {path[1], path[Len(path)]}
    <2>1. 1 \in 1 .. n /\ n \in 1 .. n
      BY <1>2
    <2> QED  BY <1>2, <1>3, <1>6, <2>1
  <1> QED  BY <1>4, <1>5, <1>6

Carrying == {"usable", "degraded"}

\* classify_link(): a link with an end that is not established carries nothing.
LEMMA LinkNeedsItsEnds ==
    ASSUME NEW s, NEW m, NEW domains, NEW link, ~({link.ends[1], link.ends[2]} \subseteq m.established)
    PROVE  classify_link(s, m, domains, link).status \notin Carrying
  <1>1. classify_link(s, m, domains, link).status \in {"indeterminate", "blocked"}
    BY DEF classify_link, Outcome
  <1> QED  BY <1>1 DEF Carrying

\* classify_route(): nor does a route with such a rack on its path.
LEMMA RouteNeedsItsRacks ==
    ASSUME NEW s, NEW m, m.usable \subseteq m.established, NEW q,
           NEW i \in DOMAIN s.routes[q].path, s.routes[q].path[i] \notin m.established
    PROVE  classify_route(s, m, q).status \notin Carrying
  <1> DEFINE route == s.routes[q]
             amiss == {j \in DOMAIN route.path :
                         ~(route.path[j] \in m.usable
                           /\ route.generations[j] = s.members[route.path[j]].generation)}
  <1>1. i \in amiss
    OBVIOUS
  <1>2. classify_route(s, m, q).status \in {"blocked", "indeterminate", "stale"}
    BY <1>1 DEF classify_route, Outcome
  <1> QED  BY <1>2 DEF Carrying

\* A pair none of whose links and routes carries anything has no capacity.
LEMMA NothingCarried ==
    ASSUME NEW order, NEW links, NEW routes,
           \A l \in DOMAIN links : links[l].status \notin Carrying,
           \A q \in DOMAIN routes : routes[q].status \notin Carrying
    PROVE  Judged(order, links, routes).capacity = 0
  BY DEF Judged, Carrying

LEMMA RoundLeavesSupersededOut ==
    ASSUME NEW s, Apply(s), NEW r \in Racks, Superseded(r)
    PROVE  CarriesNothing(r)
  <1> DEFINE p == Compose(s, Context)
             m == Members(s, expected)
  <1>1. pod' = p /\ evidence' = s /\ ValidSnapshot(s)
    BY DEF Apply
  <1>2. p.members = m /\ p.connectivity = Connectivity(s, m, p.domains)
    BY ComposeFields DEF Context
  <1>3. r \notin m.established
    BY <1>1, SupersededIsOut DEF Superseded
  <1>4. m.usable \subseteq m.established
    BY UsableIsEstablished
  <1> HIDE DEF p, m
  <1>5. ASSUME NEW pair \in DOMAIN p.connectivity, r \in pair
        PROVE  p.connectivity[pair].capacity = 0
    <2> DEFINE links  == [l \in PairLinks(s, pair) |-> classify_link(s, m, p.domains, s.links[l])]
               routes == [q \in PairRoutes(s, pair) |-> classify_route(s, m, q)]
    <2>1. p.connectivity[pair] = Judged(s.order, links, routes)
      BY <1>2, <1>5 DEF Connectivity, PairVerdict
    <2>2. ASSUME NEW l \in PairLinks(s, pair)
          PROVE  links[l].status \notin Carrying
      <3>1. {s.links[l].ends[1], s.links[l].ends[2]} = pair
        BY <2>2 DEF PairLinks, LinkPair
      <3> QED  BY <1>3, <1>5, <3>1, LinkNeedsItsEnds
    <2>3. ASSUME NEW q \in PairRoutes(s, pair)
          PROVE  routes[q].status \notin Carrying
      <3>1. s.routes[q].path \in Paths /\ pair \in RoutePairs(s.routes[q])
        BY <1>1, <2>3 DEF PairRoutes, ValidSnapshot, ValidRoute
      <3>2. PICK i \in DOMAIN s.routes[q].path : s.routes[q].path[i] = r
        BY <1>5, <3>1, OnThePath
      <3> QED  BY <1>3, <1>4, <3>2, RouteNeedsItsRacks
    <2> HIDE DEF links, routes
    <2>4. DOMAIN links = PairLinks(s, pair) /\ DOMAIN routes = PairRoutes(s, pair)
      BY DEF links, routes
    <2> QED  BY <2>1, <2>2, <2>3, <2>4, NothingCarried
  <1> QED  BY <1>1, <1>2, <1>3, <1>5 DEF CarriesNothing

\* README, guarantee 1, as far as members and connectivity go: a rack that reports
\* less than the generation the pod has on record is no member this round, and no
\* pair with it carries anything, by a direct link or by a route through it.
THEOREM StaleRackIsOut ==
    Spec => [][\A r \in Racks : Superseded(r) => CarriesNothing(r)]_vars
  <1>1. [Next]_vars => [\A r \in Racks : Superseded(r) => CarriesNothing(r)]_vars
    <2> SUFFICES ASSUME [Next]_vars, NEW r \in Racks, Superseded(r), vars' # vars
                 PROVE  CarriesNothing(r)
      OBVIOUS
    <2>1. ASSUME NEW s, Apply(s) PROVE CarriesNothing(r)
      BY <2>1, RoundLeavesSupersededOut
    <2>2. CASE Mint
      BY <2>2 DEF Mint, Superseded
    <2>3. ASSUME NEW t, Revoke(t) PROVE CarriesNothing(r)
      BY <2>3 DEF Revoke, Superseded
    <2> QED  BY <2>1, <2>2, <2>3 DEF Next
  <1> QED  BY <1>1, PTL DEF Spec
-----------------------------------------------------------------------------
\* The states a link or route can be in, and the worst of several of them.
LinkStatuses == {"usable", "degraded", "stale", "indeterminate", "blocked", "conflicting", "unsupported"}

LEMMA WorstIsOne ==
    ASSUME NEW statuses, statuses \subseteq LinkStatuses, statuses # {}
    PROVE  WorstLink(statuses) \in statuses
  <1> DEFINE severities == {LinkSeverity[x] : x \in statuses}
  <1>1. \A x \in LinkStatuses : LinkSeverity[x] \in 0 .. 6
    BY DEF LinkSeverity, LinkStatuses
  <1>2. severities \subseteq 0 .. 6 /\ severities # {}
    BY <1>1
  <1>3. PICK top \in severities : \A k \in severities : k =< top
    <2> HIDE DEF severities
    <2> QED  BY <1>2, LargestMember
  <1>4. PICK x \in statuses : top = LinkSeverity[x]
    OBVIOUS
  <1>5. \A y \in statuses : LinkSeverity[x] >= LinkSeverity[y]
    <2> SUFFICES ASSUME NEW y \in statuses PROVE LinkSeverity[x] >= LinkSeverity[y]
      OBVIOUS
    <2>1. LinkSeverity[y] \in severities
      OBVIOUS
    <2>2. LinkSeverity[y] \in 0 .. 6 /\ LinkSeverity[x] \in 0 .. 6
      BY <1>1
    <2> HIDE DEF severities
    <2> QED  BY <1>3, <1>4, <2>1, <2>2
  <1> QED  BY <1>5 DEF WorstLink

\* A link that is usable, in what its record, its ends and its domain say, and a
\* route that is.
LinkFine(s, m, domains, link) ==
    /\ LinkSound(s, domains, link) /\ LinkPair(link) \subseteq m.usable
    /\ link.oper # "degraded"
    /\ \A r \in LinkPair(link) : s.members[r].health # "impaired"
    /\ link.domain \in DOMAIN s.domains => domains[link.domain].status \notin {"degraded", "incomplete"}
RouteFit(s, m, route) ==
    RouteSound(s, route) /\ \A i \in DOMAIN route.path : route.path[i] \in m.usable

\* What is said of a link: the first rule that applies, which carries only when the
\* link's own evidence is in order and both its ends are fit.
LEMMA LinkVerdict ==
    ASSUME NEW s, NEW m, m.usable \subseteq m.established, m.established \subseteq Composed(m),
           NEW domains, NEW link
    PROVE  LET said == classify_link(s, m, domains, link)
           IN  /\ said.status \in LinkStatuses
               /\ said.status \in Carrying <=>
                     LinkSound(s, domains, link) /\ LinkPair(link) \subseteq m.usable
               /\ said.status = "usable" <=> LinkFine(s, m, domains, link)
               /\ said.resource = link.resource
               /\ said.capacity = IF said.status \in Carrying THEN link.capacity ELSE 0
  <1> DEFINE said  == classify_link(s, m, domains, link)
             ends  == {link.ends[1], link.ends[2]}
             moved == \E i \in 1 .. 2 : link.generations[i] # s.members[link.ends[i]].generation
             sick  == \E r \in ends : s.members[r].health = "impaired"
             fresh == Fresh(link.observed, s.at)
             cites == link.route # 0
             known == link.route \in DOMAIN s.routes
             gone  == RouteGone(s, link.route)
             calm  == RouteSettled(s, link.route)
             Domain(statuses) == /\ link.domain \in DOMAIN s.domains
                                 /\ domains[link.domain].status \in statuses
             split == Domain({"conflicting"})
             worse == Domain({"degraded", "incomplete"})
             status ==
                IF ~(ends \subseteq Composed(m)) THEN "indeterminate"
                ELSE IF ~(ends \subseteq m.established) THEN "blocked"
                ELSE IF ~(ends \subseteq m.usable) THEN "blocked"
                ELSE IF link.admin # "enabled" THEN "blocked"
                ELSE IF link.oper = "down" THEN "blocked"
                ELSE IF link.oper = "unknown" THEN "indeterminate"
                ELSE IF moved THEN "stale"
                ELSE IF ~fresh THEN "stale"
                ELSE IF cites /\ ~known THEN "indeterminate"
                ELSE IF cites /\ gone THEN "blocked"
                ELSE IF cites /\ ~calm THEN "indeterminate"
                ELSE IF split THEN "conflicting"
                ELSE IF worse THEN "degraded"
                ELSE IF link.oper = "degraded" \/ sick THEN "degraded"
                ELSE "usable"
             sound == /\ link.admin = "enabled" /\ link.oper \notin {"down", "unknown"} /\ fresh
                      /\ ~moved /\ (~cites \/ (known /\ calm)) /\ ~split
  <1>1. said.status = status
    BY DEF classify_link, Outcome
  <1>2. /\ said.resource = link.resource
        /\ said.capacity = IF said.status \in Carrying THEN link.capacity ELSE 0
    BY DEF classify_link, Outcome, Carrying
  <1>3. LinkSound(s, domains, link) <=> sound
    BY DEF LinkSound
  <1>4. calm => ~gone
    BY DEF RouteGone, RouteSettled
  <1>5. worse <=> /\ link.domain \in DOMAIN s.domains
                  /\ domains[link.domain].status \in {"degraded", "incomplete"}
    OBVIOUS
  <1>6. /\ ends \subseteq m.usable => ends \subseteq m.established
        /\ ends \subseteq m.established => ends \subseteq Composed(m)
    OBVIOUS
  <1>7. sick <=> ~\A r \in ends : s.members[r].health # "impaired"
    OBVIOUS
  <1> HIDE DEF said, ends, moved, sick, fresh, cites, known, gone, calm, split, worse
  <1>8. /\ said.status \in LinkStatuses
        /\ said.status \in Carrying <=> sound /\ ends \subseteq m.usable
        /\ said.status = "usable" <=> /\ sound /\ ends \subseteq m.usable
                                      /\ link.oper # "degraded" /\ ~sick /\ ~worse
    BY <1>1, <1>4, <1>6 DEF LinkStatuses, Carrying
  <1> HIDE DEF sound, status
  <1>9. /\ said.status \in Carrying <=> LinkSound(s, domains, link) /\ ends \subseteq m.usable
        /\ said.status = "usable" <=>
              /\ LinkSound(s, domains, link) /\ ends \subseteq m.usable
              /\ link.oper # "degraded" /\ (\A r \in ends : s.members[r].health # "impaired")
              /\ ~worse
    BY <1>3, <1>7, <1>8
  <1>10. LinkPair(link) = ends
    BY DEF LinkPair, ends
  <1>11. said.status = "usable" <=> LinkFine(s, m, domains, link)
    BY <1>5, <1>9, <1>10 DEF LinkFine
  <1> QED  BY <1>2, <1>8, <1>9, <1>10, <1>11 DEF said

\* What is said of a route: it is never degraded, and usable only when its own
\* evidence is in order and every rack on its path is fit.
LEMMA RouteVerdict ==
    ASSUME NEW s, NEW m, NEW q
    PROVE  LET said  == classify_route(s, m, q)
               route == s.routes[q]
               fit   == RouteSound(s, route) /\ \A i \in DOMAIN route.path : route.path[i] \in m.usable
           IN  /\ said.status \in LinkStatuses
               /\ said.status \in Carrying <=> fit
               /\ said.status = "usable" <=> fit
               /\ said.resource = route.resource
               /\ said.capacity = IF said.status \in Carrying THEN route.capacity ELSE 0
  <1> DEFINE said  == classify_route(s, m, q)
             route == s.routes[q]
             fresh == Fresh(route.observed, s.at)
             gone  == RouteGone(s, q)
             calm  == RouteSettled(s, q)
             Current(i) == route.generations[i] = s.members[route.path[i]].generation
             amiss == {i \in DOMAIN route.path : ~(route.path[i] \in m.usable /\ Current(i))}
             sound == /\ calm /\ fresh /\ amiss = {}
  <1>1. /\ said.resource = route.resource
        /\ said.capacity = IF said.status \in Carrying THEN route.capacity ELSE 0
    BY DEF classify_route, Outcome, Carrying
  <1>2. calm => ~gone
    BY DEF RouteGone, RouteSettled
  <1>3. said.status \in {"blocked", "indeterminate", "stale", "usable"}
    BY DEF classify_route, Outcome
  <1>4. said.status = "usable" <=> ~gone /\ calm /\ fresh /\ amiss = {}
    BY DEF classify_route, Outcome
  <1>5. sound <=> /\ RouteSound(s, route)
                  /\ \A i \in DOMAIN route.path : route.path[i] \in m.usable
    BY DEF RouteSound, RouteSettled
  <1> HIDE DEF said, sound, fresh, gone, calm, amiss
  <1>6. said.status \in LinkStatuses /\ (said.status \in Carrying <=> said.status = "usable")
    BY <1>3 DEF LinkStatuses, Carrying
  <1>7. said.status = "usable" <=> sound
    BY <1>2, <1>4 DEF sound
  <1> QED  BY <1>1, <1>5, <1>6, <1>7 DEF said

\* The first route with the largest capacity exists: routes are listed in an order.
LEMMA BestIsOne ==
    ASSUME NEW routes, NEW order, NEW limit \in Nat,
           DOMAIN routes # {}, DOMAIN order \subseteq Nat, DOMAIN routes \subseteq Range(order),
           \A q \in DOMAIN routes : routes[q].capacity \in 0 .. limit
    PROVE  /\ BestRoute(order, routes) \in DOMAIN routes
           /\ \A q \in DOMAIN routes : routes[BestRoute(order, routes)].capacity >= routes[q].capacity
  <1> DEFINE Q       == DOMAIN routes
             offers  == {routes[q].capacity : q \in Q}
             Best(b) == \A q \in Q :
                           \/ routes[b].capacity > routes[q].capacity
                           \/ /\ routes[b].capacity = routes[q].capacity
                              /\ Position(order, b) =< Position(order, q)
  <1>1. PICK most \in offers : \A k \in offers : k =< most
    <2>1. offers \subseteq 0 .. limit /\ offers # {}
      OBVIOUS
    <2> HIDE DEF offers
    <2> QED  BY <2>1, LargestMember
  <1> DEFINE first == {q \in Q : routes[q].capacity = most}
             places == {Position(order, q) : q \in first}
  <1>2. \A q \in Q : Position(order, q) \in Nat
    BY DEF Position, Range
  <1>3. PICK place \in places : \A k \in places : place =< k
    <2>1. places \subseteq Nat /\ places # {}
      BY <1>2
    <2> HIDE DEF places
    <2> QED  BY <2>1, SmallestMember
  <1>4. PICK b \in first : place = Position(order, b)
    OBVIOUS
  <1>5. Best(b)
    <2> SUFFICES ASSUME NEW q \in Q
                 PROVE  \/ routes[b].capacity > routes[q].capacity
                        \/ /\ routes[b].capacity = routes[q].capacity
                           /\ Position(order, b) =< Position(order, q)
      OBVIOUS
    <2>1. routes[q].capacity =< most /\ routes[q].capacity \in Nat /\ most \in Nat
      BY <1>1
    <2>2. CASE routes[q].capacity = most
      <3>1. Position(order, q) \in places
        BY <2>2
      <3> HIDE DEF places
      <3> QED  BY <1>3, <1>4, <2>2, <3>1
    <2>3. CASE routes[q].capacity # most
      BY <1>4, <2>1, <2>3
    <2> QED  BY <2>2, <2>3
  <1>6. BestRoute(order, routes) = CHOOSE x \in Q : Best(x)
    BY DEF BestRoute
  <1>7. BestRoute(order, routes) \in Q /\ Best(BestRoute(order, routes))
    <2> HIDE DEF Best, Q
    <2>1. b \in Q
      BY <1>4 DEF Q
    <2> QED  BY <1>5, <1>6, <2>1
  <1> QED
    <2> DEFINE best == BestRoute(order, routes)
    <2> HIDE DEF best
    <2>1. best \in Q /\ Best(best)
      BY <1>7 DEF best
    <2>2. \A q \in Q : routes[best].capacity >= routes[q].capacity
      <3> SUFFICES ASSUME NEW q \in Q PROVE routes[best].capacity >= routes[q].capacity
        OBVIOUS
      <3>1. routes[best].capacity \in Nat /\ routes[q].capacity \in Nat
        BY <2>1
      <3> QED  BY <2>1, <3>1
    <2> QED  BY <2>1, <2>2 DEF best

\* What a pair is judged on: what is said of its links and of its routes.
LinksSaid(s, m, domains, pair) ==
    [l \in PairLinks(s, pair) |-> classify_link(s, m, domains, s.links[l])]
RoutesSaid(s, m, pair) == [q \in PairRoutes(s, pair) |-> classify_route(s, m, q)]
Statuses(links, routes) ==
    {links[l].status : l \in DOMAIN links} \cup {routes[q].status : q \in DOMAIN routes}
Routed(order, routes) == IF routes = <<>> THEN 0 ELSE routes[BestRoute(order, routes)].capacity
Classes(order, links, routes) ==
    {links[l].resource : l \in {x \in DOMAIN links : links[x].capacity > 0}}
    \cup When(Routed(order, routes) > 0, routes[BestRoute(order, routes)].resource)

\* Of one resource class, a pair carries what one of its links or routes does, and
\* is in order when all of them are.
LEMMA UnmixedPair ==
    ASSUME NEW order, NEW links, NEW routes, Statuses(links, routes) \subseteq LinkStatuses,
           ~(Cardinality(Classes(order, links, routes)) > 1)
    PROVE  LET said == Judged(order, links, routes)
           IN  /\ said.status \in Carrying <=> Statuses(links, routes) \cap Carrying # {}
               /\ said.status = "usable" <=> Statuses(links, routes) = {"usable"}
  <1> DEFINE said     == Judged(order, links, routes)
             statuses == Statuses(links, routes)
             mixed    == Cardinality(Classes(order, links, routes)) > 1
  <1>1. said.status = IF mixed THEN "conflicting"
                      ELSE IF statuses = {"usable"} THEN "usable"
                      ELSE IF statuses \cap Carrying # {} THEN "degraded"
                      ELSE IF statuses # {} THEN WorstLink(statuses)
                      ELSE "indeterminate"
    BY DEF Judged, Statuses, Classes, Routed, Carrying
  <1>2. statuses # {} => WorstLink(statuses) \in statuses
    BY WorstIsOne
  <1> HIDE DEF said, statuses, mixed
  <1>3. ~mixed
    BY DEF mixed
  <1>4. /\ said.status \in Carrying <=> statuses \cap Carrying # {}
        /\ said.status = "usable" <=> statuses = {"usable"}
    BY <1>1, <1>2, <1>3 DEF Carrying
  <1> QED  BY <1>4 DEF said, statuses

\* What Representable and validate() leave a pair's routes.
LEMMA RoutesAreListed ==
    ASSUME NEW s, NEW m, NEW pair, Representable(s), ValidSnapshot(s)
    PROVE  LET routes == RoutesSaid(s, m, pair)
           IN  /\ DOMAIN routes = PairRoutes(s, pair)
               /\ DOMAIN routes \subseteq Range(s.order) /\ DOMAIN s.order \subseteq Nat
               /\ \A q \in DOMAIN routes :
                     /\ routes[q] = classify_route(s, m, q)
                     /\ routes[q].capacity \in 0 .. MaxCapacityAmount
               /\ DOMAIN routes = {} => routes = <<>>
  <1> DEFINE routes == RoutesSaid(s, m, pair)
  <1>1. DOMAIN routes = PairRoutes(s, pair) /\ PairRoutes(s, pair) \subseteq DOMAIN s.routes
    BY DEF RoutesSaid, PairRoutes
  <1>2. s.order \in Seq(DOMAIN s.routes) /\ DOMAIN s.routes \subseteq Range(s.order)
    BY DEF Representable
  <1>3. DOMAIN s.order \subseteq Nat
    BY <1>2
  <1>4. ASSUME NEW q \in PairRoutes(s, pair)
        PROVE  routes[q] = classify_route(s, m, q) /\ routes[q].capacity \in 0 .. MaxCapacityAmount
    <2>1. routes[q] = classify_route(s, m, q)
      BY DEF RoutesSaid
    <2>2. s.routes[q].capacity \in Nat /\ s.routes[q].capacity =< MaxCapacityAmount
      BY <1>1 DEF Representable, Carried, Range, ValidSnapshot, ValidRoute
    <2>3. MaxCapacityAmount \in Nat
      BY VerdictsAssumption
    <2>4. classify_route(s, m, q).capacity \in {0, s.routes[q].capacity}
      BY RouteVerdict
    <2> QED  BY <2>1, <2>2, <2>3, <2>4
  <1>5. DOMAIN routes = {} => routes = <<>>
    BY DEF RoutesSaid
  <1> QED  BY <1>1, <1>2, <1>3, <1>4, <1>5

LEMMA OneClassIsUnmixed ==
    ASSUME NEW s, NEW m, m.usable \subseteq m.established, m.established \subseteq Composed(m),
           NEW domains, NEW pair, Representable(s), ValidSnapshot(s),
           Cardinality(ResourceClasses(s)) =< 1
    PROVE  ~(Cardinality(Classes(s.order, LinksSaid(s, m, domains, pair), RoutesSaid(s, m, pair))) > 1)
  <1> DEFINE links  == LinksSaid(s, m, domains, pair)
             routes == RoutesSaid(s, m, pair)
             best   == BestRoute(s.order, routes)
  <1>1. \A l \in DOMAIN links : links[l].resource \in ResourceClasses(s)
    <2> SUFFICES ASSUME NEW l \in PairLinks(s, pair)
                 PROVE  links[l].resource \in ResourceClasses(s)
      BY DEF LinksSaid
    <2>1. links[l] = classify_link(s, m, domains, s.links[l]) /\ l \in DOMAIN s.links
      BY DEF LinksSaid, PairLinks
    <2>2. classify_link(s, m, domains, s.links[l]).resource = s.links[l].resource
      BY DEF classify_link, Outcome
    <2> QED  BY <2>1, <2>2 DEF ResourceClasses, Carried, Range
  <1>2. Routed(s.order, routes) > 0 => routes[best].resource \in ResourceClasses(s)
    <2> SUFFICES ASSUME Routed(s.order, routes) > 0
                 PROVE  routes[best].resource \in ResourceClasses(s)
      OBVIOUS
    <2>1. routes # <<>>
      BY DEF Routed
    <2>2. DOMAIN routes # {}
      BY <2>1, RoutesAreListed
    <2>3. MaxCapacityAmount \in Nat
      BY VerdictsAssumption
    <2>4. best \in PairRoutes(s, pair) /\ routes[best] = classify_route(s, m, best)
      <3>1. /\ DOMAIN routes \subseteq Range(s.order) /\ DOMAIN s.order \subseteq Nat
            /\ \A q \in DOMAIN routes : routes[q].capacity \in 0 .. MaxCapacityAmount
        BY RoutesAreListed
      <3>2. best \in DOMAIN routes
        <4> DEFINE order == s.order
        <4>1. /\ DOMAIN routes # {} /\ DOMAIN order \subseteq Nat /\ DOMAIN routes \subseteq Range(order)
              /\ \A q \in DOMAIN routes : routes[q].capacity \in 0 .. MaxCapacityAmount
              /\ best = BestRoute(order, routes)
          BY <2>2, <3>1
        <4> HIDE DEF best, routes, order
        <4> QED  BY <2>3, <4>1, BestIsOne
      <3> QED  BY <3>2, RoutesAreListed
    <2>5. routes[best].resource = s.routes[best].resource
      BY <2>4, RouteVerdict
    <2> HIDE DEF best, routes
    <2>6. best \in DOMAIN s.routes
      BY <2>4 DEF PairRoutes
    <2> QED  BY <2>5, <2>6 DEF ResourceClasses, Carried, Range
  <1>3. Classes(s.order, links, routes) \subseteq ResourceClasses(s)
    <2> HIDE DEF links, routes
    <2> QED  BY <1>1, <1>2 DEF Classes, When
  <1>4. IsFiniteSet(ResourceClasses(s))
    BY DEF Representable
  <1> HIDE DEF links, routes
  <1>5. /\ Cardinality(Classes(s.order, links, routes)) =< Cardinality(ResourceClasses(s))
        /\ Cardinality(ResourceClasses(s)) \in Nat
        /\ Cardinality(Classes(s.order, links, routes)) \in Nat
    BY <1>3, <1>4, FS_Subset, FS_CardinalityType
  <1> QED  BY <1>5 DEF links, routes

\* Of one resource class, a pair carries traffic when a sound link between fit racks
\* or a fit route joins it, and is usable when nothing said of it is amiss besides.
LEMMA PairInWords ==
    ASSUME NEW s, NEW m, m.usable \subseteq m.established, m.established \subseteq Composed(m),
           NEW domains, NEW pair, Representable(s), ValidSnapshot(s),
           Cardinality(ResourceClasses(s)) =< 1
    PROVE  LET said     == PairVerdict(s, m, domains, pair)
               carrying == \/ \E l \in PairLinks(s, pair) :
                                 LinkSound(s, domains, s.links[l]) /\ pair \subseteq m.usable
                           \/ \E q \in PairRoutes(s, pair) : RouteFit(s, m, s.routes[q])
           IN  /\ said.status \in Carrying <=> carrying
               /\ said.status = "usable" <=>
                     /\ carrying
                     /\ \A l \in PairLinks(s, pair) : LinkFine(s, m, domains, s.links[l])
                     /\ \A q \in PairRoutes(s, pair) : RouteFit(s, m, s.routes[q])
  <1> DEFINE said   == PairVerdict(s, m, domains, pair)
             links  == LinksSaid(s, m, domains, pair)
             routes == RoutesSaid(s, m, pair)
             L      == PairLinks(s, pair)
             Q      == PairRoutes(s, pair)
  <1>1. said = Judged(s.order, links, routes)
    BY DEF PairVerdict, LinksSaid, RoutesSaid
  <1>2. DOMAIN links = L /\ DOMAIN routes = Q
    BY DEF LinksSaid, RoutesSaid
  <1>3. ASSUME NEW l \in L
        PROVE  /\ links[l].status \in LinkStatuses
               /\ links[l].status \in Carrying <=>
                     LinkSound(s, domains, s.links[l]) /\ pair \subseteq m.usable
               /\ links[l].status = "usable" <=> LinkFine(s, m, domains, s.links[l])
    <2> DEFINE link == s.links[l]
    <2>1. links[l] = classify_link(s, m, domains, link)
      BY DEF LinksSaid
    <2>2. LinkPair(link) = pair
      BY DEF PairLinks
    <2> HIDE DEF link, links
    <2>3. /\ links[l].status \in LinkStatuses
          /\ links[l].status \in Carrying <=>
                LinkSound(s, domains, link) /\ LinkPair(link) \subseteq m.usable
          /\ links[l].status = "usable" <=> LinkFine(s, m, domains, link)
      BY <2>1, LinkVerdict
    <2> QED  BY <2>2, <2>3 DEF link
  <1>4. ASSUME NEW q \in Q
        PROVE  /\ routes[q].status \in LinkStatuses
               /\ routes[q].status \in Carrying <=> RouteFit(s, m, s.routes[q])
               /\ routes[q].status = "usable" <=> RouteFit(s, m, s.routes[q])
    <2>1. routes[q] = classify_route(s, m, q)
      BY DEF RoutesSaid
    <2> HIDE DEF routes
    <2> QED  BY <2>1, RouteVerdict DEF RouteFit
  <1>5. ~(Cardinality(Classes(s.order, links, routes)) > 1)
    BY OneClassIsUnmixed
  <1> HIDE DEF said, links, routes, L, Q
  <1>6. Statuses(links, routes) \subseteq LinkStatuses
    BY <1>2, <1>3, <1>4 DEF Statuses
  <1>7. /\ said.status \in Carrying <=> Statuses(links, routes) \cap Carrying # {}
        /\ said.status = "usable" <=> Statuses(links, routes) = {"usable"}
    BY <1>1, <1>5, <1>6, UnmixedPair
  <1>8. Statuses(links, routes) \cap Carrying # {} <=>
            \/ \E l \in L : LinkSound(s, domains, s.links[l]) /\ pair \subseteq m.usable
            \/ \E q \in Q : RouteFit(s, m, s.routes[q])
    BY <1>2, <1>3, <1>4 DEF Statuses
  <1>9. Statuses(links, routes) = {"usable"} <=>
            /\ Statuses(links, routes) \cap Carrying # {}
            /\ \A l \in L : LinkFine(s, m, domains, s.links[l])
            /\ \A q \in Q : RouteFit(s, m, s.routes[q])
    <2>1. (\A x \in Statuses(links, routes) : x = "usable") <=>
              /\ \A l \in L : LinkFine(s, m, domains, s.links[l])
              /\ \A q \in Q : RouteFit(s, m, s.routes[q])
      BY <1>2, <1>3, <1>4 DEF Statuses
    <2>2. Statuses(links, routes) = {"usable"} <=>
              /\ Statuses(links, routes) \cap Carrying # {}
              /\ \A x \in Statuses(links, routes) : x = "usable"
      BY DEF Carrying
    <2> QED  BY <2>1, <2>2
  <1> QED  BY <1>7, <1>8, <1>9 DEF said, L, Q

-----------------------------------------------------------------------------
\* The racks, the pairs and the epoch that Composition makes of a summary are those
\* of the round.
Agree(s, known, m, E) ==
    /\ m.established = Established(E, known) /\ m.usable = Reachable(E, known)
    /\ m.usable \subseteq m.established /\ m.established \subseteq Composed(m)
    /\ m.established \subseteq Racks /\ Composed(m) \subseteq Racks
    /\ \A r \in Racks :
          /\ r \in Composed(m) <=> MemberStatus(E.reports[r], known[r]) # "unknown"
          /\ r \in m.established <=> MemberStatus(E.reports[r], known[r]) = "established"
          /\ E.reports[r].admin = s.members[r].admin
          /\ E.reports[r].health = s.members[r].health
    /\ Covered(E, known) = PairsOf(s, m)
    /\ Adopts([reports |-> Sightings(s)], known) = Adopts(E, known)

LEMMA SummaryAgrees ==
    ASSUME NEW s, NEW known, NEW p, NEW m, m = Members(s, known), NEW E, E = Summary(s, p)
    PROVE  Agree(s, known, m, E)
  <1> DEFINE F == [reports |-> Sightings(s)]
  <1>1. E.reports = Sightings(s) /\ F.reports = Sightings(s)
    BY DEF Summary
  <1>2. Established(F, known) = Established(E, known) /\ Reachable(F, known) = Reachable(E, known)
    BY <1>1 DEF Established, Reachable
  <1>3. Adopts(F, known) = Adopts(E, known)
    BY <1>1, <1>2 DEF Adopts
  <1>4. /\ m.established = Established(E, known) /\ m.usable = Reachable(E, known)
        /\ \A r \in Racks : m.status[r] = MemberStatus(E.reports[r], known[r])
    BY <1>1, <1>2 DEF Members
  <1>5. \A r \in Racks : /\ E.reports[r].admin = s.members[r].admin
                         /\ E.reports[r].health = s.members[r].health
    BY <1>1 DEF Sightings
  <1>6. /\ E.up \cup E.down = {LinkPair(l) : l \in Range(s.links)}
        /\ UNION {RoutePairs(route) : route \in E.routes}
               = UNION {RoutePairs(s.routes[q]) : q \in DOMAIN s.routes}
    <2>1. E.up \cup E.down = {LinkPair(l) : l \in Range(s.links)}
      BY DEF Summary
    <2> DEFINE Brief(q) == [path |-> s.routes[q].path, works |-> RouteSound(s, s.routes[q])]
    <2>2. \A q \in DOMAIN s.routes : RoutePairs(Brief(q)) = RoutePairs(s.routes[q])
      BY DEF RoutePairs
    <2>3. E.routes = {Brief(q) : q \in DOMAIN s.routes}
      BY DEF Summary, Range
    <2> HIDE DEF Brief
    <2>4. ASSUME NEW x
          PROVE  (\E route \in E.routes : x \in RoutePairs(route))
                     <=> \E q \in DOMAIN s.routes : x \in RoutePairs(s.routes[q])
      BY <2>2, <2>3
    <2>5. UNION {RoutePairs(route) : route \in E.routes}
              = UNION {RoutePairs(s.routes[q]) : q \in DOMAIN s.routes}
      BY <2>4
    <2> QED  BY <2>1, <2>5
  <1>7. {LinkPair(l) : l \in Range(s.links)} = {LinkPair(s.links[l]) : l \in DOMAIN s.links}
    BY DEF Range
  <1> HIDE DEF F
  <1>8. Covered(E, known) = PairsOf(s, m)
    BY <1>4, <1>6, <1>7 DEF Covered, PairsOf
  <1>9. /\ m.usable \subseteq m.established /\ m.established \subseteq Racks
        /\ m.established = {r \in Racks : MemberStatus(E.reports[r], known[r]) = "established"}
    BY <1>4 DEF Established, Reachable
  <1>10. Composed(m) = {r \in Racks : MemberStatus(E.reports[r], known[r]) # "unknown"}
    BY <1>4 DEF Composed
  <1>11. m.established \subseteq Composed(m)
    BY <1>9, <1>10
  <1> QED  BY <1>3, <1>4, <1>5, <1>8, <1>9, <1>10, <1>11 DEF Agree, F

\* Where policy asks for every pair of members, two of them make a pair.
LEMMA TwoMakeAPair ==
    ASSUME NEW S, Cardinality(S) >= 2, S \subseteq Racks
    PROVE  \E pair \in Pairs : pair \subseteq S
  <1>1. S # {}
    BY FS_EmptySet
  <1>2. PICK a \in S : TRUE
    BY <1>1
  <1>3. S # {a}
    BY FS_Singleton
  <1>4. PICK b \in S : b # a
    BY <1>2, <1>3
  <1>5. Cardinality({a, b}) = 2
    <2>1. IsFiniteSet({a}) /\ Cardinality({a}) = 1
      BY FS_Singleton
    <2>2. Cardinality({a} \cup {b}) = Cardinality({a}) + 1
      BY <1>4, <2>1, FS_AddElement
    <2>3. {a} \cup {b} = {a, b}
      OBVIOUS
    <2> QED  BY <2>1, <2>2, <2>3
  <1>6. {a, b} \in Pairs
    BY <1>2, <1>4, <1>5 DEF Pairs
  <1> QED  BY <1>2, <1>4, <1>6

\* What carries traffic between a pair, in words of the snapshot.
Carries(s, m, domains, pair) ==
    \/ \E l \in PairLinks(s, pair) : LinkSound(s, domains, s.links[l]) /\ pair \subseteq m.usable
    \/ \E q \in PairRoutes(s, pair) : RouteFit(s, m, s.routes[q])

\* A route of the summary, and the routes and links it was made from.
LEMMA SummaryRecords ==
    ASSUME NEW s, NEW m, NEW p
    PROVE  LET E == Summary(s, p)
               Brief(q) == [path |-> s.routes[q].path, works |-> RouteSound(s, s.routes[q])]
           IN  /\ E.routes = {Brief(q) : q \in DOMAIN s.routes}
               /\ \A q \in DOMAIN s.routes :
                     /\ RoutePairs(Brief(q)) = RoutePairs(s.routes[q])
                     /\ RouteUsable(Brief(q), m.usable) <=> RouteFit(s, m, s.routes[q])
               /\ \A pair : pair \in E.up <=>
                     \E l \in PairLinks(s, pair) : LinkSound(s, p.domains, s.links[l])
               /\ \A pair : pair \in E.down <=>
                     \E l \in PairLinks(s, pair) : ~LinkSound(s, p.domains, s.links[l])
  <1> DEFINE E == Summary(s, p)
             Brief(q) == [path |-> s.routes[q].path, works |-> RouteSound(s, s.routes[q])]
  <1>1. E.routes = {Brief(q) : q \in DOMAIN s.routes}
    BY DEF Summary, Range
  <1>2. ASSUME NEW q \in DOMAIN s.routes
        PROVE  /\ RoutePairs(Brief(q)) = RoutePairs(s.routes[q])
               /\ RouteUsable(Brief(q), m.usable) <=> RouteFit(s, m, s.routes[q])
    <2>1. RoutePairs(Brief(q)) = RoutePairs(s.routes[q])
      BY DEF RoutePairs
    <2>2. RouteUsable(Brief(q), m.usable) <=>
             /\ RouteSound(s, s.routes[q])
             /\ {s.routes[q].path[i] : i \in DOMAIN s.routes[q].path} \subseteq m.usable
      BY DEF RouteUsable
    <2> QED  BY <2>1, <2>2 DEF RouteFit
  <1>3. ASSUME NEW pair
        PROVE  /\ pair \in E.up <=> \E l \in PairLinks(s, pair) : LinkSound(s, p.domains, s.links[l])
               /\ pair \in E.down <=> \E l \in PairLinks(s, pair) : ~LinkSound(s, p.domains, s.links[l])
    <2>1. /\ E.up = {LinkPair(l) : l \in {x \in Range(s.links) : LinkSound(s, p.domains, x)}}
          /\ E.down = {LinkPair(l) : l \in {x \in Range(s.links) : ~LinkSound(s, p.domains, x)}}
      BY DEF Summary
    <2> HIDE DEF E
    <2> QED  BY <2>1 DEF Range, PairLinks
  <1> HIDE DEF E, Brief
  <1>4. /\ E.routes = {Brief(q) : q \in DOMAIN s.routes}
        /\ \A q \in DOMAIN s.routes :
              /\ RoutePairs(Brief(q)) = RoutePairs(s.routes[q])
              /\ RouteUsable(Brief(q), m.usable) <=> RouteFit(s, m, s.routes[q])
        /\ \A pair : pair \in E.up <=>
              \E l \in PairLinks(s, pair) : LinkSound(s, p.domains, s.links[l])
        /\ \A pair : pair \in E.down <=>
              \E l \in PairLinks(s, pair) : ~LinkSound(s, p.domains, s.links[l])
    BY <1>1, <1>2, <1>3
  <1> QED  BY <1>4 DEF E, Brief

LEMMA ConnectedAgrees ==
    ASSUME NEW s, NEW known, NEW p, NEW pair
    PROVE  LET m == Members(s, known)
           IN  pair \in Connected(Summary(s, p), known) <=> Carries(s, m, p.domains, pair)
  <1> DEFINE m == Members(s, known)
             E == Summary(s, p)
             Brief(q) == [path |-> s.routes[q].path, works |-> RouteSound(s, s.routes[q])]
  <1>1. m.usable = Reachable(E, known)
    BY DEF Members, Summary, Established, Reachable
  <1>2. /\ E.routes = {Brief(q) : q \in DOMAIN s.routes}
        /\ \A q \in DOMAIN s.routes :
              /\ RoutePairs(Brief(q)) = RoutePairs(s.routes[q])
              /\ RouteUsable(Brief(q), m.usable) <=> RouteFit(s, m, s.routes[q])
        /\ \A x : x \in E.up <=> \E l \in PairLinks(s, x) : LinkSound(s, p.domains, s.links[l])
    <2> HIDE DEF m
    <2> QED  BY SummaryRecords, Zenon
  <1> HIDE DEF m, E, Brief
  <1>3. pair \in Connected(E, known) <=>
            \/ pair \in E.up /\ pair \subseteq m.usable
            \/ \E route \in E.routes : RouteUsable(route, m.usable) /\ pair \in RoutePairs(route)
    BY <1>1 DEF Connected
  <1>4. (\E route \in E.routes : RouteUsable(route, m.usable) /\ pair \in RoutePairs(route))
            <=> \E q \in PairRoutes(s, pair) : RouteFit(s, m, s.routes[q])
    BY <1>2 DEF PairRoutes
  <1> QED  BY <1>2, <1>3, <1>4 DEF Carries, m, E

\* has_degradation() finds something wrong with the verdicts of a round when it does
\* with their summary: every link and route that is not usable shows in both.
LEMMA DegradationAgrees ==
    ASSUME NEW s, NEW known, NEW p, NEW m, m = Members(s, known),
           p.domains = Domains(s, m), p.connectivity = Connectivity(s, m, p.domains),
           Representable(s), ValidSnapshot(s), Cardinality(ResourceClasses(s)) =< 1
    PROVE  degraded(m, p.domains, p.capacity, p.connectivity, p.obligations)
               <=> has_degradation(Summary(s, p), known)
  <1> DEFINE E == Summary(s, p)
             Brief(q) == [path |-> s.routes[q].path, works |-> RouteSound(s, s.routes[q])]
             healthy == {r \in m.usable : s.members[r].health = "ok"}
             Usable(pair) == p.connectivity[pair].status = "usable"
             worse == degraded(m, p.domains, p.capacity, p.connectivity, p.obligations)
  <1>1. Agree(s, known, m, E)
    BY SummaryAgrees
  <1>2. /\ E.routes = {Brief(q) : q \in DOMAIN s.routes}
        /\ \A q \in DOMAIN s.routes :
              /\ RoutePairs(Brief(q)) = RoutePairs(s.routes[q])
              /\ RouteUsable(Brief(q), m.usable) <=> RouteFit(s, m, s.routes[q])
        /\ \A pair : pair \in E.up <=> \E l \in PairLinks(s, pair) : LinkSound(s, p.domains, s.links[l])
        /\ \A pair : pair \in E.down <=> \E l \in PairLinks(s, pair) : ~LinkSound(s, p.domains, s.links[l])
    BY SummaryRecords
  <1>3. DOMAIN p.connectivity = PairsOf(s, m)
    BY DEF Connectivity
  <1>4. ASSUME NEW pair \in PairsOf(s, m)
        PROVE  Usable(pair) <=>
                  /\ Carries(s, m, p.domains, pair)
                  /\ \A l \in PairLinks(s, pair) : LinkFine(s, m, p.domains, s.links[l])
                  /\ \A q \in PairRoutes(s, pair) : RouteFit(s, m, s.routes[q])
    <2>1. p.connectivity[pair] = PairVerdict(s, m, p.domains, pair)
      BY DEF Connectivity
    <2> HIDE DEF E
    <2> QED  BY <1>1, <2>1, PairInWords DEF Agree, Carries
  <1>5. \A pair : pair \in Connected(E, known) <=> Carries(s, m, p.domains, pair)
    BY ConnectedAgrees
  <1>6. \A l \in DOMAIN s.links : LinkPair(s.links[l]) \in PairsOf(s, m) /\ l \in PairLinks(s, LinkPair(s.links[l]))
    BY DEF PairsOf, PairLinks
  <1>7. \A q \in DOMAIN s.routes : \A pair \in RoutePairs(s.routes[q]) :
           pair \in PairsOf(s, m) /\ q \in PairRoutes(s, pair)
    BY DEF PairsOf, PairRoutes
  <1>8. \A pair : Carries(s, m, p.domains, pair) => pair \in PairsOf(s, m)
    BY DEF Carries, PairsOf, PairLinks, PairRoutes
  <1>9. \A d \in DOMAIN s.domains : d \in DOMAIN p.domains
    BY DEF Domains, AllDomains
  <1>10. E.impaired <=> \/ \E d \in DOMAIN p.domains : p.domains[d].status # "ok"
                        \/ \E x \in DOMAIN p.capacity : ~capacity_is_usable(p.capacity[x].status)
                        \/ \E o \in DOMAIN p.obligations : p.obligations[o].status # "satisfied"
                        \/ \E l \in Range(s.links) :
                              \/ l.oper = "degraded"
                              \/ l.domain \in DOMAIN s.domains /\ p.domains[l.domain].status # "ok"
    BY DEF Summary
  <1>11. \A r \in m.usable : s.members[r].health \in {"ok", "impaired"}
    BY <1>1 DEF Agree, Reachable, Established
  <1> HIDE DEF E, Brief, Usable
  <1>12. has_degradation(E, known) <=>
             \/ E.impaired \/ E.down # {}
             \/ \E pair \in E.up : ~(pair \subseteq healthy)
             \/ \E route \in E.routes : RoutePairs(route) # {} /\ ~RouteUsable(route, m.usable)
             \/ Covered(E, known) # Connected(E, known)
             \/ \E r \in Racks : MemberStatus(E.reports[r], known[r]) \notin {"established", "unknown"}
    <2>1. {r \in Reachable(E, known) : E.reports[r].health = "ok"} = healthy
      BY <1>1 DEF Agree, Reachable, Established
    <2> QED  BY <1>1, <2>1 DEF Agree, has_degradation
  <1> HIDE DEF healthy
  <1>13. worse <=> \/ Composed(m) # m.established
                   \/ \E pair \in PairsOf(s, m) : ~Usable(pair)
                   \/ \E x \in DOMAIN p.capacity : ~capacity_is_usable(p.capacity[x].status)
                   \/ \E d \in DOMAIN p.domains : p.domains[d].status # "ok"
                   \/ \E o \in DOMAIN p.obligations : p.obligations[o].status # "satisfied"
    BY <1>3 DEF degraded, Usable
  <1> HIDE DEF worse
  <1>14. Composed(m) # m.established <=>
            \E r \in Racks : MemberStatus(E.reports[r], known[r]) \notin {"established", "unknown"}
    BY <1>1 DEF Agree
  <1>15. ASSUME has_degradation(E, known) PROVE worse
    <2>1. CASE E.down # {}
      <3>1. PICK l \in DOMAIN s.links : ~LinkSound(s, p.domains, s.links[l])
        BY <1>2, <2>1 DEF PairLinks
      <3>2. ~Usable(LinkPair(s.links[l]))
        BY <1>4, <1>6, <3>1 DEF LinkFine
      <3> QED  BY <1>6, <1>13, <3>2
    <2>2. ASSUME NEW pair \in E.up, ~(pair \subseteq healthy) PROVE worse
      <3>1. PICK l \in PairLinks(s, pair) : LinkSound(s, p.domains, s.links[l])
        BY <1>2
      <3>2. l \in DOMAIN s.links /\ LinkPair(s.links[l]) = pair
        BY DEF PairLinks
      <3>3. ~LinkFine(s, m, p.domains, s.links[l])
        BY <1>11, <2>2, <3>2 DEF LinkFine, healthy
      <3> QED  BY <1>4, <1>6, <1>13, <3>2, <3>3
    <2>3. ASSUME NEW route \in E.routes, RoutePairs(route) # {}, ~RouteUsable(route, m.usable)
          PROVE  worse
      <3>1. PICK q \in DOMAIN s.routes : RoutePairs(s.routes[q]) # {} /\ ~RouteFit(s, m, s.routes[q])
        BY <1>2, <2>3
      <3>2. PICK pair : pair \in RoutePairs(s.routes[q])
        BY <3>1
      <3> QED  BY <1>4, <1>7, <1>13, <3>1, <3>2
    <2>4. CASE Covered(E, known) # Connected(E, known)
      <3>1. PICK pair \in PairsOf(s, m) : ~Carries(s, m, p.domains, pair)
        BY <1>1, <1>5, <1>8, <2>4 DEF Agree
      <3> QED  BY <1>4, <1>13, <3>1
    <2>5. ASSUME NEW l \in Range(s.links), l.oper = "degraded" PROVE worse
      <3>1. PICK i \in DOMAIN s.links : l = s.links[i]
        BY DEF Range
      <3>2. ~LinkFine(s, m, p.domains, s.links[i])
        BY <2>5, <3>1 DEF LinkFine
      <3> QED  BY <1>4, <1>6, <1>13, <3>2
    <2>6. CASE E.impaired
      BY <1>9, <1>10, <1>13, <2>5, <2>6
    <2> QED  BY <1>12, <1>13, <1>14, <1>15, <2>1, <2>2, <2>3, <2>4, <2>6
  <1>16. ASSUME worse PROVE has_degradation(E, known)
    <2>1. ASSUME NEW pair \in PairsOf(s, m), ~Usable(pair) PROVE has_degradation(E, known)
      <3>1. CASE ~Carries(s, m, p.domains, pair)
        BY <1>1, <1>5, <1>12, <3>1 DEF Agree
      <3>2. ASSUME NEW l \in PairLinks(s, pair), ~LinkFine(s, m, p.domains, s.links[l])
            PROVE  has_degradation(E, known)
        <4> DEFINE link == s.links[l]
        <4>1. l \in DOMAIN s.links /\ LinkPair(link) = pair /\ link \in Range(s.links)
          BY DEF PairLinks, Range
        <4>2. CASE ~LinkSound(s, p.domains, link)
          BY <1>2, <1>12, <4>2
        <4>3. ASSUME LinkSound(s, p.domains, link),
                     ~(pair \subseteq m.usable) \/ \E r \in pair : s.members[r].health = "impaired"
              PROVE  has_degradation(E, known)
          <5>1. pair \in E.up
            BY <1>2, <4>3
          <5>2. ~(pair \subseteq healthy)
            BY <4>3 DEF healthy
          <5> QED  BY <1>12, <5>1, <5>2
        <4>4. CASE link.oper = "degraded"
          BY <1>10, <1>12, <4>1, <4>4
        <4>5. CASE /\ link.domain \in DOMAIN s.domains
                   /\ p.domains[link.domain].status \in {"degraded", "incomplete"}
          BY <1>10, <1>12, <4>1, <4>5
        <4> HIDE DEF link
        <4>6. ~LinkFine(s, m, p.domains, link)
          BY <3>2 DEF link
        <4> QED  BY <4>1, <4>2, <4>3, <4>4, <4>5, <4>6 DEF LinkFine
      <3>3. ASSUME NEW q \in PairRoutes(s, pair), ~RouteFit(s, m, s.routes[q])
            PROVE  has_degradation(E, known)
        <4>1. q \in DOMAIN s.routes /\ pair \in RoutePairs(s.routes[q])
          BY DEF PairRoutes
        <4>2. /\ Brief(q) \in E.routes /\ RoutePairs(Brief(q)) # {}
              /\ ~RouteUsable(Brief(q), m.usable)
          BY <1>2, <3>3, <4>1
        <4> QED  BY <1>12, <4>2
      <3> QED  BY <1>4, <2>1, <3>1, <3>2, <3>3
    <2> QED  BY <1>10, <1>12, <1>13, <1>14, <1>16, <2>1
  <1> QED  BY <1>15, <1>16 DEF worse, E
\* The lifecycle a round asks for is the one its summary asks for.
LEMMA DesiredAgrees ==
    ASSUME NEW s, NEW known, NEW p, NEW m, m = Members(s, known),
           p.domains = Domains(s, m), p.connectivity = Connectivity(s, m, p.domains),
           Representable(s), ValidSnapshot(s), Cardinality(ResourceClasses(s)) =< 1,
           NEW advanced \in BOOLEAN
    PROVE  LET asked == EvidenceLifecycle(Summary(s, p), known)
           IN  DesiredLifecycle(s, m, p.domains, p.capacity, p.connectivity, p.obligations, advanced)
                   = IF asked = "active" /\ advanced THEN "degraded" ELSE asked
  <1> DEFINE E       == Summary(s, p)
             several == Cardinality(m.established) >= 2
             few     == Cardinality(m.established) < MinEstablished
             joined  == \E pair \in DOMAIN p.connectivity :
                           p.connectivity[pair].status \in {"usable", "degraded"}
             admins  == {s.members[r].admin : r \in m.established}
             worse   == degraded(m, p.domains, p.capacity, p.connectivity, p.obligations)
             none    == p.connectivity = <<>>
             calm    == \A r \in m.established : E.reports[r].admin = "maintenance"
             moved   == \E r \in m.established : E.reports[r].admin # "enabled"
  <1>1. Agree(s, known, m, E)
    BY SummaryAgrees
  <1>2. worse <=> has_degradation(E, known)
    BY DegradationAgrees
  <1>3. DOMAIN p.connectivity = PairsOf(s, m) /\ (none <=> PairsOf(s, m) = {})
    BY DEF Connectivity
  <1>4. joined <=> Connected(E, known) # {}
    <2>1. ASSUME NEW pair \in PairsOf(s, m)
          PROVE  p.connectivity[pair].status \in Carrying <=> Carries(s, m, p.domains, pair)
      <3>1. p.connectivity[pair] = PairVerdict(s, m, p.domains, pair)
        BY DEF Connectivity
      <3> HIDE DEF E
      <3> QED  BY <1>1, <3>1, PairInWords DEF Agree, Carries
    <2>2. \A pair : pair \in Connected(E, known) <=> Carries(s, m, p.domains, pair)
      BY ConnectedAgrees
    <2>3. \A pair : Carries(s, m, p.domains, pair) => pair \in PairsOf(s, m)
      BY DEF Carries, PairsOf, PairLinks, PairRoutes
    <2> HIDE DEF E
    <2> QED  BY <1>3, <2>1, <2>2, <2>3 DEF Carrying
  <1>5. none /\ several => ~RequireFullCoverage
    <2> SUFFICES ASSUME none, several, RequireFullCoverage PROVE FALSE
      BY CompositionAssumption
    <2>1. PICK pair \in Pairs : pair \subseteq m.established
      BY <1>1, TwoMakeAPair DEF Agree
    <2> QED  BY <1>3, <2>1 DEF PairsOf
  <1>6. none <=> Covered(E, known) = {}
    BY <1>1, <1>3 DEF Agree
  <1>7. m.established # {} => /\ admins = {"maintenance"} <=> calm
                              /\ admins # {"enabled"} <=> moved
    <2>1. \A r \in m.established : E.reports[r].admin = s.members[r].admin
      BY <1>1 DEF Agree
    <2> HIDE DEF E
    <2>2. calm <=> \A x \in admins : x = "maintenance"
      BY <2>1
    <2>3. moved <=> \E x \in admins : x # "enabled"
      BY <2>1
    <2>4. m.established # {} => admins # {}
      OBVIOUS
    <2> HIDE DEF calm, moved, admins
    <2> QED  BY <2>2, <2>3, <2>4
  <1>8. EvidenceLifecycle(E, known) =
            IF several /\ none THEN "degraded"
            ELSE IF m.established = {} THEN "constructing"
            ELSE IF several /\ ~joined THEN "partitioned"
            ELSE IF calm THEN "maintenance"
            ELSE IF moved THEN "draining"
            ELSE IF worse \/ few THEN "degraded"
            ELSE "active"
    <2>1. m.established = Established(E, known)
      BY <1>1 DEF Agree
    <2> HIDE DEF E
    <2>2. EvidenceLifecycle(E, known) =
            IF several /\ Covered(E, known) = {} THEN "degraded"
            ELSE IF m.established = {} THEN "constructing"
            ELSE IF several /\ Connected(E, known) = {} THEN "partitioned"
            ELSE IF calm THEN "maintenance"
            ELSE IF moved THEN "draining"
            ELSE IF has_degradation(E, known) \/ few THEN "degraded"
            ELSE "active"
      BY <2>1 DEF EvidenceLifecycle
    <2> HIDE DEF several, few, joined, admins, worse, none, calm, moved
    <2> QED  BY <1>2, <1>4, <1>6, <2>2
  <1>9. DesiredLifecycle(s, m, p.domains, p.capacity, p.connectivity, p.obligations, advanced) =
            IF several /\ none /\ ~RequireFullCoverage THEN "degraded"
            ELSE IF m.established = {} THEN "constructing"
            ELSE IF several /\ ~joined THEN "partitioned"
            ELSE IF admins = {"maintenance"} THEN "maintenance"
            ELSE IF admins # {"enabled"} THEN "draining"
            ELSE IF worse \/ few \/ advanced THEN "degraded"
            ELSE "active"
    BY DEF DesiredLifecycle
  <1> DEFINE lone == m.established = {}
             maintained == admins = {"maintenance"}
             enabled == admins = {"enabled"}
  <1>10. ~lone => (maintained <=> calm) /\ (~enabled <=> moved)
    BY <1>7
  <1>11. DesiredLifecycle(s, m, p.domains, p.capacity, p.connectivity, p.obligations, advanced) =
            IF several /\ none /\ ~RequireFullCoverage THEN "degraded"
            ELSE IF lone THEN "constructing"
            ELSE IF several /\ ~joined THEN "partitioned"
            ELSE IF maintained THEN "maintenance"
            ELSE IF ~enabled THEN "draining"
            ELSE IF worse \/ few \/ advanced THEN "degraded"
            ELSE "active"
    BY <1>9
  <1> HIDE DEF E, several, few, joined, admins, worse, none, calm, moved, lone, maintained, enabled
  <1>12. EvidenceLifecycle(E, known) =
            IF several /\ none THEN "degraded"
            ELSE IF lone THEN "constructing"
            ELSE IF several /\ ~joined THEN "partitioned"
            ELSE IF calm THEN "maintenance"
            ELSE IF moved THEN "draining"
            ELSE IF worse \/ few THEN "degraded"
            ELSE "active"
    BY <1>8 DEF lone
  <1>13. DesiredLifecycle(s, m, p.domains, p.capacity, p.connectivity, p.obligations, advanced)
            = IF EvidenceLifecycle(E, known) = "active" /\ advanced THEN "degraded"
              ELSE EvidenceLifecycle(E, known)
    BY <1>5, <1>10, <1>11, <1>12
  <1> QED  BY <1>13 DEF E

\* A round composes the lifecycle and the epoch of its summary.
LEMMA RoundAgrees ==
    ASSUME NEW s, Apply(s), epoch \in Nat, Representable(s), Cardinality(ResourceClasses(s)) =< 1
    PROVE  /\ pod'.lifecycle = ComposedLifecycle(Lifecycle, Summary(s, pod'), expected, FALSE, FALSE)
           /\ pod'.epoch = ComposedEpoch(epoch, Summary(s, pod'), expected)
  <1> DEFINE p == Compose(s, Context)
             m == Members(s, expected)
             E == Summary(s, p)
             advanced == p.epoch # epoch
             asked == EvidenceLifecycle(E, expected)
  <1>1. pod' = p /\ ValidSnapshot(s)
    BY DEF Apply
  <1>2. Context.expected = expected /\ Context.epoch = epoch /\ Context.lifecycle = Lifecycle
    BY DEF Context
  <1>3. p.epoch = ComposedEpoch(epoch, [reports |-> Sightings(s)], expected)
    BY <1>2 DEF Compose
  <1>4. /\ p.domains = Domains(s, m) /\ p.connectivity = Connectivity(s, m, p.domains)
        /\ p.desired = DesiredLifecycle(s, m, p.domains, p.capacity, p.connectivity,
                                        p.obligations, advanced)
        /\ p.lifecycle = next_lifecycle(Lifecycle, p.desired)
    BY <1>2, ComposeFields
  <1>5. Agree(s, expected, m, E)
    BY SummaryAgrees
  <1>6. p.epoch = ComposedEpoch(epoch, E, expected)
    BY <1>3, <1>5 DEF Agree, ComposedEpoch
  <1>7. advanced <=> Adopts(E, expected)
    BY <1>6 DEF ComposedEpoch
  <1>8. p.desired = IF asked = "active" /\ advanced THEN "degraded" ELSE asked
    <2>1. advanced \in BOOLEAN
      OBVIOUS
    <2> HIDE DEF advanced, p
    <2>2. m = Members(s, expected)
      OBVIOUS
    <2> HIDE DEF m
    <2> QED  BY <1>1, <1>4, <2>1, <2>2, DesiredAgrees
  <1> HIDE DEF p, E, advanced, asked
  <1>9. p.lifecycle = ComposedLifecycle(Lifecycle, E, expected, FALSE, FALSE)
    BY <1>4, <1>7, <1>8 DEF ComposedLifecycle, asked
  <1> QED  BY <1>1, <1>6, <1>9 DEF E

\* The order routes are listed in tells only between routes that offer as much.
LEMMA OrderTellsTies ==
    ASSUME NEW s, NEW m, NEW domains, NEW pair, Representable(s), ValidSnapshot(s),
           \A q, other \in PairRoutes(s, pair) :
              s.routes[q].capacity = s.routes[other].capacity
                  => s.routes[q].resource = s.routes[other].resource
    PROVE  PairVerdict([s EXCEPT !.order = Reverse(@)], m, domains, pair) = PairVerdict(s, m, domains, pair)
  <1> DEFINE turned == [s EXCEPT !.order = Reverse(@)]
             order  == s.order
             back   == Reverse(order)
             links  == LinksSaid(s, m, domains, pair)
             routes == RoutesSaid(s, m, pair)
  <1>1. /\ turned.at = s.at /\ turned.members = s.members /\ turned.domains = s.domains
        /\ turned.links = s.links /\ turned.routes = s.routes /\ turned.order = back
    BY DEF Representable
  <1> HIDE DEF turned
  <1>2. LinksSaid(turned, m, domains, pair) = links
    <2>1. PairLinks(turned, pair) = PairLinks(s, pair)
      BY <1>1 DEF PairLinks
    <2>2. ASSUME NEW link
          PROVE  classify_link(turned, m, domains, link) = classify_link(s, m, domains, link)
      BY <1>1 DEF classify_link, RouteGone, RouteSettled
    <2> QED  BY <1>1, <2>1, <2>2 DEF LinksSaid
  <1>3. RoutesSaid(turned, m, pair) = routes
    <2>1. PairRoutes(turned, pair) = PairRoutes(s, pair)
      BY <1>1 DEF PairRoutes
    <2>2. ASSUME NEW q
          PROVE  classify_route(turned, m, q) = classify_route(s, m, q)
      BY <1>1 DEF classify_route, RouteGone, RouteSettled
    <2> QED  BY <2>1, <2>2 DEF RoutesSaid
  <1>4. /\ PairVerdict(turned, m, domains, pair) = Judged(back, links, routes)
        /\ PairVerdict(s, m, domains, pair) = Judged(order, links, routes)
    BY <1>1, <1>2, <1>3 DEF PairVerdict, LinksSaid, RoutesSaid
  <1>5. /\ DOMAIN routes = PairRoutes(s, pair)
        /\ DOMAIN routes \subseteq Range(order) /\ DOMAIN order \subseteq Nat
        /\ \A q \in DOMAIN routes :
              /\ routes[q] = classify_route(s, m, q)
              /\ routes[q].capacity \in 0 .. MaxCapacityAmount
        /\ DOMAIN routes = {} => routes = <<>>
    BY RoutesAreListed
  <1>6. DOMAIN routes \subseteq Range(back) /\ DOMAIN back \subseteq Nat
    <2>1. order \in Seq(DOMAIN s.routes)
      BY DEF Representable
    <2>2. Len(order) \in Nat /\ DOMAIN order = 1 .. Len(order)
      BY <2>1
    <2>3. DOMAIN back = 1 .. Len(order)
      BY DEF Reverse
    <2>4. \A i \in 1 .. Len(order) : /\ Len(order) - i + 1 \in 1 .. Len(order)
                                     /\ back[Len(order) - i + 1] = order[i]
      <3>1. \A n \in Nat : \A i \in 1 .. n : n - i + 1 \in 1 .. n /\ n - (n - i + 1) + 1 = i
        OBVIOUS
      <3> QED  BY <2>2, <3>1 DEF Reverse
    <2> HIDE DEF back, order
    <2>5. Range(order) \subseteq Range(back)
      BY <2>2, <2>3, <2>4 DEF Range
    <2> QED  BY <1>5, <2>2, <2>3, <2>5
  <1> DEFINE best  == BestRoute(order, routes)
             other == BestRoute(back, routes)
  <1>7. /\ Routed(order, routes) = Routed(back, routes)
        /\ Routed(order, routes) > 0 => routes[best].resource = routes[other].resource
    <2>1. CASE routes = <<>>
      BY <2>1 DEF Routed
    <2>2. CASE routes # <<>>
      <3>1. MaxCapacityAmount \in Nat
        BY VerdictsAssumption
      <3>2. DOMAIN routes # {}
        BY <1>5, <2>2
      <3>3. /\ best \in DOMAIN routes
            /\ \A q \in DOMAIN routes : routes[best].capacity >= routes[q].capacity
        <4> HIDE DEF routes, order
        <4> QED  BY <1>5, <3>1, <3>2, BestIsOne
      <3>4. /\ other \in DOMAIN routes
            /\ \A q \in DOMAIN routes : routes[other].capacity >= routes[q].capacity
        <4> HIDE DEF routes, back
        <4> QED  BY <1>5, <1>6, <3>1, <3>2, BestIsOne
      <3> HIDE DEF best, other
      <3>5. routes[best].capacity = routes[other].capacity
        <4>1. routes[best].capacity \in Int /\ routes[other].capacity \in Int
          BY <1>5, <3>1, <3>3, <3>4
        <4> HIDE DEF routes
        <4> QED  BY <3>3, <3>4, <4>1
      <3>6. ASSUME routes[best].capacity > 0 PROVE routes[best].resource = routes[other].resource
        <4>1. /\ routes[best] = classify_route(s, m, best) /\ routes[other] = classify_route(s, m, other)
              /\ best \in PairRoutes(s, pair) /\ other \in PairRoutes(s, pair)
          BY <1>5, <3>3, <3>4
        <4>2. /\ routes[best].capacity \in {0, s.routes[best].capacity}
              /\ routes[best].resource = s.routes[best].resource
          BY <4>1, RouteVerdict
        <4>3. /\ routes[other].capacity \in {0, s.routes[other].capacity}
              /\ routes[other].resource = s.routes[other].resource
          BY <4>1, RouteVerdict
        <4> HIDE DEF routes
        <4>4. s.routes[best].capacity = s.routes[other].capacity
          BY <3>5, <3>6, <4>2, <4>3
        <4> QED  BY <4>1, <4>2, <4>3, <4>4
      <3>7. /\ Routed(order, routes) = routes[best].capacity
            /\ Routed(back, routes) = routes[other].capacity
        BY <2>2 DEF Routed, best, other
      <3> QED  BY <3>5, <3>6, <3>7
    <2> QED  BY <2>1, <2>2
  <1> HIDE DEF links, routes, order, back
  <1>8. Judged(back, links, routes) = Judged(order, links, routes)
    BY <1>7 DEF Judged, Routed, When
  <1> QED  BY <1>4, <1>8 DEF turned

-----------------------------------------------------------------------------
\* The snapshots a pod is given are written down as the code's types have it.
SnapshotsAreRepresentable ==
    /\ \A s \in FirstSnapshots : Representable(s)
    /\ \A s : Representable(s) => \A next \in Snapshots(s) : Representable(next)

EvidenceIsRepresentable == evidence # <<>> => Representable(evidence)

LEMMA RoundIsRepresentable ==
    ASSUME SnapshotsAreRepresentable, EvidenceIsRepresentable,
           NEW s \in IF evidence = <<>> THEN FirstSnapshots ELSE Snapshots(evidence)
    PROVE  Representable(s)
  <1>1. CASE evidence = <<>>
    BY <1>1 DEF SnapshotsAreRepresentable
  <1>2. CASE evidence # <<>>
    BY <1>2 DEF SnapshotsAreRepresentable, EvidenceIsRepresentable
  <1> QED  BY <1>1, <1>2

\* What the theorems below rest on: the evidence of the last round is of the code's
\* types.
RoundsInvariant == EvidenceIsRepresentable /\ epoch \in Nat

LEMMA RoundsInvariance ==
    ASSUME SnapshotsAreRepresentable
    PROVE  /\ Init => RoundsInvariant
           /\ RoundsInvariant /\ [Next]_vars => RoundsInvariant'
  <1>1. Init => RoundsInvariant
    BY DEF Init, RoundsInvariant, EvidenceIsRepresentable
  <1>2. ASSUME RoundsInvariant, [Next]_vars PROVE RoundsInvariant'
    <2>1. ASSUME NEW s \in IF evidence = <<>> THEN FirstSnapshots ELSE Snapshots(evidence), Apply(s)
          PROVE  RoundsInvariant'
      <3>1. Representable(s)
        BY <1>2, RoundIsRepresentable DEF RoundsInvariant
      <3>2. evidence' = s /\ epoch' = Compose(s, Context).epoch
        BY <2>1 DEF Apply
      <3>3. Compose(s, Context).epoch = ComposedEpoch(epoch, [reports |-> Sightings(s)], expected)
        BY DEF Compose, Context
      <3>4. epoch' \in Nat
        BY <1>2, <3>2, <3>3 DEF RoundsInvariant, ComposedEpoch
      <3> QED  BY <3>1, <3>2, <3>4 DEF RoundsInvariant, EvidenceIsRepresentable
    <2>2. CASE Mint
      BY <1>2, <2>2 DEF Mint, RoundsInvariant, EvidenceIsRepresentable
    <2>3. ASSUME NEW t, Revoke(t) PROVE RoundsInvariant'
      BY <1>2, <2>3 DEF Revoke, RoundsInvariant, EvidenceIsRepresentable
    <2>4. CASE UNCHANGED vars
      BY <1>2, <2>4 DEF vars, RoundsInvariant, EvidenceIsRepresentable
    <2> QED  BY <1>2, <2>1, <2>2, <2>3, <2>4 DEF Next
  <1> QED  BY <1>1, <1>2

\* composer.hpp: "no ordering of the input collections can change the result".  The
\* verdict on a pair is the same with its routes listed the other way round, unless
\* two of them tie in capacity and carry different resource classes.
THEOREM OrderOfRoutesIsIdle ==
    ASSUME SnapshotsAreRepresentable
    PROVE  Spec => []OrderDecidesTiesOnly
  <1>1. Init => OrderDecidesTiesOnly
    BY DEF Init, OrderDecidesTiesOnly
  <1>2. RoundsInvariant /\ OrderDecidesTiesOnly /\ [Next]_vars => OrderDecidesTiesOnly'
    <2> SUFFICES ASSUME RoundsInvariant, OrderDecidesTiesOnly, [Next]_vars
                 PROVE  OrderDecidesTiesOnly'
      OBVIOUS
    <2>1. ASSUME NEW s \in IF evidence = <<>> THEN FirstSnapshots ELSE Snapshots(evidence), Apply(s)
          PROVE  OrderDecidesTiesOnly'
      <3> DEFINE p == Compose(s, Context)
                 m == Members(s, expected)
      <3>1. Representable(s)
        BY RoundIsRepresentable DEF RoundsInvariant
      <3>2. pod' = p /\ evidence' = s /\ ValidSnapshot(s)
        BY <2>1 DEF Apply
      <3>3. p.members = m /\ p.connectivity = Connectivity(s, m, p.domains)
        BY ComposeFields DEF Context
      <3> HIDE DEF p, m
      <3>4. ASSUME NEW pair \in DOMAIN p.connectivity,
                   ~\E q, other \in PairRoutes(s, pair) :
                       /\ s.routes[q].capacity = s.routes[other].capacity
                       /\ s.routes[q].resource # s.routes[other].resource
            PROVE  PairVerdict([s EXCEPT !.order = Reverse(@)], m, p.domains, pair) = p.connectivity[pair]
        <4>1. p.connectivity[pair] = PairVerdict(s, m, p.domains, pair)
          BY <3>3, <3>4 DEF Connectivity
        <4>2. PairVerdict([s EXCEPT !.order = Reverse(@)], m, p.domains, pair)
                  = PairVerdict(s, m, p.domains, pair)
          BY <3>1, <3>2, <3>4, OrderTellsTies
        <4> QED  BY <4>1, <4>2
      <3> QED  BY <3>2, <3>3, <3>4 DEF OrderDecidesTiesOnly
    <2>2. CASE Mint
      BY <2>2 DEF Mint, OrderDecidesTiesOnly
    <2>3. ASSUME NEW t, Revoke(t) PROVE OrderDecidesTiesOnly'
      BY <2>3 DEF Revoke, OrderDecidesTiesOnly
    <2>4. CASE UNCHANGED vars
      BY <2>4 DEF vars, OrderDecidesTiesOnly
    <2> QED  BY <2>1, <2>2, <2>3, <2>4 DEF Next
  <1> QED  BY <1>1, <1>2, RoundsInvariance, PTL DEF Spec

\* Classifying every link and route and judging every pair comes to the lifecycle
\* and the epoch that Composition derives from which links and routes are sound:
\* the two accounts of evaluate_lifecycle() in this development agree on any
\* evidence of one resource class.
THEOREM LifecycleIsOfTheSummary ==
    ASSUME SnapshotsAreRepresentable
    PROVE  Spec => LifecycleAgrees
  <1> DEFINE Agreed == /\ rounds' # rounds /\ Cardinality(ResourceClasses(evidence')) =< 1
                       => /\ pod'.lifecycle = ComposedLifecycle(Lifecycle, Summary(evidence', pod'),
                                                                expected, FALSE, FALSE)
                          /\ pod'.epoch = ComposedEpoch(epoch, Summary(evidence', pod'), expected)
  <1>1. RoundsInvariant /\ [Next]_vars => [Agreed]_vars
    <2> SUFFICES ASSUME RoundsInvariant, [Next]_vars, vars' # vars, rounds' # rounds,
                        Cardinality(ResourceClasses(evidence')) =< 1
                 PROVE  /\ pod'.lifecycle = ComposedLifecycle(Lifecycle, Summary(evidence', pod'),
                                                              expected, FALSE, FALSE)
                        /\ pod'.epoch = ComposedEpoch(epoch, Summary(evidence', pod'), expected)
      OBVIOUS
    <2>1. ASSUME NEW s \in IF evidence = <<>> THEN FirstSnapshots ELSE Snapshots(evidence), Apply(s)
          PROVE  /\ pod'.lifecycle = ComposedLifecycle(Lifecycle, Summary(evidence', pod'),
                                                       expected, FALSE, FALSE)
                 /\ pod'.epoch = ComposedEpoch(epoch, Summary(evidence', pod'), expected)
      <3>1. Representable(s)
        BY RoundIsRepresentable DEF RoundsInvariant
      <3>2. evidence' = s
        BY <2>1 DEF Apply
      <3>3. Cardinality(ResourceClasses(s)) =< 1
        BY <3>2
      <3> QED  BY <2>1, <3>1, <3>2, <3>3, RoundAgrees DEF RoundsInvariant
    <2>2. CASE Mint
      BY <2>2 DEF Mint
    <2>3. ASSUME NEW t, Revoke(t) PROVE FALSE
      BY <2>3 DEF Revoke
    <2> QED  BY <2>1, <2>2, <2>3 DEF Next
  <1> QED  BY <1>1, RoundsInvariance, PTL DEF Spec, LifecycleAgrees

-----------------------------------------------------------------------------
\* The claims the ledger is given are finitely many, owned by racks of the pod.
LEMMA ClaimsAreOwned ==
    ASSUME NEW s, Representable(s)
    PROVE  Claims(s) \subseteq OwnedClaims /\ IsFiniteSet(Claims(s))
  <1> DEFINE on  == {r \in Racks : s.members[r].count > 0}
             Of(r) == {OwnedBy(r, c) : c \in s.members[r].claims}
             all == [r \in on |-> Of(r)]
  <1>1. Claims(s) = UNION {all[r] : r \in on}
    <2>1. Claims(s) = UNION {Of(r) : r \in on}
      BY Zenon DEF Claims
    <2> HIDE DEF on, Of
    <2>2. {Of(r) : r \in on} = {all[r] : r \in on}
      OBVIOUS
    <2> QED  BY <2>1, <2>2
  <1>2. ASSUME NEW r \in on
        PROVE  IsFiniteSet(s.members[r].claims) /\ s.members[r].claims \subseteq ClaimRecords /\ r \in Nat
    BY VerdictsAssumption DEF Representable, ReportTyped
  <1>3. IsFiniteSet(on)
    BY CompositionAssumption, FS_Subset
  <1> HIDE DEF on
  <1>4. ASSUME NEW r \in on PROVE all[r] \subseteq OwnedClaims
    BY <1>2 DEF OwnedBy, OwnedClaims, ClaimRecords
  <1>5. ASSUME NEW r \in on PROVE IsFiniteSet(all[r])
    <2> DEFINE claims == s.members[r].claims
               f == [c \in claims |-> OwnedBy(r, c)]
    <2>1. Of(r) = {f[c] : c \in claims}
      OBVIOUS
    <2>2. IsFiniteSet(claims) /\ all[r] = Of(r)
      BY <1>2
    <2> HIDE DEF claims, f, Of
    <2>3. IsFiniteSet({f[c] : c \in claims})
      BY <2>2, ImageIsFinite
    <2> QED  BY <2>1, <2>2, <2>3
  <1> HIDE DEF all
  <1>6. IsFiniteSet({all[r] : r \in on})
    BY <1>3, ImageIsFinite
  <1>7. \A T \in {all[r] : r \in on} : IsFiniteSet(T)
    BY <1>5
  <1> DEFINE parts == {all[r] : r \in on}
  <1>8. IsFiniteSet(UNION parts)
    <2>1. IsFiniteSet(parts) /\ \A T \in parts : IsFiniteSet(T)
      BY <1>6, <1>7
    <2> HIDE DEF parts
    <2> QED  BY <2>1, FS_UNION
  <1> QED  BY <1>1, <1>4, <1>8

\* The claims evaluate_capacity() counts on x are those of racks that serve, in
\* domains they declare; the account it returns for them.
LEMMA CapacityOfRound ==
    ASSUME NEW s, Representable(s), NEW m, NEW x
    PROVE  /\ UsableClaims(s, m) \subseteq OwnedClaims /\ IsFiniteSet(UsableClaims(s, m))
           /\ Claims(s) \ UsableClaims(s, m) \subseteq OwnedClaims
           /\ IsFiniteSet(Claims(s) \ UsableClaims(s, m))
  <1>1. UsableClaims(s, m) \subseteq Claims(s)
    BY DEF UsableClaims
  <1> QED  BY <1>1, ClaimsAreOwned, FS_Subset, FS_Difference

LEMMA UsableRack ==
    ASSUME NEW s, Representable(s), NEW known, NEW r \in Racks
    PROVE  LET m == Members(s, known)
           IN  /\ r \in m.usable <=> /\ m.status[r] = "established"
                                     /\ s.members[r].health \in {"ok", "impaired"}
                                     /\ s.members[r].admin # "disabled"
               /\ r \in m.established <=> m.status[r] = "established"
               /\ r \in m.established => s.members[r].count = 1
  <1> DEFINE m == Members(s, known)
             x == s.members[r]
  <1>1. /\ m.status[r] = MemberStatus(Sightings(s)[r], known[r])
        /\ m.established = {y \in Racks : MemberStatus(Sightings(s)[y], known[y]) = "established"}
        /\ m.usable = {y \in m.established : /\ Sightings(s)[y].health \in {"ok", "impaired"}
                                             /\ Sightings(s)[y].admin # "disabled"}
    BY DEF Members, Established, Reachable
  <1>2. /\ Sightings(s)[r].health = x.health /\ Sightings(s)[r].admin = x.admin
        /\ Sightings(s)[r].count = x.count /\ x.count \in 0 .. 2
    BY DEF Sightings, Representable, ReportTyped
  <1>3. MemberStatus(Sightings(s)[r], known[r]) = "established" => x.count = 1
    BY <1>2 DEF MemberStatus
  <1> HIDE DEF m
  <1>4. /\ r \in m.usable <=> /\ m.status[r] = "established"
                              /\ x.health \in {"ok", "impaired"} /\ x.admin # "disabled"
        /\ r \in m.established <=> m.status[r] = "established"
        /\ r \in m.established => x.count = 1
    BY <1>1, <1>2, <1>3
  <1> QED  BY <1>4 DEF m

\* Every budget once at the smallest amount offered is the sum the ledger takes.
LEMMA OnceIsTotal ==
    ASSUME NEW usable, usable \subseteq OwnedClaims, IsFiniteSet(usable), NEW x,
           NEW counted, counted = {c \in usable : c.resource = x}
    PROVE  EachBudgetOnce(counted) = Total(AmountsOf(usable, x), SlotKeys(usable, x))
  <1> DEFINE S == SlotKeys(usable, x)
             f == AmountsOf(usable, x)
             Offered(key) == Min({c.amount : c \in {y \in counted : y.key = key}})
             h == CHOOSE h : h = [s \in SUBSET S |->
                                    IF s = {} THEN 0
                                    ELSE Offered(CHOOSE k \in s : TRUE) + h[s \ {CHOOSE k \in s : TRUE}]]
  <1>1. S = {c.key : c \in counted}
    BY DEF SlotKeys
  <1>2. EachBudgetOnce(counted) = h[S]
    BY <1>1 DEF EachBudgetOnce, MapThenSumSet, MapThenFoldSet
  <1>3. IsFiniteSet(S)
    BY SlotKeysFinite
  <1>4. \A k \in S : f[k] \in Nat /\ f[k] = Offered(k)
    <2> SUFFICES ASSUME NEW k \in S PROVE f[k] \in Nat /\ f[k] = Offered(k)
      OBVIOUS
    <2>1. Slot(usable, x, k) = {y \in counted : y.key = k}
      BY DEF Slot
    <2>2. Slot(usable, x, k) # {} /\ Slot(usable, x, k) \subseteq OwnedClaims
      BY DEF Slot, SlotKeys
    <2>3. CountedAmount(Slot(usable, x, k)) = Offered(k)
      BY <2>1, <2>2, BudgetCount
    <2> QED  BY <2>3, BudgetsCounted
  <1> HIDE DEF S, f, Offered
  <1>5. PICK g : SumsBy(g, S, f)
    BY <1>3, <1>4, SumExists
  <1>6. g = [s \in SUBSET S |-> IF s = {} THEN 0
                                ELSE Offered(CHOOSE k \in s : TRUE) + g[s \ {CHOOSE k \in s : TRUE}]]
    <2>1. ASSUME NEW s \in SUBSET S, s # {}
          PROVE  f[Some(s)] = Offered(Some(s))
      <3>1. Some(s) \in S
        BY <2>1 DEF Some
      <3> QED  BY <1>4, <3>1
    <2> QED  BY <1>5, <2>1 DEF SumsBy, Some
  <1>7. h = [s \in SUBSET S |-> IF s = {} THEN 0
                                ELSE Offered(CHOOSE k \in s : TRUE) + h[s \ {CHOOSE k \in s : TRUE}]]
    BY <1>6
  <1> HIDE DEF h
  <1>8. SumsBy(h, S, f)
    <2>1. ASSUME NEW s \in SUBSET S, s # {}
          PROVE  f[Some(s)] = Offered(Some(s))
      <3>1. Some(s) \in S
        BY <2>1 DEF Some
      <3> QED  BY <1>4, <3>1
    <2> QED  BY <1>7, <2>1 DEF SumsBy, Some
  <1>9. Total(f, S) = h[S]
    BY <1>3, <1>4, <1>8, TotalIsSum
  <1> QED  BY <1>2, <1>9 DEF S, f

\* So is what the shares of an account come to.
LEMMA SharesAreTotal ==
    ASSUME NEW account, IsFiniteSet(DOMAIN account.scoped), NEW field,
           \A d \in DOMAIN account.scoped : account.scoped[d][field] \in Nat,
           NEW f, \A d \in DOMAIN account.scoped : f[d] = account.scoped[d][field]
    PROVE  SumOverDomains(account, field) = Total(f, DOMAIN account.scoped)
  <1> DEFINE S == DOMAIN account.scoped
             Share(d) == account.scoped[d][field]
             h == CHOOSE h : h = [s \in SUBSET S |->
                                    IF s = {} THEN 0
                                    ELSE Share(CHOOSE k \in s : TRUE) + h[s \ {CHOOSE k \in s : TRUE}]]
  <1>1. SumOverDomains(account, field) = h[S]
    BY DEF SumOverDomains, MapThenSumSet, MapThenFoldSet
  <1>2. IsFiniteSet(S) /\ \A d \in S : f[d] \in Nat /\ f[d] = Share(d)
    OBVIOUS
  <1> HIDE DEF S, Share
  <1>3. PICK g : SumsBy(g, S, f)
    BY <1>2, SumExists
  <1>4. \A s \in SUBSET S : s # {} => f[Some(s)] = Share(Some(s))
    BY <1>2 DEF Some
  <1>5. g = [s \in SUBSET S |-> IF s = {} THEN 0
                                ELSE Share(CHOOSE k \in s : TRUE) + g[s \ {CHOOSE k \in s : TRUE}]]
    BY <1>3, <1>4 DEF SumsBy, Some
  <1>6. h = [s \in SUBSET S |-> IF s = {} THEN 0
                                ELSE Share(CHOOSE k \in s : TRUE) + h[s \ {CHOOSE k \in s : TRUE}]]
    BY <1>5
  <1> HIDE DEF h
  <1>7. SumsBy(h, S, f)
    <2>1. \A s \in SUBSET S :
              (IF s = {} THEN 0 ELSE Share(Some(s)) + h[s \ {Some(s)}])
                  = (IF s = {} THEN 0 ELSE f[Some(s)] + h[s \ {Some(s)}])
      BY <1>4
    <2>2. h = [s \in SUBSET S |-> IF s = {} THEN 0 ELSE Share(Some(s)) + h[s \ {Some(s)}]]
      BY <1>6, Zenon DEF Some
    <2> QED  BY <2>1, <2>2 DEF SumsBy
  <1>8. Total(f, S) = h[S]
    BY <1>2, <1>7, TotalIsSum
  <1> QED  BY <1>1, <1>8 DEF S

LEMMA RoundCountsOnce ==
    ASSUME NEW s, Apply(s), Representable(s)
    PROVE  CapacityIsCountedOnce'
  <1> DEFINE p == Compose(s, Context)
             m == Members(s, expected)
             U == UsableClaims(s, m)
             W == Claims(s) \ U
             On(x) == {c \in Claims(s) : c.resource = x}
             counted(x) == {c \in U : c.resource = x}
             C(x) == Total(AmountsOf(U, x), SlotKeys(U, x))
  <1>1. pod' = p /\ evidence' = s
    BY DEF Apply
  <1>2. p.members = m /\ p.capacity = Capacity(s, m)
    BY ComposeFields DEF Context
  <1> HIDE DEF p
  <1>3. /\ U \subseteq OwnedClaims /\ IsFiniteSet(U) /\ W \subseteq OwnedClaims /\ IsFiniteSet(W)
        /\ Claims(s) = U \cup W
    <2>1. Claims(s) = U \cup W
      BY DEF UsableClaims
    <2> QED  BY <2>1, CapacityOfRound
  <1>4. \A r \in Racks : Serving(r)' <=> r \in m.usable
    <2>1. ASSUME NEW r \in Racks PROVE Serving(r)' <=> r \in m.usable
      <3>1. Serving(r)' <=> /\ m.status[r] = "established"
                            /\ s.members[r].health \in {"ok", "impaired"}
                            /\ s.members[r].admin # "disabled"
        BY <1>1, <1>2 DEF Serving
      <3> QED  BY <3>1, UsableRack DEF m
    <2> QED  BY <2>1
  <1>5. \A c \in Claims(s) : c.owner \in Racks
    BY DEF Claims, OwnedBy
  <1>6. \A c \in Claims(s) : c \in U <=> c.owner \in m.usable /\ c.domain \in s.members[c.owner].domains
    <2>1. \A r \in Racks : r \in m.usable => DeclaredBy(s, r) = s.members[r].domains
      BY UsableRack, UsableIsEstablished DEF m, DeclaredBy
    <2> QED  BY <1>5, <2>1 DEF UsableClaims
  <1>7. ASSUME NEW x PROVE ClaimsOn(x)' = On(x) /\ Counted(x)' = counted(x)
    <2>1. ClaimsOn(x)' = On(x)
      BY <1>1 DEF ClaimsOn
    <2>2. Counted(x)' = {c \in On(x) : Serving(c.owner)' /\ c.domain \in s.members[c.owner].domains}
      BY <1>1, <2>1 DEF Counted
    <2>3. \A c \in On(x) : c \in Counted(x)' <=> c \in U
      <3> HIDE DEF U, m
      <3> QED  BY <1>4, <1>5, <1>6, <2>2
    <2> HIDE DEF m
    <2> QED  BY <2>1, <2>2, <2>3 DEF UsableClaims
  <1> HIDE DEF U, W, m
  <1>8. ASSUME NEW x PROVE CountedOnce(x)' = C(x)
    <2>1. CountedOnce(x)' = EachBudgetOnce(counted(x))
      BY <1>7 DEF CountedOnce
    <2> QED  BY <1>3, <2>1, OnceIsTotal
  <1>9. \A x \in Resources' : pod'.capacity[x] = by_resource(U, W, x)
    BY <1>1, <1>2 DEF Resources, Capacity, U, W
  <1> SUFFICES ASSUME NEW x \in Resources'
               PROVE  LET account == pod'.capacity[x]
                          fits    == C(x) =< CounterLimit
                      IN  /\ fits => /\ account.total = C(x)
                                     /\ account.total = SumOverDomains(account, "total")
                                     /\ account.reserved = SumOverDomains(account, "reserved")
                          /\ account.total =< C(x)
                          /\ capacity_is_usable(account.status) =>
                                 /\ fits /\ \A c \in On(x) : c \in U
                                 /\ \A c, d \in counted(x) : c.key = d.key => c.amount = d.amount
                                 /\ account.reserved + account.headroom = account.total
    <2> HIDE DEF C, On, counted
    <2>1. \A x \in Resources' : \A c \in On(x) : c \in U => Serving(c.owner)'
      BY <1>4, <1>5, <1>6 DEF On
    <2> QED  BY <1>7, <1>8, <2>1 DEF CapacityIsCountedOnce
  <1> DEFINE a    == by_resource(U, W, x)
             keys == SlotKeys(U \cup W, x)
  <1>10. /\ a.total =< C(x)
         /\ C(x) =< CounterLimit => /\ a.total = C(x)
                                    /\ a.total = Total(TotalsOf(a.scoped), DOMAIN a.scoped)
                                    /\ a.reserved = Total(ReservesOf(a.scoped), DOMAIN a.scoped)
         /\ capacity_is_usable(a.status) => /\ C(x) =< CounterLimit /\ a.reserved + a.headroom = a.total
                                            /\ Settled(W, U, x, keys)
         /\ IsFiniteSet(DOMAIN a.scoped)
         /\ \A d \in DOMAIN a.scoped : a.scoped[d].total \in Nat /\ a.scoped[d].reserved \in Nat
    BY <1>3, ByResource
  <1>11. pod'.capacity[x] = a
    BY <1>9
  <1> HIDE DEF a, C
  <1>12. /\ SumOverDomains(a, "total") = Total(TotalsOf(a.scoped), DOMAIN a.scoped)
         /\ SumOverDomains(a, "reserved") = Total(ReservesOf(a.scoped), DOMAIN a.scoped)
    <2>1. /\ \A d \in DOMAIN a.scoped : TotalsOf(a.scoped)[d] = a.scoped[d]["total"]
          /\ \A d \in DOMAIN a.scoped : ReservesOf(a.scoped)[d] = a.scoped[d]["reserved"]
      BY DEF TotalsOf, ReservesOf
    <2>2. \A d \in DOMAIN a.scoped : a.scoped[d]["total"] \in Nat /\ a.scoped[d]["reserved"] \in Nat
      BY <1>10
    <2> QED  BY <1>10, <2>1, <2>2, SharesAreTotal
  <1>13. ASSUME Settled(W, U, x, keys)
         PROVE  /\ \A c \in On(x) : c \in U
                /\ \A c, d \in counted(x) : c.key = d.key => c.amount = d.amount
    <2>1. \A c \in On(x) : c.key \in keys
      BY <1>3 DEF SlotKeys
    <2>2. \A c \in On(x) : Slot(W, x, c.key) = {} /\ SameAmount(Slot(U, x, c.key))
      BY <1>13, <2>1 DEF Settled
    <2> HIDE DEF keys
    <2>3. \A c \in On(x) : c \in U
      BY <1>3, <2>2 DEF Slot
    <2>4. ASSUME NEW c \in counted(x), NEW d \in counted(x), c.key = d.key PROVE c.amount = d.amount
      <3>1. c \in On(x) /\ c \in Slot(U, x, c.key) /\ d \in Slot(U, x, c.key)
        BY <1>3, <2>4 DEF Slot
      <3> QED  BY <2>2, <3>1 DEF SameAmount
    <2> QED  BY <2>3, <2>4
  <1> HIDE DEF On, counted, keys
  <1> QED  BY <1>10, <1>11, <1>12, <1>13

\* README, guarantee 4: what an account shows is every physical budget its usable
\* racks claim, once, at the smallest amount any of them offers; the shares of its
\* domains add up to it; and an account a caller may rely on leaves no claim out,
\* hides no disagreement and lost no sum to overflow.
THEOREM CapacityCountsOnce ==
    ASSUME SnapshotsAreRepresentable
    PROVE  Spec => []CapacityIsCountedOnce
  <1>1. Init => CapacityIsCountedOnce
    BY DEF Init, CapacityIsCountedOnce, Resources
  <1>2. RoundsInvariant /\ CapacityIsCountedOnce /\ [Next]_vars => CapacityIsCountedOnce'
    <2> SUFFICES ASSUME RoundsInvariant, CapacityIsCountedOnce, [Next]_vars
                 PROVE  CapacityIsCountedOnce'
      OBVIOUS
    <2>1. ASSUME NEW s \in IF evidence = <<>> THEN FirstSnapshots ELSE Snapshots(evidence), Apply(s)
          PROVE  CapacityIsCountedOnce'
      <3>1. Representable(s)
        BY RoundIsRepresentable DEF RoundsInvariant
      <3> QED  BY <2>1, <3>1, RoundCountsOnce
    <2>2. ASSUME UNCHANGED <<pod, evidence>> PROVE CapacityIsCountedOnce'
      <3>1. \A x : ClaimsOn(x)' = ClaimsOn(x)
        BY <2>2 DEF ClaimsOn
      <3>2. \A r : Serving(r)' <=> Serving(r)
        BY <2>2 DEF Serving
      <3>3. \A x : Counted(x)' = Counted(x)
        BY <2>2, <3>1, <3>2 DEF Counted
      <3>4. \A x : CountedOnce(x)' = CountedOnce(x)
        BY <3>3 DEF CountedOnce
      <3>5. Resources' = Resources
        BY <2>2 DEF Resources
      <3> QED  BY <2>2, <3>1, <3>2, <3>3, <3>4, <3>5 DEF CapacityIsCountedOnce
    <2>3. CASE Mint
      BY <2>2, <2>3 DEF Mint
    <2>4. ASSUME NEW t, Revoke(t) PROVE CapacityIsCountedOnce'
      BY <2>2, <2>4 DEF Revoke
    <2>5. CASE UNCHANGED vars
      BY <2>2, <2>5 DEF vars
    <2> QED  BY <2>1, <2>3, <2>4, <2>5 DEF Next
  <1> QED  BY <1>1, <1>2, RoundsInvariance, PTL DEF Spec

-----------------------------------------------------------------------------
\* What the verdicts of a round can say.
LEMMA MemberCodes ==
    ASSUME NEW s, Representable(s), NEW known, NEW r \in Racks,
           s.members[r].count > 0, s.members[r].generation < known[r].generation
    PROVE  LET m == Members(s, known)
           IN  /\ r \in Composed(m)
               /\ CodeSeverity[member_code(m.status[r])] >= CodeSeverity["stale"]
  <1> DEFINE m == Members(s, known)
             report == Sightings(s)[r]
             status == MemberStatus(report, known[r])
  <1>1. m.status[r] = status
    BY DEF Members
  <1>2. report.count = s.members[r].count /\ report.generation < known[r].generation
    BY DEF Sightings
  <1>3. s.members[r].count \in 0 .. 2
    BY DEF Representable, ReportTyped
  <1>4. status \in {"conflicting", "stale", "unsupported", "retiring", "fenced"}
    BY <1>2, <1>3 DEF MemberStatus
  <1> HIDE DEF m, status
  <1>5. member_code(m.status[r]) \in {"conflicting", "unsupported", "stale"}
    BY <1>1, <1>4 DEF member_code
  <1>6. CodeSeverity[member_code(m.status[r])] >= CodeSeverity["stale"]
    BY <1>5 DEF CodeSeverity
  <1>7. r \in Composed(m)
    BY <1>1, <1>4 DEF Composed
  <1> QED  BY <1>6, <1>7 DEF m

LEMMA RoundOutcomes ==
    ASSUME NEW s, Representable(s), NEW context
    PROVE  LET p == Compose(s, context)
               m == Members(s, context.expected)
           IN  /\ \A d \in DOMAIN p.domains : p.domains[d].status \in DomainStatuses
               /\ \A x \in DOMAIN p.capacity :
                     /\ p.capacity[x].status \in CapacityStatuses
                     /\ \A d \in DOMAIN p.capacity[x].scoped :
                           /\ p.capacity[x].scoped[d].status \in CapacityStatuses
                           /\ p.capacity[x].scoped[d].owners \subseteq m.usable
               /\ p.authority \in Codes
               /\ \A r \in Composed(m) :
                     CodeSeverity[p.authority] >= CodeSeverity[member_code(m.status[r])]
  <1> DEFINE p == Compose(s, context)
             m == Members(s, context.expected)
  <1> HIDE DEF m
  <1>1. /\ p.domains = Domains(s, m) /\ p.capacity = Capacity(s, m)
        /\ p.authority = AuthorityStatus(s, m, p.domains, p.capacity, p.obligations, p.lifecycle,
                                         p.valid # {})
    BY DEF Compose, m
  <1> HIDE DEF p
  <1>2. \A d \in DOMAIN p.domains : p.domains[d].status \in DomainStatuses
    BY <1>1, DomainOutcomes DEF Domains
  <1>3. Claims(s) \subseteq OwnedClaims /\ IsFiniteSet(Claims(s))
    BY ClaimsAreOwned
  <1>4. \A x \in DOMAIN p.capacity :
           /\ p.capacity[x].status \in CapacityStatuses
           /\ \A d \in DOMAIN p.capacity[x].scoped :
                 /\ p.capacity[x].scoped[d].status \in CapacityStatuses
                 /\ p.capacity[x].scoped[d].owners \subseteq m.usable
    BY <1>1, <1>3, CapacityOutcomes
  <1>5. /\ p.authority \in Codes
        /\ \A r \in Composed(m) : CodeSeverity[p.authority] >= CodeSeverity[member_code(m.status[r])]
    BY <1>1, <1>2, <1>4, AuthorityOutcome
  <1> QED  BY <1>2, <1>4, <1>5 DEF p, m

\* A rack that reports an old generation claims nothing that is counted, and holds
\* the authority of the pod down.
LEMMA SupersededCountsForNothing ==
    ASSUME NEW s, Apply(s), Representable(s), NEW r \in Racks, Superseded(r), epoch \in Nat
    PROVE  CountsForNothing(r)
  <1> DEFINE p == Compose(s, Context)
             m == Members(s, expected)
  <1>1. pod' = p /\ evidence' = s
    BY DEF Apply
  <1>2. s.members[r].count > 0 /\ s.members[r].generation < expected[r].generation
    BY <1>1 DEF Superseded
  <1>3. /\ \A x \in DOMAIN p.capacity : \A d \in DOMAIN p.capacity[x].scoped :
              p.capacity[x].scoped[d].owners \subseteq m.usable
        /\ p.authority \in Codes
        /\ \A y \in Composed(m) : CodeSeverity[p.authority] >= CodeSeverity[member_code(m.status[y])]
    <2>1. Context.expected = expected
      BY DEF Context
    <2> QED  BY <2>1, RoundOutcomes
  <1>4. r \notin m.usable
    BY <1>2, SupersededIsOut, UsableIsEstablished
  <1>5. r \in Composed(m) /\ CodeSeverity[member_code(m.status[r])] >= CodeSeverity["stale"]
    BY <1>2, MemberCodes
  <1>6. CodeSeverity[p.authority] >= CodeSeverity["stale"]
    <2>1. \A c \in Codes : CodeSeverity[c] \in Nat
      BY DEF Codes, CodeSeverity
    <2>2. member_code(m.status[r]) \in Codes /\ "stale" \in Codes
      BY CodesOfVerdicts DEF Codes, CodeSeverity
    <2> HIDE DEF p, m
    <2> QED  BY <1>3, <1>5, <2>1, <2>2
  <1> HIDE DEF p, m
  <1> QED  BY <1>1, <1>3, <1>4, <1>6 DEF CountsForNothing

\* README, guarantee 1: a rack that reports less than the generation the pod has on
\* record is no member this round, no pair with it carries anything, no share of any
\* account names it, and the authority of the pod is stale or worse.
THEOREM SupersededRackIsNothing ==
    ASSUME SnapshotsAreRepresentable
    PROVE  Spec => StaleRackCarriesNothing
  <1>1. RoundsInvariant /\ [Next]_vars
            => [\A r \in Racks : Superseded(r) => CarriesNothing(r) /\ CountsForNothing(r)]_vars
    <2> SUFFICES ASSUME RoundsInvariant, [Next]_vars, NEW r \in Racks, Superseded(r), vars' # vars
                 PROVE  CarriesNothing(r) /\ CountsForNothing(r)
      OBVIOUS
    <2>1. ASSUME NEW s \in IF evidence = <<>> THEN FirstSnapshots ELSE Snapshots(evidence), Apply(s)
          PROVE  CarriesNothing(r) /\ CountsForNothing(r)
      <3>1. Representable(s)
        BY RoundIsRepresentable DEF RoundsInvariant
      <3> QED  BY <2>1, <3>1, RoundLeavesSupersededOut, SupersededCountsForNothing DEF RoundsInvariant
    <2>2. CASE Mint
      BY <2>2 DEF Mint, Superseded
    <2>3. ASSUME NEW t, Revoke(t) PROVE FALSE
      BY <2>3 DEF Revoke, Superseded
    <2> QED  BY <2>1, <2>2, <2>3 DEF Next
  <1> QED  BY <1>1, RoundsInvariance, PTL DEF Spec, StaleRackCarriesNothing

-----------------------------------------------------------------------------
\* The verdict on a pair is one of the outcomes there are.
LEMMA PairOutcomes ==
    ASSUME NEW s, NEW known, NEW domains, NEW pair
    PROVE  PairVerdict(s, Members(s, known), domains, pair).status \in LinkStatuses
  <1> DEFINE m        == Members(s, known)
             links    == LinksSaid(s, m, domains, pair)
             routes   == RoutesSaid(s, m, pair)
             statuses == {links[l].status : l \in DOMAIN links} \cup {routes[q].status : q \in DOMAIN routes}
  <1>1. m.usable \subseteq m.established /\ m.established \subseteq Composed(m)
    BY DEF Members, Reachable, Established, Composed
  <1>2. PairVerdict(s, m, domains, pair) = Judged(s.order, links, routes)
    BY DEF PairVerdict, LinksSaid, RoutesSaid
  <1> HIDE DEF m
  <1>3. \A l \in DOMAIN links : links[l].status \in LinkStatuses
    <2> SUFFICES ASSUME NEW l \in DOMAIN links PROVE links[l].status \in LinkStatuses
      OBVIOUS
    <2>1. links[l] = classify_link(s, m, domains, s.links[l])
      BY DEF LinksSaid
    <2> DEFINE link == s.links[l]
    <2>2. links[l] = classify_link(s, m, domains, link)
      BY <2>1
    <2> HIDE DEF links, link
    <2>3. classify_link(s, m, domains, link).status \in LinkStatuses
      BY <1>1, LinkVerdict
    <2> QED  BY <2>2, <2>3
  <1>4. \A q \in DOMAIN routes : routes[q].status \in LinkStatuses
    <2>1. \A q \in DOMAIN routes : routes[q] = classify_route(s, m, q)
      BY DEF RoutesSaid
    <2> HIDE DEF routes
    <2> QED  BY <2>1, RouteVerdict
  <1> HIDE DEF links, routes
  <1>5. statuses \subseteq LinkStatuses
    BY <1>3, <1>4
  <1>6. Judged(s.order, links, routes).status \in
            {"conflicting", "usable", "degraded", "indeterminate"}
            \cup {x \in {WorstLink(statuses)} : statuses # {}}
    BY DEF Judged
  <1> HIDE DEF statuses
  <1>7. Judged(s.order, links, routes).status \in LinkStatuses
    BY <1>5, <1>6, WorstIsOne DEF LinkStatuses
  <1> QED  BY <1>2, <1>7 DEF m

\* Two sets of decisions together.
LEMMA BesideKeeps ==
    ASSUME NEW f, NEW g, \A x \in DOMAIN f : f[x].status \in Codes, \A x \in DOMAIN g : g[x].status \in Codes
    PROVE  /\ DOMAIN Beside(f, g) = DOMAIN f \cup DOMAIN g
           /\ \A x \in DOMAIN Beside(f, g) : Beside(f, g)[x].status \in Codes
  BY DEF Beside

\* emit_decisions() gives every decision one of the codes.
LEMMA DecisionsTyped ==
    ASSUME NEW s, Representable(s), NEW context, NEW p, p = Compose(s, context),
           p.lifecycle \in LifecycleStates
    PROVE  /\ <<"lifecycle">> \in DOMAIN Decisions(s, context, p)
           /\ \A id \in DOMAIN Decisions(s, context, p) : Decisions(s, context, p)[id].status \in Codes
  <1> DEFINE m == Members(s, context.expected)
             Coded(f) == \A id \in DOMAIN f : f[id].status \in Codes
  <1>1. /\ p.members = m /\ p.connectivity = Connectivity(s, m, p.domains)
        /\ DOMAIN p.obligations = DOMAIN s.obligations
        /\ \A o \in DOMAIN s.obligations :
              p.obligations[o] = ObligationVerdict(s, m, p.domains, p.capacity, p.connectivity, s.obligations[o])
    <2>1. p.members = m /\ p.connectivity = Connectivity(s, m, p.domains)
      BY ComposeFields
    <2>2. p.obligations = [o \in DOMAIN s.obligations |->
                              ObligationVerdict(s, m, p.domains, p.capacity, p.connectivity, s.obligations[o])]
      <3> HIDE DEF m
      <3> QED  BY DEF Compose, m
    <2> QED  BY <2>1, <2>2
  <1>2. /\ \A d \in DOMAIN p.domains : p.domains[d].status \in DomainStatuses
        /\ \A x \in DOMAIN p.capacity :
              /\ p.capacity[x].status \in CapacityStatuses
              /\ \A d \in DOMAIN p.capacity[x].scoped : p.capacity[x].scoped[d].status \in CapacityStatuses
        /\ p.authority \in Codes
    BY RoundOutcomes
  <1>3. Coded(MemberDecisions(s, p, context.expected))
    BY CodesOfVerdicts DEF MemberDecisions, Decision
  <1>4. Coded(DomainDecisions(s, p))
    BY <1>2, CodesOfVerdicts DEF DomainDecisions, Decision
  <1>5. Coded(CapacityDecisions(p))
    BY <1>2, CodesOfVerdicts DEF CapacityDecisions, Decision
  <1>6. Coded(DomainCapacityDecisions(p))
    <2> DEFINE f == DomainCapacityDecisions(p)
    <2>1. ASSUME NEW id \in DOMAIN f PROVE f[id].status \in Codes
      <3>1. PICK x \in DOMAIN p.capacity :
               \E d \in DOMAIN p.capacity[x].scoped : id = <<"domain capacity", x, d>>
        <4>1. DOMAIN f = UNION {{<<"domain capacity", x, d>> : d \in DOMAIN p.capacity[x].scoped} :
                                    x \in DOMAIN p.capacity}
          BY Zenon DEF DomainCapacityDecisions
        <4>2. PICK shares \in {{<<"domain capacity", x, d>> : d \in DOMAIN p.capacity[x].scoped} :
                                   x \in DOMAIN p.capacity} : id \in shares
          BY <4>1, Zenon
        <4>3. PICK x \in DOMAIN p.capacity :
                 shares = {<<"domain capacity", x, d>> : d \in DOMAIN p.capacity[x].scoped}
          BY <4>2, Zenon
        <4>4. \E d \in DOMAIN p.capacity[x].scoped : id = <<"domain capacity", x, d>>
          BY <4>2, <4>3, Zenon
        <4> QED  BY <4>4, Zenon
      <3>4. PICK d \in DOMAIN p.capacity[x].scoped : id = <<"domain capacity", x, d>>
        BY <3>1
      <3>2. f[id].status = capacity_code(p.capacity[id[2]].scoped[id[3]].status)
        <4> DEFINE share == p.capacity[id[2]].scoped[id[3]]
        <4>1. f[id] = Decision(capacity_code(share.status),
                               {<<"domain", id[3]>>} \cup MemberKeys(share.owners), {share.status})
          BY Zenon DEF DomainCapacityDecisions
        <4> HIDE DEF f, share
        <4>2. f[id].status = capacity_code(share.status)
          BY <4>1 DEF Decision
        <4> QED  BY <4>2 DEF share
      <3>3. f[id].status = capacity_code(p.capacity[x].scoped[d].status)
        BY <3>2, <3>4
      <3> HIDE DEF f
      <3> QED  BY <1>2, <3>3, CodesOfVerdicts
    <2> QED  BY <2>1
  <1>7. Coded(PairDecisions(s, p))
    <2>1. \A pair \in DOMAIN p.connectivity : p.connectivity[pair].status \in LinkStatuses
      BY <1>1, PairOutcomes DEF Connectivity
    <2>2. \A status \in LinkStatuses : PairCode[status] \in Codes
      BY DEF LinkStatuses, PairCode, Codes, CodeSeverity
    <2> QED  BY <2>1, <2>2 DEF PairDecisions, Decision
  <1>8. Coded(ObligationDecisions(s, p))
    <2>1. \A o \in DOMAIN p.obligations : p.obligations[o].status \in ObligationStatuses
      <3>1. \A o \in DOMAIN s.obligations : s.obligations[o].kind \in ObligationKinds
        BY DEF Representable
      <3> HIDE DEF m
      <3>2. ASSUME NEW o \in DOMAIN s.obligations PROVE p.obligations[o].status \in ObligationStatuses
        <4> DEFINE asked == s.obligations[o]
        <4>1. asked.kind \in ObligationKinds
          BY <3>1
        <4>2. p.obligations[o] = ObligationVerdict(s, m, p.domains, p.capacity, p.connectivity, asked)
          BY <1>1
        <4> DEFINE domains == p.domains
                   capacity == p.capacity
                   connectivity == p.connectivity
        <4> HIDE DEF asked, domains, capacity, connectivity
        <4>3. ObligationVerdict(s, m, domains, capacity, connectivity, asked).status \in ObligationStatuses
          BY <4>1, ObligationOutcomes
        <4> QED  BY <4>2, <4>3 DEF domains, capacity, connectivity
      <3> QED  BY <1>1, <3>2
    <2>2. \A status \in ObligationStatuses : ObligationOutcome[status] \in Codes
      BY DEF ObligationStatuses, ObligationSeverity, ObligationOutcome, Codes, CodeSeverity
    <2> QED  BY <2>1, <2>2 DEF ObligationDecisions, Decision
  <1>9. LifecycleCode[p.lifecycle] \in Codes
    BY DEF LifecycleCode, LifecycleStates, Live, Codes, CodeSeverity
  <1> DEFINE racks     == Beside(MemberDecisions(s, p, context.expected), DomainDecisions(s, p))
             claims    == Beside(CapacityDecisions(p), DomainCapacityDecisions(p))
             paths     == Beside(PairDecisions(s, p), ObligationDecisions(s, p))
             evidenced == Beside(Beside(racks, claims), paths)
  <1>10. Coded(evidenced)
    <2>1. Coded(racks) /\ Coded(claims) /\ Coded(paths)
      BY <1>3, <1>4, <1>5, <1>6, <1>7, <1>8, BesideKeeps
    <2> HIDE DEF racks, claims, paths
    <2> QED  BY <2>1, BesideKeeps
  <1>11. PICK lifecycle, authority :
            /\ Decisions(s, context, p)
                 = Beside(evidenced, Beside(Alone(<<"lifecycle">>, lifecycle), Alone(<<"authority">>, authority)))
            /\ lifecycle.status = LifecycleCode[p.lifecycle] /\ authority.status = p.authority
    <2> DEFINE several == Cardinality(p.members.established) >= 2
               ofPod   == Decision(LifecycleCode[p.lifecycle],
                              OnDecision(DOMAIN evidenced)
                              \cup {<<"epoch", p.epoch>>, <<"lifecycle", context.lifecycle>>},
                              When(p.epoch # context.epoch, "epoch advanced")
                              \cup When(several /\ p.connectivity = <<>>, "no connectivity evidence")
                              \cup When(p.lifecycle # p.desired, "not legal"))
               leases  == {t.lease : t \in context.tokens} \cup context.revoked
               granted == Decision(p.authority,
                              OnDecision({<<"lifecycle">>}) \cup {<<"epoch", p.epoch>>}
                              \cup MemberKeys(Composed(p.members))
                              \cup {<<"token", lease>> : lease \in leases},
                              {t.lease : t \in context.tokens \ p.valid})
    <2>1. Decisions(s, context, p)
            = Beside(evidenced, Beside(Alone(<<"lifecycle">>, ofPod), Alone(<<"authority">>, granted)))
      BY DEF Decisions
    <2>2. ofPod.status = LifecycleCode[p.lifecycle] /\ granted.status = p.authority
      BY DEF Decision
    <2> HIDE DEF evidenced, ofPod, granted
    <2> QED  BY <2>1, <2>2
  <1> HIDE DEF evidenced
  <1> DEFINE one == Alone(<<"lifecycle">>, lifecycle)
             two == Alone(<<"authority">>, authority)
  <1>12. Coded(one) /\ Coded(two) /\ <<"lifecycle">> \in DOMAIN one
    BY <1>2, <1>9, <1>11 DEF Alone
  <1> HIDE DEF one, two
  <1>13. Coded(Beside(one, two)) /\ <<"lifecycle">> \in DOMAIN Beside(one, two)
    BY <1>12, BesideKeeps
  <1> DEFINE last == Beside(one, two)
  <1>14. Coded(last) /\ <<"lifecycle">> \in DOMAIN last
    BY <1>13
  <1>15. Decisions(s, context, p) = Beside(evidenced, last)
    BY <1>11 DEF one, two
  <1> HIDE DEF last
  <1>16. Coded(Beside(evidenced, last)) /\ <<"lifecycle">> \in DOMAIN Beside(evidenced, last)
    BY <1>10, <1>14, BesideKeeps
  <1> QED  BY <1>15, <1>16

\* derive_expectations() records what the racks report.
LEMMA RecordsTyped ==
    ASSUME NEW s, Representable(s), NEW known \in [Racks -> Expectations]
    PROVE  derive_expectations([reports |-> Sightings(s)], known) \in [Racks -> Expectations]
  <1>1. NoExpectation \in Expectations
    BY CompositionAssumption DEF NoExpectation, Expectations
  <1>2. ASSUME NEW r \in Racks, MemberStatus(Sightings(s)[r], known[r]) = "established"
        PROVE  [generation |-> Sightings(s)[r].generation, digest |-> Sightings(s)[r].digest] \in Expectations
    <2> DEFINE x == s.members[r]
    <2>1. ReportTyped(x)
      BY DEF Representable
    <2>2. Sightings(s)[r].count = x.count /\ Sightings(s)[r].generation = x.generation
          /\ Sightings(s)[r].digest = x.digest
      BY DEF Sightings
    <2>3. x.count > 0
      <3>1. Sightings(s)[r].count # 0
        BY <1>2 DEF MemberStatus
      <3> QED  BY <2>1, <2>2, <3>1 DEF ReportTyped
    <2>4. x.generation \in 0 .. MaxGeneration /\ x.digest \in Digests
      BY <2>1, <2>3 DEF ReportTyped
    <2> QED  BY <2>2, <2>4 DEF Expectations
  <1> QED  BY <1>1, <1>2 DEF derive_expectations

\* A round leaves everything what the code's types have it.
LEMMA RoundIsTyped ==
    ASSUME NEW s, Apply(s), Representable(s), TypeOK
    PROVE  TypeOK'
  <1> DEFINE p == Compose(s, Context)
             at == ComposedEpoch(epoch, [reports |-> Sightings(s)], expected)
  <1>1. /\ evidence' = s /\ pod' = p /\ epoch' = p.epoch /\ tokens' = p.valid
        /\ index' = Decisions(s, Context, p)
        /\ expected' = derive_expectations([reports |-> Sightings(s)], expected)
        /\ contextLifecycle' = Lifecycle /\ rounds < MaxRounds /\ rounds' = rounds + 1
        /\ revoked' = revoked /\ grants' = grants
    BY DEF Apply
  <1>2. /\ Context.epoch = epoch /\ Context.lifecycle = Lifecycle /\ Context.expected = expected
        /\ Context.tokens = tokens
    BY DEF Context
  <1>3. p.epoch = at /\ p.valid = {t \in tokens : t.epoch = at /\ t.lease \notin Context.revoked}
    BY <1>2 DEF Compose
  <1>4. p # <<>>
    <2>1. "members" \in DOMAIN p
      BY DEF Compose
    <2> QED  BY <2>1
  <1>5. /\ p.lifecycle = next_lifecycle(Lifecycle, p.desired)
        /\ p.desired \in LifecycleStates
    <2> DEFINE m == Members(s, expected)
               advanced == p.epoch # Context.epoch
    <2>1. /\ p.desired = DesiredLifecycle(s, m, p.domains, p.capacity, p.connectivity,
                                          p.obligations, advanced)
          /\ p.lifecycle = next_lifecycle(Lifecycle, p.desired)
      BY <1>2, ComposeFields
    <2>2. advanced \in BOOLEAN
      OBVIOUS
    <2> HIDE DEF advanced, m, p
    <2> QED  BY <2>1, <2>2, DesiredIsAState
  <1> HIDE DEF p
  <1>6. rounds \in Nat /\ rounds' \in 0 .. MaxRounds /\ rounds' # 0 /\ epoch \in Nat /\ epoch =< rounds
    BY <1>1, RevalidationAssumption DEF TypeOK
  <1>7. p.lifecycle \in LifecycleStates
    <2>1. Lifecycle \in LifecycleStates
      BY DEF TypeOK
    <2>2. {"retired", "recovering", "partitioned"} \subseteq LifecycleStates
      BY DEF LifecycleStates
    <2> QED  BY <1>5, <2>1, <2>2 DEF next_lifecycle
  <1>8. expected' \in [Racks -> Expectations]
    BY <1>1, RecordsTyped DEF TypeOK
  <1>9. at \in Nat /\ at =< epoch + 1 /\ epoch' \in 0 .. rounds'
    BY <1>1, <1>3, <1>6 DEF ComposedEpoch
  <1>10. Lifecycle' = p.lifecycle
    BY <1>1, <1>4 DEF Lifecycle
  <1>11. tokens' \subseteq [lease : 1 .. grants', epoch : 0 .. epoch']
    <2>1. ASSUME NEW t \in tokens' PROVE t \in [lease : 1 .. grants', epoch : 0 .. epoch']
      <3>1. t \in [lease : 1 .. grants, epoch : 0 .. epoch] /\ t.epoch = at
        BY <1>1, <1>3, <2>1 DEF TypeOK
      <3>2. at \in 0 .. at
        BY <1>9
      <3> HIDE DEF at
      <3> QED  BY <1>1, <1>3, <3>1, <3>2
    <2> QED  BY <2>1
  <1>12. evidence' # <<>> /\ pod' # <<>> /\ index' # <<>>
    <2>1. s # <<>>
      <3>1. "at" \in DOMAIN s
        BY DEF Representable
      <3> QED  BY <3>1
    <2>2. <<"lifecycle">> \in DOMAIN index'
      BY <1>1, <1>7, DecisionsTyped DEF p
    <2> QED  BY <1>1, <1>4, <2>1, <2>2
  <1>13. \A id \in DOMAIN index' : index'[id].status \in Codes
    BY <1>1, <1>7, DecisionsTyped DEF p
  <1>14. grants' \in 0 .. MaxGrants /\ revoked' \subseteq 1 .. grants' /\ contextLifecycle' \in LifecycleStates
    BY <1>1 DEF TypeOK
  <1> QED  BY <1>1, <1>6, <1>7, <1>8, <1>9, <1>10, <1>11, <1>12, <1>13, <1>14 DEF TypeOK, DecisionIds, Codes

\* The records are what the code's types allow, whatever evidence a pod is given:
\* the record of members, the epoch and the tokens granted in it, the lifecycle,
\* and one outcome code for every decision emit_decisions() publishes.
THEOREM RoundsTyped ==
    ASSUME SnapshotsAreRepresentable
    PROVE  Spec => []TypeOK
  <1>1. Init => TypeOK
    BY CompositionAssumption, RevalidationAssumption
       DEF Init, TypeOK, Expectations, NoExpectation, Lifecycle, LifecycleStates, DecisionIds
  <1>2. TypeOK /\ [Next]_vars => TypeOK'
    <2> SUFFICES ASSUME TypeOK, [Next]_vars PROVE TypeOK'
      OBVIOUS
    <2>1. ASSUME NEW s \in IF evidence = <<>> THEN FirstSnapshots ELSE Snapshots(evidence), Apply(s)
          PROVE  TypeOK'
      <3>1. Representable(s)
        BY RoundIsRepresentable DEF TypeOK, EvidenceIsRepresentable
      <3> QED  BY <2>1, <3>1, RoundIsTyped
    <2>2. CASE Mint
      <3>1. grants \in Nat /\ epoch \in Nat /\ grants' \in 0 .. MaxGrants /\ grants' = grants + 1
        BY <2>2, RevalidationAssumption DEF TypeOK, Mint
      <3>2. tokens' \subseteq [lease : 1 .. grants', epoch : 0 .. epoch']
        <4>1. tokens' = tokens \cup {[lease |-> grants', epoch |-> epoch]} /\ epoch' = epoch
          BY <2>2 DEF Mint
        <4>2. 1 .. grants \subseteq 1 .. grants' /\ grants' \in 1 .. grants' /\ epoch \in 0 .. epoch
          BY <3>1
        <4>3. tokens \subseteq [lease : 1 .. grants, epoch : 0 .. epoch]
          BY DEF TypeOK
        <4> QED  BY <4>1, <4>2, <4>3
      <3>3. revoked' \subseteq 1 .. grants'
        BY <2>2, <3>1 DEF TypeOK, Mint
      <3> QED  BY <2>2, <3>1, <3>2, <3>3 DEF TypeOK, Mint, Lifecycle, DecisionIds
    <2>3. ASSUME NEW t \in tokens, Revoke(t) PROVE TypeOK'
      <3>1. t.lease \in 1 .. grants
        BY DEF TypeOK
      <3> QED  BY <2>3, <3>1 DEF TypeOK, Revoke, Lifecycle, DecisionIds
    <2>4. CASE UNCHANGED vars
      BY <2>4 DEF vars, TypeOK, Lifecycle, DecisionIds
    <2> QED  BY <2>1, <2>2, <2>3, <2>4 DEF Next
  <1> QED  BY <1>1, <1>2, PTL DEF Spec

-----------------------------------------------------------------------------
LEMMA ReportedAdmin == ASSUME NEW x, ReportTyped(x), x.count = 1 PROVE x.admin \in AdminStates
  BY DEF ReportTyped

\* A domain that can serve an obligation has an established rack in the state the
\* obligation asks for.
LEMMA ServiceableServes ==
    ASSUME NEW s, Representable(s), NEW known, NEW asked,
           NEW d, NEW r \in Listed(s, d) \cap Members(s, known).usable,
           asked.kind = "maintenance window" => s.members[r].admin = "enabled"
    PROVE  Serves(s, Members(s, known).established, d, asked)
  <1> DEFINE m == Members(s, known)
  <1>1. r \in m.established /\ r \in Racks
    <2>1. m.usable \subseteq m.established
      BY UsableIsEstablished
    <2>2. m.established \subseteq Racks
      BY DEF Members, Established
    <2> HIDE DEF m
    <2> QED  BY <2>1, <2>2 DEF m
  <1>2. /\ s.members[r].health \in {"ok", "impaired"} /\ s.members[r].admin # "disabled"
        /\ s.members[r].count = 1
    <2>1. /\ r \in m.usable <=> /\ m.status[r] = "established"
                                /\ s.members[r].health \in {"ok", "impaired"}
                                /\ s.members[r].admin # "disabled"
          /\ r \in m.established <=> m.status[r] = "established"
          /\ r \in m.established => s.members[r].count = 1
      <3>1. r \in Racks
        BY <1>1
      <3> QED  BY <3>1, UsableRack, Zenon
    <2>2. r \in m.usable
      OBVIOUS
    <2> HIDE DEF m
    <2> QED  BY <1>1, <2>1, <2>2
  <1>3. s.members[r].admin \in AdminStates
    <2>1. ReportTyped(s.members[r])
      BY <1>1 DEF Representable
    <2> QED  BY <1>2, <2>1, ReportedAdmin
  <1> HIDE DEF m
  <1>4. Serves(s, m.established, d, asked)
    BY <1>1, <1>2, <1>3 DEF Serves
  <1> QED  BY <1>4 DEF m

\* The greedy packing of a round is made of domains that serve, of the kind asked
\* for, no two with a rack in common, and there are finitely many of them.
LEMMA SatisfyingIsReal ==
    ASSUME NEW s, Representable(s), NEW known, NEW domains, NEW asked
    PROVE  LET m      == Members(s, known)
               chosen == Satisfying(s, m, domains, asked)
           IN  /\ chosen \subseteq DOMAIN s.domains /\ Cardinality(chosen) \in Nat
               /\ ServeApart(s, m.established, chosen, asked)
  <1> DEFINE m          == Members(s, known)
             drained    == asked.kind = "maintenance window"
             candidates == Serviceable(s, m, domains, asked.domainKind, drained)
             chosen     == Satisfying(s, m, domains, asked)
  <1>1. candidates \subseteq DOMAIN s.domains
    BY DEF Serviceable
  <1>2. /\ DOMAIN s.domains \subseteq Nat /\ IsFiniteSet(DOMAIN s.domains)
        /\ \A d \in DOMAIN s.domains : s.domains[d].members \subseteq Racks
    BY DEF Representable
  <1>3. chosen = Packing(s, candidates)
    BY DEF Satisfying
  <1>4. ASSUME NEW d \in candidates
        PROVE  Kind(s, d) = asked.domainKind /\ Serves(s, m.established, d, asked)
    <2>1. /\ Kind(s, d) = asked.domainKind
          /\ \E r \in Listed(s, d) \cap m.usable : drained => s.members[r].admin = "enabled"
      BY <1>4 DEF Serviceable
    <2> HIDE DEF candidates
    <2> QED  BY <2>1, ServiceableServes
  <1> HIDE DEF candidates, chosen, m
  <1>5. IsFiniteSet(candidates) /\ candidates \subseteq Nat
    BY <1>1, <1>2, FS_Subset
  <1>6. \A d \in candidates : Listed(s, d) \subseteq Racks
    BY <1>1, <1>2 DEF Listed
  <1>7. chosen \subseteq candidates /\ Apart(s, chosen)
    BY <1>3, <1>5, <1>6, PackingIsApart
  <1>8. chosen \subseteq DOMAIN s.domains /\ Cardinality(chosen) \in Nat
    BY <1>1, <1>5, <1>7, FS_Subset, FS_CardinalityType
  <1>9. ServeApart(s, m.established, chosen, asked)
    BY <1>4, <1>7 DEF ServeApart, Apart
  <1> QED  BY <1>8, <1>9 DEF chosen, m

LEMMA RoundIsDiverse ==
    ASSUME NEW s, Apply(s), Representable(s)
    PROVE  DiversityIsReal'
  <1> DEFINE p == Compose(s, Context)
             m == Members(s, expected)
  <1>1. pod' = p /\ evidence' = s
    BY DEF Apply
  <1>2. /\ p.members = m /\ DOMAIN p.obligations = DOMAIN s.obligations
        /\ \A o \in DOMAIN s.obligations :
              p.obligations[o] = ObligationVerdict(s, m, p.domains, p.capacity, p.connectivity,
                                                   s.obligations[o])
    BY DEF Compose, Context
  <1> HIDE DEF p, m
  <1>3. ASSUME NEW o \in DOMAIN s.obligations,
               s.obligations[o].kind \in {"domain diversity", "maintenance window"},
               p.obligations[o].status = "satisfied"
        PROVE  \E chosen \in SUBSET DOMAIN s.domains :
                  /\ Cardinality(chosen) >= s.obligations[o].domains
                  /\ ServeApart(s, m.established, chosen, s.obligations[o])
    <2> DEFINE asked  == s.obligations[o]
               chosen == Satisfying(s, m, p.domains, asked)
    <2>1. /\ asked.kind \in {"domain diversity", "maintenance window"} /\ asked.domains \in Nat
          /\ ObligationVerdict(s, m, p.domains, p.capacity, p.connectivity, asked).status = "satisfied"
      BY <1>2, <1>3 DEF Representable
    <2> HIDE DEF asked
    <2>2. chosen \subseteq DOMAIN s.domains /\ Cardinality(chosen) \in Nat
          /\ ServeApart(s, m.established, chosen, asked)
      BY SatisfyingIsReal DEF m
    <2>3. Cardinality(chosen) >= asked.domains
      <3> HIDE DEF chosen
      <3>1. Cardinality(Satisfying(s, m, p.domains, asked)) \in Nat
        BY <2>2 DEF chosen
      <3>2. Cardinality(Satisfying(s, m, p.domains, asked)) >= asked.domains
        <4> DEFINE domains      == p.domains
                   capacity     == p.capacity
                   connectivity == p.connectivity
        <4>1. /\ asked.kind \in DiversityKinds /\ asked.domains \in Nat
              /\ ObligationVerdict(s, m, domains, capacity, connectivity, asked).status = "satisfied"
              /\ Cardinality(Satisfying(s, m, domains, asked)) \in Nat
          BY <2>1, <3>1 DEF DiversityKinds
        <4> HIDE DEF domains, capacity, connectivity
        <4>2. PICK n \in Nat : n = Cardinality(Satisfying(s, m, domains, asked))
          BY <4>1
        <4>3. PICK wanted \in Nat : wanted = asked.domains
          BY <4>1
        <4>4. n >= wanted
          BY <4>1, <4>2, <4>3, DiversityPacked
        <4> QED  BY <4>2, <4>3, <4>4 DEF domains
      <3> QED  BY <3>2 DEF chosen
    <2> HIDE DEF chosen
    <2>4. \E taken \in SUBSET DOMAIN s.domains :
             /\ Cardinality(taken) >= asked.domains
             /\ ServeApart(s, m.established, taken, asked)
      BY <2>2, <2>3
    <2> QED  BY <2>4 DEF asked
  <1> QED  BY <1>1, <1>2, <1>3 DEF DiversityIsReal

\* composer.cpp of the greedy packing, "if it returns N then N disjoint domains
\* really exist": an obligation of diversity is reported satisfied only when as many
\* domains as it asks for serve at once and no two of them share a rack.
THEOREM DiversityHolds ==
    ASSUME SnapshotsAreRepresentable
    PROVE  Spec => []DiversityIsReal
  <1>1. Init => DiversityIsReal
    BY DEF Init, DiversityIsReal
  <1>2. RoundsInvariant /\ DiversityIsReal /\ [Next]_vars => DiversityIsReal'
    <2> SUFFICES ASSUME RoundsInvariant, DiversityIsReal, [Next]_vars
                 PROVE  DiversityIsReal'
      OBVIOUS
    <2>1. ASSUME NEW s \in IF evidence = <<>> THEN FirstSnapshots ELSE Snapshots(evidence), Apply(s)
          PROVE  DiversityIsReal'
      <3>1. Representable(s)
        BY RoundIsRepresentable DEF RoundsInvariant
      <3> QED  BY <2>1, <3>1, RoundIsDiverse
    <2>2. ASSUME UNCHANGED <<pod, evidence>> PROVE DiversityIsReal'
      BY <2>2 DEF DiversityIsReal
    <2>3. CASE Mint
      BY <2>2, <2>3 DEF Mint
    <2>4. ASSUME NEW t, Revoke(t) PROVE DiversityIsReal'
      BY <2>2, <2>4 DEF Revoke
    <2>5. CASE UNCHANGED vars
      BY <2>2, <2>5 DEF vars
    <2> QED  BY <2>1, <2>3, <2>4, <2>5 DEF Next
  <1> QED  BY <1>1, <1>2, RoundsInvariance, PTL DEF Spec
=============================================================================
