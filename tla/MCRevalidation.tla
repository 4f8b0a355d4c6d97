--------------------------- MODULE MCRevalidation ---------------------------
(* Revalidation for TLC: a pod of three racks, and what may befall it.     *)
EXTENDS Revalidation, TLC

CONSTANTS d1, d2, d3   \* descriptor digests

Claim(key, domain, amount, reserved) ==
    [resource |-> 1, key |-> key, domain |-> domain, amount |-> amount, reserved |-> reserved]
Rack(domain, claims) ==
    [count |-> 1, generation |-> 1, digest |-> d1, observed |-> 0, supported |-> TRUE,
     admissible |-> TRUE, membership |-> "established", health |-> "ok", admin |-> "enabled",
     domains |-> {domain}, claims |-> claims]
Link(a, b, domain) ==
    [ends |-> <<a, b>>, generations |-> <<1, 1>>, admin |-> "enabled", oper |-> "up",
     observed |-> 0, route |-> 0, domain |-> domain, resource |-> 1, capacity |-> 2]
Route(path, capacity) ==
    [path |-> path, generations |-> [i \in DOMAIN path |-> 1], state |-> "installed",
     observed |-> 0, resource |-> 1, capacity |-> capacity]
Obligation(kind) ==
    [kind |-> kind, racks |-> {}, domains |-> 0, domainKind |-> "power", floors |-> <<>>,
     margin |-> 0, mandatory |-> TRUE]

\* Racks 2 and 3 share a power domain and report one budget between them.
Base ==
    [at |-> 1,
     members |-> (1 :> Rack(1, {Claim(1, 1, 2, 1)})) @@ (2 :> Rack(2, {Claim(2, 2, 2, 0)}))
                 @@ (3 :> Rack(2, {Claim(2, 2, 2, 0)})),
     domains |-> (1 :> [kind |-> "power", members |-> {1}])
                 @@ (2 :> [kind |-> "power", members |-> {2, 3}]),
     links |-> (1 :> Link(1, 2, 1)) @@ (2 :> Link(2, 3, 2)),
     routes |-> (1 :> Route(<<1, 2, 3>>, 1)) @@ (2 :> Route(<<1, 3>>, 2)),
     order |-> <<1, 2>>,
     obligations |-> (1 :> [Obligation("capacity floor") EXCEPT !.floors = (1 :> 2), !.margin = 50])
                     @@ (2 :> [Obligation("protected path") EXCEPT !.racks = {1, 3}])
                     @@ (3 :> [Obligation("domain diversity") EXCEPT !.domains = 2])
                     @@ (4 :> [Obligation("maintenance window") EXCEPT !.domains = 1])]

Without(f, x) == [y \in DOMAIN f \ {x} |-> f[y]]

\* One rack: absent, twice there, of another generation or digest, leaving,
\* unfinished, unwell, moved by its operator, out of date.
OfRack(s, r) ==
    {[s EXCEPT !.members[r].count = n] : n \in {0, 2}}
    \cup {[s EXCEPT !.members[r].generation = 2, !.members[r].digest = d] : d \in {d1, d2}}
    \cup {[s EXCEPT !.members[r].digest = d3]}
    \cup {[s EXCEPT !.members[r].membership = x] : x \in {"joining", "leaving", "fenced"}}
    \cup {[s EXCEPT !.members[r].health = x] : x \in {"impaired", "critical"}}
    \cup {[s EXCEPT !.members[r].admin = x] : x \in {"draining", "maintenance", "disabled"}}
    \cup {[s EXCEPT !.members[r].observed = 1], [s EXCEPT !.members[r].supported = FALSE],
          [s EXCEPT !.members[r].generation = 2, !.members[r].admissible = FALSE]}
\* Its claims and its domains: another amount, a budget shared across domains, a
\* claim in a domain it does not declare, an unlisted and an undeclared domain.
OfClaims(s, r) ==
    {[s EXCEPT !.members[r].claims = {c}] :
        c \in {Claim(r, 2, 1, 1), Claim(2, 1, 2, 0), Claim(1, 1, 98, 0), Claim(1, 2, 99, 99)}}
    \cup {[s EXCEPT !.members[r].claims = {}]}
    \cup {[s EXCEPT !.members[r].domains = x] : x \in {{}, {1, 2}, {3}}}
OfDomains(s) ==
    {[s EXCEPT !.domains = Without(@, 2)], [s EXCEPT !.domains[2].kind = "cooling"],
     [s EXCEPT !.domains[1].members = {1, 3}],
     [s EXCEPT !.domains[1].members = {1, 3}, !.members[3].count = 0], [s EXCEPT !.domains[1].members = {}],
     [s EXCEPT !.domains = @ @@ (3 :> [kind |-> "power", members |-> {3}])]}
OfLinks(s) ==
    {[s EXCEPT !.links = Without(@, 1)], [s EXCEPT !.links = @ @@ (3 :> Link(1, 3, 2))],
     [s EXCEPT !.links[2].admin = "disabled"], [s EXCEPT !.links[2].observed = 1],
     [s EXCEPT !.links[1].route = 2], [s EXCEPT !.links[1].route = 3],
     [s EXCEPT !.links[2].resource = 2], [s EXCEPT !.links[1].generations[1] = 2]}
    \cup {[s EXCEPT !.links[1].oper = x] : x \in {"down", "degraded", "unknown"}}
OfRoutes(s) ==
    {[s EXCEPT !.routes = Without(@, 2), !.order = <<1>>], [s EXCEPT !.routes[1].observed = 1],
     [s EXCEPT !.routes[1].generations[2] = 2], [s EXCEPT !.routes[1].capacity = 2],
     [s EXCEPT !.routes[2].resource = 2], [s EXCEPT !.order = <<2, 1>>]}
    \cup {[s EXCEPT !.routes[2].state = x] : x \in {"withdrawn", "pending"}}
OfObligations(s) ==
    {[s EXCEPT !.obligations = Without(@, 3)], [s EXCEPT !.obligations[1].floors = (1 :> 3)],
     [s EXCEPT !.obligations[1].floors = (2 :> 1)], [s EXCEPT !.obligations[3].mandatory = FALSE],
     [s EXCEPT !.obligations[3].domains = 3],
     [s EXCEPT !.obligations[3].domainKind = "cooling"], [s EXCEPT !.obligations[4].domains = 2]}

Variants(s) ==
    (UNION {OfRack(s, r) \cup OfClaims(s, r) : r \in {1, 3}})
    \cup OfDomains(s) \cup OfLinks(s) \cup OfRoutes(s) \cup OfObligations(s)
    \cup {[s EXCEPT !.at = 3], [s EXCEPT !.members = [r \in Racks |-> [@[r] EXCEPT !.count = 0]]]}

\* A pod that nothing is asked of.
Plain == [Base EXCEPT !.obligations = <<>>]

\* Two racks at once.
Together ==
    (UNION {OfRack(t, 3) : t \in OfRack(Base, 1)}) \cup UNION {OfClaims(t, 3) : t \in OfClaims(Base, 1)}

First == {Base, Plain} \cup Variants(Base) \cup Together
Follow(s) ==
    {s, Base} \cup (IF s = Base THEN Variants(s) ELSE {})
    \cup (IF s.obligations = <<>> THEN {Plain} \cup OfRack(Plain, 3) ELSE {})
    \cup {[s EXCEPT !.routes[2].state = "withdrawn"] :
              l \in {x \in DOMAIN s.links : s.links[x].route = 2}}
    \cup {[s EXCEPT !.domains[2].kind = "cooling"] :
              r \in {x \in Racks : s.members[x].domains = {1, 2}}}
=============================================================================
