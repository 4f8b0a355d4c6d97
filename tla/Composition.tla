---------------------------- MODULE Composition ----------------------------
(***************************************************************************)
(* The part of the composer (src/engine/composer.cpp) that decides who is  *)
(* a member of the pod, at which generation, which pairs of members are    *)
(* connected, and which epoch and lifecycle follow.  Capacity, failure     *)
(* domains, obligations and links degraded on their own account reach it   *)
(* as one fact of the evidence: whether anything of that kind is impaired. *)
(* All links and routes carry one resource class.                          *)
(***************************************************************************)
EXTENDS Naturals, Sequences, FiniteSets, Lifecycle

CONSTANTS
    Racks,
    MaxGeneration,         \* bound of the model: newest rack generation
    Digests,               \* descriptor digests
    NoDigest,
    RequireFullCoverage,   \* policy.require_full_coverage
    MinEstablished         \* policy.min_established_members

ASSUME CompositionAssumption ==
    /\ IsFiniteSet(Racks)
    /\ MaxGeneration \in Nat
    /\ NoDigest \notin Digests
    /\ RequireFullCoverage \in BOOLEAN
    /\ MinEstablished \in Nat

AdminStates == {"enabled", "draining", "maintenance", "disabled"}

\* What one observation says of one rack: how many records name it, and what
\* the first of them says.  `admissible' is join_admissible() of its provenance.
Reports ==
    [count : 0 .. 2, generation : 1 .. MaxGeneration, digest : Digests,
     fresh : BOOLEAN, supported : BOOLEAN, admissible : BOOLEAN,
     membership : {"joining", "established", "leaving", "retired", "fenced"},
     health : {"ok", "impaired", "critical", "unknown"},
     admin : AdminStates]

\* Links join pairs of racks: `up' are the pairs with one that works as far as
\* its own evidence goes, `down' those with one that does not.  A route names the
\* racks it traverses and whether its own evidence is in order.
Pairs == {pair \in SUBSET Racks : Cardinality(pair) = 2}
Paths == {path \in UNION {[1 .. n -> Racks] : n \in 1 .. Cardinality(Racks)} :
             \A i, j \in DOMAIN path : path[i] = path[j] => i = j}
Routes == [path : Paths, works : BOOLEAN]
Evidence == [reports : [Racks -> Reports], up : SUBSET Pairs, down : SUBSET Pairs,
             routes : SUBSET Routes, impaired : BOOLEAN]

\* MemberExpectation; generation 0 stands for a rack the pod has no record of.
Expectations == [generation : 0 .. MaxGeneration, digest : Digests \cup {NoDigest}]
NoExpectation == [generation |-> 0, digest |-> NoDigest]

-----------------------------------------------------------------------------
\* evaluate_members(): the verdict on a rack, the first rule that applies.
MemberStatus(report, expected) ==
    LET adopted == expected.generation < report.generation
    IN  IF report.count > 1 THEN "conflicting"
        ELSE IF report.count = 0
             THEN IF expected = NoExpectation THEN "unknown" ELSE "missing"
        ELSE IF ~report.fresh THEN "stale"
        ELSE IF ~report.supported THEN "unsupported"
        ELSE IF report.membership \in {"leaving", "retired"} THEN "retiring"
        ELSE IF report.membership = "fenced" THEN "fenced"
        ELSE IF report.generation < expected.generation THEN "stale"
        ELSE IF report.generation = expected.generation /\ report.digest # expected.digest
             THEN "conflicting"
        ELSE IF report.membership = "joining" \/ (adopted /\ ~report.admissible) THEN "joining"
        ELSE "established"

Established(evidence, expected) ==
    {r \in Racks : MemberStatus(evidence.reports[r], expected[r]) = "established"}

\* connectivity_usable of an established member.
Reachable(evidence, expected) ==
    {r \in Established(evidence, expected) :
        /\ evidence.reports[r].health \in {"ok", "impaired"}
        /\ evidence.reports[r].admin # "disabled"}

\* adopt_generation_advances(): one epoch for any number of adopted members.
Adopts(evidence, expected) ==
    \E r \in Established(evidence, expected) :
        expected[r].generation < evidence.reports[r].generation
\* Mutant: one epoch for each of them.
AdvancePerMember(epoch, evidence, expected) ==
    epoch + Cardinality({r \in Established(evidence, expected) :
                            expected[r].generation < evidence.reports[r].generation})
ComposedEpoch(epoch, evidence, expected) ==
    IF Adopts(evidence, expected) THEN epoch + 1 ELSE epoch

\* Mutant: only what this round established is recorded.
RecordEstablishedOnly(evidence, expected) ==
    [r \in Racks |->
        IF r \in Established(evidence, expected)
        THEN [generation |-> evidence.reports[r].generation, digest |-> evidence.reports[r].digest]
        ELSE NoExpectation]

\* derive_expectations(): a rack that left leaves nothing behind, an established
\* one is recorded as observed, any other keeps what was recorded.
derive_expectations(evidence, expected) ==
    [r \in Racks |->
        LET status == MemberStatus(evidence.reports[r], expected[r])
        IN  IF status = "retiring" THEN NoExpectation
            ELSE IF status = "established"
                 THEN [generation |-> evidence.reports[r].generation,
                       digest |-> evidence.reports[r].digest]
            ELSE expected[r]]

-----------------------------------------------------------------------------
\* The pairs of racks a route says something of: neighbours on its path, and
\* its two ends.
RoutePairs(route) ==
    LET path == route.path
    IN  Pairs \cap ({{path[i], path[i + 1]} : i \in 1 .. Len(path) - 1}
                    \cup {{path[1], path[Len(path)]}})

\* classify_route() finds it usable: in order, and every rack on it reachable.
RouteUsable(route, reachable) ==
    route.works /\ {route.path[i] : i \in DOMAIN route.path} \subseteq reachable

\* evaluate_connectivity(): the pairs a verdict is given on, and those with a
\* link or a route that carries traffic.
Covered(evidence, expected) ==
    evidence.up \cup evidence.down \cup (UNION {RoutePairs(route) : route \in evidence.routes})
    \cup {pair \in Pairs : RequireFullCoverage /\ pair \subseteq Established(evidence, expected)}
Connected(evidence, expected) ==
    LET reachable == Reachable(evidence, expected)
    IN  {pair \in evidence.up : pair \subseteq reachable}
        \cup UNION {RoutePairs(route) : route \in {x \in evidence.routes : RouteUsable(x, reachable)}}

\* has_degradation(): a rack of the composition is not established, a pair has no
\* usable link or route, or has one that is not (a link with an impaired end is
\* only degraded), or something else is impaired.
has_degradation(evidence, expected) ==
    LET reachable == Reachable(evidence, expected)
        healthy   == {r \in reachable : evidence.reports[r].health = "ok"}
    IN  \/ evidence.impaired \/ evidence.down # {}
        \/ \E pair \in evidence.up : ~(pair \subseteq healthy)
        \/ \E route \in evidence.routes :
              RoutePairs(route) # {} /\ ~RouteUsable(route, reachable)
        \/ Covered(evidence, expected) # Connected(evidence, expected)
        \/ \E r \in Racks : MemberStatus(evidence.reports[r], expected[r])
                                \notin {"established", "unknown"}

\* The first choice of evaluate_lifecycle(), from this round's evidence alone.
EvidenceLifecycle(evidence, expected) ==
    LET established == Established(evidence, expected)
        several     == Cardinality(established) >= 2
        Admin(r)    == evidence.reports[r].admin
    IN  IF several /\ Covered(evidence, expected) = {} THEN "degraded"
        ELSE IF established = {} THEN "constructing"
        ELSE IF several /\ Connected(evidence, expected) = {} THEN "partitioned"
        ELSE IF \A r \in established : Admin(r) = "maintenance" THEN "maintenance"
        ELSE IF \E r \in established : Admin(r) # "enabled" THEN "draining"
        ELSE IF \/ has_degradation(evidence, expected)
                \/ Cardinality(established) < MinEstablished THEN "degraded"
        ELSE "active"

\* evaluate_lifecycle(): a restart, a doubtful commit and an epoch advance each
\* override what the evidence asks for; then the transition must be legal.
ComposedLifecycle(lifecycle, evidence, expected, recovered, ambiguous) ==
    LET asked   == EvidenceLifecycle(evidence, expected)
        desired == IF ambiguous THEN "partitioned"
                   ELSE IF recovered THEN "recovering"
                   ELSE IF asked = "active" /\ Adopts(evidence, expected) THEN "degraded"
                   ELSE asked
    IN  next_lifecycle(lifecycle, desired)
=============================================================================
