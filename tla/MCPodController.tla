-------------------------- MODULE MCPodController --------------------------
(* PodController for TLC: the evidence each instance feeds it. *)
EXTENDS PodController

CONSTANTS d1, d2       \* two descriptor digests

Seen(generation) ==
    [count |-> 1, generation |-> generation, digest |-> d1, fresh |-> TRUE, supported |-> TRUE,
     admissible |-> TRUE, membership |-> "established", health |-> "ok", admin |-> "enabled"]
NotSeen       == [Seen(1) EXCEPT !.count = 0]
SeenTwice     == [Seen(1) EXCEPT !.count = 2]
Left          == [Seen(1) EXCEPT !.membership = "leaving"]
SelfFenced    == [Seen(2) EXCEPT !.membership = "fenced"]
Joining       == [Seen(2) EXCEPT !.membership = "joining"]
OnlyDeclared  == [Seen(2) EXCEPT !.admissible = FALSE]
OutOfDate     == [Seen(2) EXCEPT !.fresh = FALSE]
OtherRevision == [Seen(2) EXCEPT !.supported = FALSE]
OtherDigest   == [Seen(2) EXCEPT !.digest = d2]
Unhealthy     == [Seen(1) EXCEPT !.health = "critical"]
Weak          == [Seen(1) EXCEPT !.health = "impaired"]

Observe(reports, up) ==
    {[reports |-> s, up |-> up, down |-> {}, routes |-> {}, impaired |-> FALSE] :
        s \in [Racks -> reports]}

\* Authority: every rack reports well, at its first or at its second generation.
AuthorityObservations == Observe({Seen(1), Seen(2)}, Pairs)

\* Lifecycle: racks present, weak or absent, joined by nothing, by links or by a
\* route; once with something else impaired; and one rack reporting everything a
\* rack can report while the others are well.
LifecycleObservations ==
    LET AnyReport  == {Seen(2), SeenTwice, Left, SelfFenced, Joining, OnlyDeclared, OutOfDate,
                       OtherRevision, OtherDigest, Unhealthy}
        Longest    == CHOOSE path \in Paths : Len(path) = Cardinality(Racks)
        Routed     == {[path |-> Longest, works |-> TRUE]}
    IN  Observe({Seen(1), Weak, NotSeen}, Pairs) \cup Observe({Seen(1)}, {})
        \cup {[o EXCEPT !.routes = Routed] : o \in Observe({Seen(1), NotSeen}, {})}
        \cup {[o EXCEPT !.impaired = TRUE] : o \in Observe({Seen(1)}, Pairs)}
        \cup {[o EXCEPT !.reports[CHOOSE r \in Racks : TRUE] = report] :
                  o \in Observe({Seen(1)}, Pairs), report \in AnyReport}
=============================================================================
