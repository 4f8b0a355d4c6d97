----------------------------- MODULE Lifecycle -----------------------------
(***************************************************************************)
(* The lifecycle of a pod (src/model/pod_state.cpp): which transitions are *)
(* legal and what becomes of a composition that asks for an illegal one.   *)
(***************************************************************************)
Live       == {"active", "degraded"}
LifecycleStates ==
    Live \cup {"constructing", "partitioned", "recovering", "maintenance", "draining", "retired"}

\* legal(): the targets each state may move to, itself included.
Targets(from) ==
    {from} \cup
    CASE from = "constructing" -> LifecycleStates
      [] from \in Live         -> LifecycleStates \ {"constructing"}
      [] from = "partitioned"  -> {"recovering", "retired"}
      [] from = "recovering"   -> Live \cup {"partitioned", "retired"}
      [] from = "maintenance"  -> Live \cup {"partitioned", "recovering", "retired"}
      [] from = "draining"     -> Live \cup {"partitioned", "recovering", "maintenance", "retired"}
      [] from = "retired"      -> {}

legal(from, to) == to \in Targets(from)

\* Mutant: whatever the evidence asks for is granted.
GrantAnyTransition(current, desired) == IF current = "retired" THEN "retired" ELSE desired

\* next_lifecycle(): an illegal request goes through an intermediate state or
\* is not granted at all.
next_lifecycle(current, desired) ==
    IF current = "retired" THEN "retired"
    ELSE IF legal(current, desired) THEN desired
    ELSE IF desired \in Live
         THEN IF current = "partitioned" THEN "recovering"
              ELSE IF current = "recovering" THEN desired ELSE "partitioned"
    ELSE IF desired = "recovering" THEN "partitioned"
    ELSE current
=============================================================================
