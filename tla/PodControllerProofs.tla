------------------------ MODULE PodControllerProofs ------------------------
(***************************************************************************)
(* Proofs about PodController, for any set of racks, any evidence and any  *)
(* value of the bounds: types, the durability of the epoch, the fencing of *)
(* tokens by restarts and by their fencing numbers, and retirement; then   *)
(* what becomes of a token that ended, and what the durable record holds.  *)
(***************************************************************************)
EXTENDS PodController, TLAPS

\* What a token that reached a caller, or a retirement, leaves behind in the store.
GrantedIsDurable ==
    /\ ~disk.pod => granted = {} /\ retirement # "done"
    /\ \A t \in granted :
        /\ t.lease =< minted /\ t.incarnation =< incarnations
        /\ t.epoch =< disk.epoch /\ t.fencing =< disk.fencing

\* What the memory of an open controller knows of those tokens.
MemoryIsAhead ==
    open_ =>
        /\ incarnation_ # 0
        /\ \A t \in granted : t.epoch =< epoch_ /\ t.fencing =< fencing_

\* Fencing numbers never outrun the tokens minted.
FencingIsBounded ==
    /\ fencing_ =< minted /\ disk.fencing =< minted

\* The commit open() waits for.
OpenCommit(p) ==
    p.op = "open" =>
        /\ ~open_ /\ incarnation_ # 0
        /\ disk.pod /\ disk.epoch =< epoch_ /\ disk.fencing = fencing_
        /\ disk.lifecycle = "retired" => lifecycle_ = "retired"
        /\ p.next.epoch = epoch_
        /\ \A t \in granted :
            /\ t.incarnation # incarnation_ /\ t.epoch =< epoch_
            /\ lifecycle_ # "retired" => t.epoch < epoch_

\* The commit of any other call.
CallCommit(p) ==
    p.op # "open" =>
        /\ open_
        /\ epoch_ =< p.next.epoch
        /\ legal(lifecycle_, p.next.lifecycle)
        /\ lifecycle_ = "retired" => p.next.lifecycle = "retired"

\* The commit mint_authority() waits for: one new token, ahead of all others.
MintCommit(p) ==
    p.op = "mint" =>
        \E token \in p.next.tokens :
            /\ p.next.tokens = tokens_ \cup {token}
            /\ token.lease = minted /\ token.fencing = fencing_
            /\ token.epoch = epoch_ /\ token.incarnation = incarnation_
            /\ \A t \in granted : t.lease < minted /\ t.fencing < fencing_

CommitInProgress ==
    \A p \in persisting :
        /\ p.next.pod /\ p.next.fencing = fencing_
        /\ p.op \notin {"apply", "override"} => p.next.lifecycle = lifecycle_
        /\ p.op = "retire" => lifecycle_ = "retired"
        /\ OpenCommit(p) /\ CallCommit(p) /\ MintCommit(p)

-----------------------------------------------------------------------------
(* The operators the controller is built from. *)

\* next_lifecycle() only ever takes a legal transition, and none out of retired.
LEMMA NextLifecycleIsLegal ==
    ASSUME NEW current \in LifecycleStates, NEW desired \in LifecycleStates
    PROVE  /\ next_lifecycle(current, desired) \in LifecycleStates
           /\ legal(current, next_lifecycle(current, desired))
           /\ current = "retired" => next_lifecycle(current, desired) = "retired"
           /\ next_lifecycle(current, desired) = "retired" => "retired" \in {current, desired}
BY DEF next_lifecycle, legal, Targets, LifecycleStates, Live

\* evaluate_lifecycle() moves a pod legally, whatever the evidence.
LEMMA ComposedLifecycleIsLegal ==
    ASSUME NEW lifecycle \in LifecycleStates, NEW evidence, NEW expected,
           NEW recovered \in BOOLEAN, NEW ambiguous \in BOOLEAN
    PROVE  LET composed == ComposedLifecycle(lifecycle, evidence, expected, recovered, ambiguous)
           IN  /\ composed \in LifecycleStates
               /\ legal(lifecycle, composed)
               /\ lifecycle = "retired" <=> composed = "retired"
<1>1. EvidenceLifecycle(evidence, expected) \in LifecycleStates \ {"retired"}
  BY DEF EvidenceLifecycle, LifecycleStates, Live
<1>2. \A d \in LifecycleStates \ {"retired"} :
         LET n == next_lifecycle(lifecycle, d)
         IN  /\ n \in LifecycleStates
             /\ legal(lifecycle, n)
             /\ lifecycle = "retired" <=> n = "retired"
  BY NextLifecycleIsLegal
<1>3. {"partitioned", "recovering", "degraded"} \subseteq LifecycleStates \ {"retired"}
  BY DEF LifecycleStates, Live
<1>. QED  BY <1>1, <1>2, <1>3 DEF ComposedLifecycle

\* Staying in a state is legal, and so is retiring from any.
LEMMA StayOrRetire ==
    ASSUME NEW lifecycle \in LifecycleStates
    PROVE  legal(lifecycle, lifecycle) /\ legal(lifecycle, "retired")
BY DEF legal, Targets, LifecycleStates, Live

\* adopt_generation_advances() keeps the epoch or advances it by one.
LEMMA ComposedEpochAdvances ==
    ASSUME NEW epoch \in Nat, NEW evidence, NEW expected
    PROVE  ComposedEpoch(epoch, evidence, expected) \in {epoch, epoch + 1}
BY DEF ComposedEpoch

\* Overrides change nothing but admin states, so the result is evidence again.
LEMMA EffectiveIsEvidence ==
    ASSUME NEW evidence \in Evidence, NEW overrides \in [Racks -> AdminStates \cup {"none"}]
    PROVE  Effective(evidence, overrides) \in Evidence
<1>1. ASSUME NEW r \in Racks
      PROVE  (IF overrides[r] = "none" THEN evidence.reports[r]
              ELSE [evidence.reports[r] EXCEPT !.admin = overrides[r]]) \in Reports
  BY DEF Evidence, Reports
<1>. QED  BY <1>1 DEF Effective, Evidence

\* derive_expectations() records what a rack reported or keeps what was recorded.
LEMMA DerivedExpectationsType ==
    ASSUME NEW evidence \in Evidence, NEW expected \in [Racks -> Expectations]
    PROVE  derive_expectations(evidence, expected) \in [Racks -> Expectations]
<1>1. NoExpectation \in Expectations
  BY CompositionAssumption DEF NoExpectation, Expectations
<1>2. ASSUME NEW r \in Racks
      PROVE  [generation |-> evidence.reports[r].generation,
              digest |-> evidence.reports[r].digest] \in Expectations
  BY CompositionAssumption DEF Evidence, Reports, Expectations
<1>. QED  BY <1>1, <1>2 DEF derive_expectations

-----------------------------------------------------------------------------
(* Types. *)

\* A persisted record built from typed parts is a durable state.
LEMMA DurableType ==
    ASSUME NEW epoch \in 0 .. MaxEpoch, NEW lifecycle \in LifecycleStates,
           NEW expectations \in [Racks -> Expectations], NEW tokens \in SUBSET Tokens,
           NEW revoked \in SUBSET (1 .. MaxLease), NEW fencing \in 0 .. MaxLease,
           NEW admin \in [Racks -> AdminStates \cup {"none"}]
    PROVE  Durable(epoch, lifecycle, expectations, tokens, revoked, fencing, admin)
               \in DurableStates
BY DEF Durable, DurableStates

\* What apply_locked() hands to the store is a commit record of the right type.
LEMMA ApplyLockedType ==
    ASSUME TypeOK, NEW op \in {"apply", "override"}, NEW observed \in Evidence,
           NEW overrides \in [Racks -> AdminStates \cup {"none"}],
           ApplyLocked(op, observed, overrides)
    PROVE  /\ persisting' \subseteq Commits
           /\ known' \in [Racks -> Expectations]
<1>. DEFINE evidence  == Effective(observed, overrides)
            epoch     == ComposedEpoch(epoch_, evidence, expectations_)
            lifecycle == ComposedLifecycle(lifecycle_, evidence, expectations_,
                                           recovered_round_, ambiguous_commit_)
            derived   == derive_expectations(evidence, expectations_)
            surviving == {t \in tokens_ : Valid(t, epoch)}
            next      == Durable(epoch, lifecycle, derived, surviving, revoked_, fencing_,
                                 overrides)
<1>1. evidence \in Evidence
  BY EffectiveIsEvidence
<1>2. epoch \in 0 .. MaxEpoch
  <2>1. epoch_ \in Nat /\ epoch =< MaxEpoch
    BY ControllerAssumption DEF TypeOK, ApplyLocked
  <2>. QED  BY <2>1, ComposedEpochAdvances, ControllerAssumption
<1>3. lifecycle \in LifecycleStates
  BY ComposedLifecycleIsLegal DEF TypeOK
<1>4. derived \in [Racks -> Expectations]
  BY <1>1, DerivedExpectationsType DEF TypeOK
<1>5. next \in DurableStates
  <2>1. /\ surviving \in SUBSET Tokens /\ revoked_ \in SUBSET (1 .. MaxLease)
        /\ fencing_ \in 0 .. MaxLease
    BY DEF TypeOK
  <2>. HIDE DEF evidence, epoch, lifecycle, derived, surviving
  <2>. QED  BY <1>2, <1>3, <1>4, <2>1, DurableType
<1>6. persisting' = {[op |-> op, next |-> next, evidence |-> {evidence}]}
  BY DEF ApplyLocked, Persist
<1>7. known' \in [Racks -> Expectations]
  <2>1. NoExpectation \in Expectations
    BY CompositionAssumption DEF NoExpectation, Expectations
  <2>2. known \in [Racks -> Expectations]
    BY DEF TypeOK
  <2>. QED  BY <2>1, <2>2 DEF ApplyLocked
<1>. HIDE DEF evidence, next
<1>. QED  BY <1>1, <1>5, <1>6, <1>7 DEF Commits, Operations

\* A process that has not opened has the declared types.
LEMMA InitType == Init => TypeOK
<1>. SUFFICES ASSUME Init PROVE TypeOK
  OBVIOUS
<1>1. NoExpectation \in Expectations
  BY CompositionAssumption DEF NoExpectation, Expectations
<1>2. NothingExpected \in [Racks -> Expectations]
  BY <1>1 DEF NothingExpected
<1>3. NoOverrides \in [Racks -> AdminStates \cup {"none"}]
  BY DEF NoOverrides
<1>4. "constructing" \in LifecycleStates
  BY DEF LifecycleStates
<1>5. Blank \in DurableStates
  BY <1>2, <1>3, <1>4, ControllerAssumption DEF Blank, DurableStates
<1>6. /\ 0 \in 0 .. MaxEpoch /\ 0 \in 0 .. MaxLease /\ 0 \in 0 .. MaxTime
      /\ 0 \in 0 .. MaxIncarnation /\ 0 \in 0 .. MaxFailures /\ 0 \in 0 .. 0
  BY ControllerAssumption
<1>. QED  BY <1>2, <1>3, <1>4, <1>5, <1>6, Zenon DEF Init, TypeOK

\* The calls that persist the live state write a durable state.
LEMMA PersistLiveType ==
    ASSUME TypeOK, NEW op \in Operations, NEW lifecycle \in LifecycleStates,
           NEW tokens \in SUBSET Tokens, NEW revoked \in SUBSET (1 .. MaxLease),
           NEW fencing \in 0 .. MaxLease, NEW admin \in [Racks -> AdminStates \cup {"none"}],
           PersistLive(op, lifecycle, tokens, revoked, fencing, admin)
    PROVE  persisting' \subseteq Commits
<1>. DEFINE next == Durable(epoch_, lifecycle, expectations_, tokens, revoked, fencing, admin)
<1>1. next \in DurableStates
  BY DurableType DEF TypeOK
<1>2. persisting' = {[op |-> op, next |-> next, evidence |-> {}]}
  BY DEF PersistLive, Persist
<1>. HIDE DEF next
<1>. QED  BY <1>1, <1>2 DEF Commits

\* An interrupted commit leaves a durable state.
LEMMA InterruptedType ==
    ASSUME TypeOK, NEW p \in persisting, Interrupted(p)
    PROVE  disk' \in DurableStates /\ leftover' \in BOOLEAN
BY DEF TypeOK, Commits, Interrupted

\* A commit the store confirmed leaves a durable state.
LEMMA StoredType ==
    ASSUME TypeOK, NEW ops, NEW p \in persisting, Stored(ops, p)
    PROVE  disk' \in DurableStates /\ leftover' \in BOOLEAN /\ persisting' = {}
BY DEF TypeOK, Commits, Stored

\* Every action keeps the types.
LEMMA TypeStep ==
    ASSUME TypeOK, MemoryIsAhead, FencingIsBounded, [Next]_vars
    PROVE  TypeOK'
<1>. USE ControllerAssumption
<1>0. CASE UNCHANGED vars
  BY <1>0 DEF vars, memory, world, history, TypeOK
<1>1. CASE OpenFresh
  <2>1. "constructing" \in LifecycleStates
    BY DEF LifecycleStates
  <2>2. /\ 0 \in 0 .. MaxEpoch /\ incarnation_' \in 0 .. incarnations'
        /\ incarnations' \in 0 .. MaxIncarnation
    BY <1>1 DEF OpenFresh, TypeOK
  <2>. QED  BY <1>1, <2>1, <2>2 DEF OpenFresh, history, TypeOK
<1>2. CASE OpenRefused
  <2>1. "constructing" \in LifecycleStates
    BY DEF LifecycleStates
  <2>2. /\ 0 \in 0 .. MaxEpoch /\ incarnation_' \in 0 .. incarnations'
        /\ incarnations' \in 0 .. MaxIncarnation
    BY <1>2 DEF OpenRefused, TypeOK
  <2>3. failures' \in 0 .. MaxFailures
    BY <1>2 DEF OpenRefused, TypeOK
  <2>. QED  BY <1>2, <2>1, <2>2, <2>3 DEF OpenRefused, history, TypeOK
<1>3. CASE OpenRecovered
  <2>1. /\ epoch_' \in 0 .. MaxEpoch /\ lifecycle_' \in LifecycleStates
        /\ expectations_' \in [Racks -> Expectations] /\ tokens_' \subseteq Tokens
        /\ revoked_' \subseteq 1 .. MaxLease /\ fencing_' \in 0 .. MaxLease
        /\ admin_overrides_' \in [Racks -> AdminStates \cup {"none"}]
    BY <1>3 DEF OpenRecovered, TakeOver, RecoveredEpoch, RecoveredLifecycle, EpochAvailable, TypeOK,
             DurableStates, LifecycleStates
  <2>2. [disk EXCEPT !.tokens = {}, !.epoch = epoch_', !.lifecycle = lifecycle_']
            \in DurableStates
    BY <2>1 DEF TypeOK, DurableStates
  <2>3. persisting' \subseteq Commits
    BY <1>3, <2>2 DEF OpenRecovered, TakeOver, Persist, Commits, Operations
  <2>. QED  BY <1>3, <2>1, <2>3 DEF OpenRecovered, TakeOver, history, TypeOK
<1>4. CASE Close
  BY <1>4 DEF Close, world, history, TypeOK
<1>5. CASE Crash
  <2>1. /\ NothingExpected \in [Racks -> Expectations] /\ "constructing" \in LifecycleStates
        /\ NoOverrides \in [Racks -> AdminStates \cup {"none"}]
    BY CompositionAssumption DEF NothingExpected, NoExpectation, Expectations, NoOverrides,
                                 LifecycleStates
  <2>2. disk' \in DurableStates /\ leftover' \in BOOLEAN
    BY <1>5, InterruptedType DEF Crash, TypeOK
  <2>3. 0 \in 0 .. MaxEpoch /\ 0 \in 0 .. MaxLease /\ 0 \in 0 .. incarnations
    BY DEF TypeOK
  <2>. QED  BY <1>5, <2>1, <2>2, <2>3, Zenon DEF Crash, world, history, TypeOK
<1>6. CASE Tick
  BY <1>6 DEF Tick, memory, history, TypeOK
<1>7. ASSUME NEW observed \in Observations, Apply(observed) PROVE TypeOK'
  <2>1. ApplyLocked("apply", observed, admin_overrides_)
    BY <1>7 DEF Apply
  <2>2. /\ persisting' \subseteq Commits
        /\ known' \in [Racks -> Expectations]
    BY <2>1, ApplyLockedType DEF TypeOK
  <2>. QED  BY <1>7, <2>2 DEF Apply, memory, world, TypeOK
<1>8. ASSUME NEW rack \in Racks, NEW admin \in Overrides \cup {"none"}, SetAdmin(rack, admin)
      PROVE  TypeOK'
  <2>1. admin_overrides_' \in [Racks -> AdminStates \cup {"none"}]
    BY <1>8 DEF SetAdmin, TypeOK
  <2>2. persisting' \subseteq Commits /\ known' \in [Racks -> Expectations]
    <3>1. CASE \E evidence \in last_evidence_ :
                  ApplyLocked("override", evidence, admin_overrides_')
      BY <3>1, <2>1, ApplyLockedType DEF TypeOK
    <3>2. CASE UNCHANGED <<persisting, known>>
      BY <3>2 DEF TypeOK
    <3>3. CASE /\ PersistLive("admin", lifecycle_, tokens_, revoked_, fencing_, admin_overrides_')
               /\ UNCHANGED known
      BY <3>3, <2>1, PersistLiveType DEF TypeOK, Operations
    <3>. QED  BY <1>8, <3>1, <3>2, <3>3 DEF SetAdmin
  <2>. QED  BY <1>8, <2>1, <2>2 DEF SetAdmin, world, TypeOK
<1>9. CASE Retire
  <2>1. revoked_' \in SUBSET (1 .. MaxLease)
    BY <1>9 DEF Retire, TypeOK, Tokens
  <2>2. persisting' \subseteq Commits
    <3>1. {} \in SUBSET Tokens /\ "retired" \in LifecycleStates /\ "retire" \in Operations
      BY DEF LifecycleStates, Operations
    <3>. QED  BY <1>9, <2>1, <3>1, PersistLiveType DEF Retire, TypeOK
  <2>. QED  BY <1>9, <2>1, <2>2 DEF Retire, history, world, TypeOK, LifecycleStates
<1>10. CASE Mint
  <2>1. /\ minted + 1 \in 1 .. MaxLease /\ fencing_ + 1 \in 1 .. MaxLease
        /\ incarnation_ \in 1 .. MaxIncarnation /\ now + LeaseDuration \in Nat
    BY <1>10 DEF Mint, TypeOK, FencingIsBounded, MemoryIsAhead
  <2>. DEFINE token == [lease |-> minted + 1, epoch |-> epoch_, incarnation |-> incarnation_,
                        fencing |-> fencing_ + 1, issued |-> now,
                        expires |-> now + LeaseDuration]
  <2>2. token \in Tokens
    BY <2>1 DEF TypeOK, Tokens
  <2>3. PersistLive("mint", lifecycle_, tokens_ \cup {token}, revoked_, fencing_ + 1,
                    admin_overrides_)
    BY <1>10 DEF Mint
  <2>4. persisting' \subseteq Commits
    <3>1. tokens_ \cup {token} \in SUBSET Tokens /\ "mint" \in Operations
      BY <2>2 DEF TypeOK, Operations
    <3>. HIDE DEF token
    <3>. QED  BY <2>1, <2>3, <3>1, PersistLiveType DEF TypeOK
  <2>. QED  BY <1>10, <2>1, <2>4 DEF Mint, history, TypeOK
<1>11. ASSUME NEW lease \in 1 .. minted, Revoke(lease) PROVE TypeOK'
  <2>1. revoked_' \in SUBSET (1 .. MaxLease)
    BY <1>11 DEF Revoke, TypeOK
  <2>2. persisting' \subseteq Commits
    <3>1. {t \in tokens_ : t.lease # lease} \in SUBSET Tokens /\ "revoke" \in Operations
      BY DEF TypeOK, Operations
    <3>. QED  BY <1>11, <2>1, <3>1, PersistLiveType DEF Revoke, TypeOK
  <2>. QED  BY <1>11, <2>1, <2>2 DEF Revoke, world, history, TypeOK
<1>12. ASSUME NEW p \in persisting PROVE p \in Commits /\ p.next \in DurableStates
  BY DEF TypeOK, Commits
<1>13. ASSUME NEW p \in persisting, OpenDone(p) PROVE TypeOK'
  BY <1>13, StoredType DEF OpenDone, world, history, TypeOK
<1>14. ASSUME NEW p \in persisting, ApplyDone(p) PROVE TypeOK'
  <2>1. Fenced(p) \subseteq 1 .. MaxLease
    BY DEF Fenced, TypeOK, Tokens
  <2>2. /\ epoch_' \in 0 .. MaxEpoch /\ lifecycle_' \in LifecycleStates
        /\ expectations_' \in [Racks -> Expectations] /\ tokens_' \subseteq Tokens
        /\ last_evidence_' \subseteq Evidence
    BY <1>14, <1>12 DEF ApplyDone, DurableStates, Commits
  <2>3. known' \in [Racks -> Expectations]
    BY <1>14, <1>12 DEF ApplyDone, DurableStates, TypeOK
  <2>. QED  BY <1>14, <2>1, <2>2, <2>3, StoredType DEF ApplyDone, RecoveryIsOver, world, TypeOK
<1>15. ASSUME NEW p \in persisting, AdminDone(p) PROVE TypeOK'
  BY <1>15, StoredType DEF AdminDone, RecoveryIsOver, world, history, TypeOK
<1>16. ASSUME NEW p \in persisting, RetireDone(p) PROVE TypeOK'
  <2>1. p.next.revoked \subseteq 1 .. MaxLease
    BY <1>12 DEF DurableStates
  <2>. QED  BY <1>16, <2>1, StoredType DEF RetireDone, RecoveryIsOver, world, TypeOK
<1>17. ASSUME NEW p \in persisting, MintDone(p) PROVE TypeOK'
  <2>1. p.next.tokens \subseteq Tokens
    BY <1>12 DEF DurableStates
  <2>. QED  BY <1>17, <2>1, StoredType DEF MintDone, RecoveryIsOver, world, TypeOK
<1>18. ASSUME NEW p \in persisting, RevokeDone(p) PROVE TypeOK'
  <2>1. p.next.tokens \subseteq Tokens /\ p.next.revoked \subseteq 1 .. MaxLease
    BY <1>12 DEF DurableStates
  <2>. QED  BY <1>18, <2>1, StoredType DEF RevokeDone, RecoveryIsOver, world, TypeOK
<1>19. ASSUME NEW p \in persisting, CommitFails(p) PROVE TypeOK'
  <2>1. failures' \in 0 .. MaxFailures
    BY <1>19 DEF CommitFails, TypeOK
  <2>2. disk' \in DurableStates /\ leftover' \in BOOLEAN
    BY <1>19, InterruptedType DEF CommitFails
  <2>. QED  BY <1>19, <2>1, <2>2 DEF CommitFails, memory, TypeOK
<1>20. CASE OpenExhausted
  <2>1. /\ epoch_' \in 0 .. MaxEpoch /\ lifecycle_' \in LifecycleStates
        /\ expectations_' \in [Racks -> Expectations] /\ tokens_' \subseteq Tokens
        /\ revoked_' \subseteq 1 .. MaxLease /\ fencing_' \in 0 .. MaxLease
        /\ admin_overrides_' \in [Racks -> AdminStates \cup {"none"}]
    BY <1>20 DEF OpenExhausted, TakeOver, TypeOK, DurableStates
  <2>. QED  BY <1>20, <2>1 DEF OpenExhausted, TakeOver, history, TypeOK
<1>. QED
  BY <1>0, <1>1, <1>2, <1>3, <1>4, <1>5, <1>6, <1>7, <1>8, <1>9, <1>10, <1>11,
     <1>13, <1>14, <1>15, <1>16, <1>17, <1>18, <1>19, <1>20 DEF Next

-----------------------------------------------------------------------------
(* Safety. *)

Safe == /\ GrantedIsDurable /\ MemoryIsAhead /\ FencingIsBounded /\ CommitInProgress
        /\ EpochIsDurable /\ RestartFencesByEpoch /\ FencingIncreases /\ RetirementIsFinal

\* The numbers the invariant compares are naturals.
LEMMA Numbers ==
    ASSUME TypeOK
    PROVE  /\ epoch_ \in Nat /\ fencing_ \in Nat /\ minted \in Nat
           /\ incarnation_ \in Nat /\ incarnations \in Nat
           /\ disk.epoch \in Nat /\ disk.fencing \in Nat
           /\ \A t \in granted : /\ t.lease \in Nat /\ t.epoch \in Nat
                                 /\ t.incarnation \in Nat /\ t.fencing \in Nat
           /\ \A p \in persisting : p.next.epoch \in Nat /\ p.next.fencing \in Nat
<1>1. disk.epoch \in Nat /\ disk.fencing \in Nat
  BY ControllerAssumption DEF TypeOK, DurableStates
<1>2. ASSUME NEW t \in granted
      PROVE  t.lease \in Nat /\ t.epoch \in Nat /\ t.incarnation \in Nat /\ t.fencing \in Nat
  BY ControllerAssumption DEF TypeOK, Tokens
<1>3. ASSUME NEW p \in persisting PROVE p.next.epoch \in Nat /\ p.next.fencing \in Nat
  <2>1. p.next \in DurableStates
    BY DEF TypeOK, Commits
  <2>. QED  BY <2>1, ControllerAssumption DEF DurableStates
<1>. QED  BY <1>1, <1>2, <1>3, ControllerAssumption DEF TypeOK

\* The invariant holds before the first open().
LEMMA InitSafe == Init => Safe
BY ControllerAssumption DEF Init, Blank, Safe, GrantedIsDurable, MemoryIsAhead, FencingIsBounded, CommitInProgress,
       EpochIsDurable, RestartFencesByEpoch, FencingIncreases, RetirementIsFinal

\* Opening: the recovered epoch is ahead of every token a caller may hold.
LEMMA OpenSafe ==
    ASSUME TypeOK, Safe, OpenFresh \/ OpenRefused \/ OpenRecovered \/ OpenExhausted PROVE Safe'
<1>. USE Numbers
<1>1. CASE OpenFresh
  BY <1>1 DEF OpenFresh, Idle, history, Safe, GrantedIsDurable, MemoryIsAhead, FencingIsBounded,
     CommitInProgress, EpochIsDurable, RestartFencesByEpoch, FencingIncreases, RetirementIsFinal
<1>2. CASE OpenRefused
  BY <1>2 DEF OpenRefused, Idle, history, Safe, GrantedIsDurable, MemoryIsAhead,
     FencingIsBounded, CommitInProgress, EpochIsDurable, RestartFencesByEpoch, FencingIncreases,
     RetirementIsFinal
<1>3. CASE OpenRecovered
  <2>1. /\ GrantedIsDurable' /\ MemoryIsAhead' /\ FencingIsBounded' /\ EpochIsDurable'
        /\ RestartFencesByEpoch' /\ FencingIncreases' /\ RetirementIsFinal'
    BY <1>3 DEF OpenRecovered, TakeOver, history, Safe, GrantedIsDurable, MemoryIsAhead,
       FencingIsBounded, EpochIsDurable, RestartFencesByEpoch, FencingIncreases, RetirementIsFinal
  <2>2. CommitInProgress'
    <3>. DEFINE next == [disk EXCEPT !.tokens = {}, !.epoch = epoch_', !.lifecycle = lifecycle_']
    <3>1. /\ next.pod = disk.pod /\ next.fencing = disk.fencing /\ next.epoch = epoch_'
          /\ next.lifecycle = lifecycle_'
      BY DEF TypeOK, DurableStates
    <3>2. persisting' = {[op |-> "open", next |-> next, evidence |-> {}]}
      BY <1>3 DEF OpenRecovered, TakeOver, Persist
    <3>. HIDE DEF next
    <3>3. /\ ~open_' /\ incarnation_' # 0 /\ disk'.pod /\ disk'.epoch =< epoch_'
          /\ disk'.fencing = fencing_'
          /\ disk'.lifecycle = "retired" => lifecycle_' = "retired"
      BY <1>3 DEF OpenRecovered, TakeOver, RecoveredEpoch, RecoveredLifecycle
    <3>4. \A t \in granted' : /\ t.incarnation # incarnation_' /\ t.epoch =< epoch_'
                              /\ lifecycle_' # "retired" => t.epoch < epoch_'
      BY <1>3 DEF OpenRecovered, TakeOver, RecoveredEpoch, RecoveredLifecycle, history, Safe,
                   GrantedIsDurable
    <3>5. disk' = disk
      BY <1>3 DEF OpenRecovered, TakeOver
    <3>. QED  BY <3>1, <3>2, <3>3, <3>4, <3>5
              DEF CommitInProgress, OpenCommit, CallCommit, MintCommit
  <2>. QED  BY <2>1, <2>2 DEF Safe
<1>4. CASE OpenExhausted
  BY <1>4 DEF OpenExhausted, TakeOver, Idle, history, Safe, GrantedIsDurable, MemoryIsAhead,
     FencingIsBounded, CommitInProgress, EpochIsDurable, RestartFencesByEpoch, FencingIncreases,
     RetirementIsFinal
<1>. QED  BY <1>1, <1>2, <1>3, <1>4

\* The state a call persists: what the safety of the commit depends on.
LEMMA ApplyLockedCommit ==
    ASSUME TypeOK, NEW op, NEW observed, NEW overrides, ApplyLocked(op, observed, overrides)
    PROVE  \A p \in persisting' :
              /\ p.op = op /\ p.next.pod /\ p.next.fencing = fencing_
              /\ epoch_ =< p.next.epoch
              /\ legal(lifecycle_, p.next.lifecycle)
              /\ lifecycle_ = "retired" => p.next.lifecycle = "retired"
<1>. DEFINE evidence  == Effective(observed, overrides)
            epoch     == ComposedEpoch(epoch_, evidence, expectations_)
            lifecycle == ComposedLifecycle(lifecycle_, evidence, expectations_,
                                           recovered_round_, ambiguous_commit_)
<1>1. epoch_ =< epoch
  BY ComposedEpochAdvances, Numbers
<1>2. legal(lifecycle_, lifecycle) /\ (lifecycle_ = "retired" => lifecycle = "retired")
  BY ComposedLifecycleIsLegal DEF TypeOK
<1>. HIDE DEF epoch, lifecycle
<1>. QED  BY <1>1, <1>2 DEF ApplyLocked, Persist, Durable, epoch, lifecycle

\* The state the other calls persist: the live one, with the parts they replace.
LEMMA PersistLiveCommit ==
    ASSUME NEW op, NEW lifecycle, NEW tokens, NEW revoked, NEW fencing, NEW admin,
           PersistLive(op, lifecycle, tokens, revoked, fencing, admin)
    PROVE  \A p \in persisting' :
              /\ p.op = op /\ p.next.pod /\ p.next.fencing = fencing
              /\ p.next.epoch = epoch_ /\ p.next.lifecycle = lifecycle
              /\ p.next.tokens = tokens
BY DEF PersistLive, Persist, Durable

\* The same records, in every field.
LEMMA ApplyLockedRecord ==
    ASSUME NEW op, NEW observed, NEW overrides, ApplyLocked(op, observed, overrides),
           NEW p \in persisting'
    PROVE  LET evidence  == Effective(observed, overrides)
               epoch     == ComposedEpoch(epoch_, evidence, expectations_)
           IN  /\ p.op = op /\ p.evidence = {evidence}
               /\ p.next.epoch = epoch
               /\ p.next.lifecycle = ComposedLifecycle(lifecycle_, evidence, expectations_,
                                                       recovered_round_, ambiguous_commit_)
               /\ p.next.expectations = derive_expectations(evidence, expectations_)
               /\ p.next.tokens = {t \in tokens_ : Valid(t, epoch)}
               /\ p.next.revoked = revoked_
               /\ p.next = Durable(p.next.epoch, p.next.lifecycle, p.next.expectations,
                                   p.next.tokens, revoked_, fencing_, overrides)
BY DEF ApplyLocked, Persist, Durable

LEMMA PersistLiveRecord ==
    ASSUME NEW op, NEW lifecycle, NEW tokens, NEW revoked, NEW fencing, NEW admin,
           PersistLive(op, lifecycle, tokens, revoked, fencing, admin), NEW p \in persisting'
    PROVE  /\ p.op = op /\ p.next.epoch = epoch_ /\ p.next.lifecycle = lifecycle
           /\ p.next.expectations = expectations_ /\ p.next.tokens = tokens
           /\ p.next.revoked = revoked
           /\ p.next = Durable(epoch_, lifecycle, expectations_, tokens, revoked, fencing, admin)
BY DEF PersistLive, Persist, Durable

\* The calls, up to the commit they wait for.
LEMMA CallSafe ==
    ASSUME TypeOK, Safe,
           \/ \E observed \in Observations : Apply(observed)
           \/ \E rack \in Racks, admin \in Overrides \cup {"none"} : SetAdmin(rack, admin)
           \/ Retire \/ Mint
           \/ \E lease \in 1 .. minted : Revoke(lease)
    PROVE  Safe'
<1>. USE Numbers
<1>0. legal(lifecycle_, lifecycle_) /\ legal("retired", "retired")
  BY StayOrRetire DEF TypeOK, LifecycleStates
<1>1. ASSUME NEW observed \in Observations, Apply(observed) PROVE Safe'
  <2>1. CommitInProgress'
    BY <1>1, ApplyLockedCommit
       DEF Apply, memory, world, CommitInProgress, OpenCommit, CallCommit, MintCommit
  <2>. QED  BY <1>1, <2>1 DEF Apply, memory, world, Safe, GrantedIsDurable, MemoryIsAhead,
            FencingIsBounded, EpochIsDurable, RestartFencesByEpoch, FencingIncreases,
            RetirementIsFinal
<1>2. ASSUME NEW rack \in Racks, NEW admin \in Overrides \cup {"none"}, SetAdmin(rack, admin)
      PROVE  Safe'
  <2>1. CommitInProgress'
    <3>1. CASE \E evidence \in last_evidence_ :
                  ApplyLocked("override", evidence, admin_overrides_')
      BY <1>2, <3>1, ApplyLockedCommit
         DEF SetAdmin, world, CommitInProgress, OpenCommit, CallCommit, MintCommit
    <3>2. CASE UNCHANGED persisting
      BY <1>2, <3>2 DEF SetAdmin, Idle, CommitInProgress
    <3>3. CASE PersistLive("admin", lifecycle_, tokens_, revoked_, fencing_, admin_overrides_')
      BY <1>0, <1>2, <3>3, PersistLiveCommit
         DEF SetAdmin, world, CommitInProgress, OpenCommit, CallCommit, MintCommit
    <3>. QED  BY <1>2, <3>1, <3>2, <3>3 DEF SetAdmin
  <2>. QED  BY <1>2, <2>1 DEF SetAdmin, world, Safe, GrantedIsDurable, MemoryIsAhead,
            FencingIsBounded, EpochIsDurable, RestartFencesByEpoch, FencingIncreases,
            RetirementIsFinal
<1>3. CASE Retire
  <2>1. CommitInProgress'
    BY <1>0, <1>3, PersistLiveCommit
       DEF Retire, world, CommitInProgress, OpenCommit, CallCommit, MintCommit
  <2>. QED  BY <1>3, <2>1 DEF Retire, world, history, Safe, GrantedIsDurable, MemoryIsAhead,
            FencingIsBounded, EpochIsDurable, RestartFencesByEpoch, FencingIncreases,
            RetirementIsFinal
<1>4. CASE Mint
  <2>. DEFINE token == [lease |-> minted + 1, epoch |-> epoch_, incarnation |-> incarnation_,
                        fencing |-> fencing_ + 1, issued |-> now,
                        expires |-> now + LeaseDuration]
  <2>1. PersistLive("mint", lifecycle_, tokens_ \cup {token}, revoked_, fencing_ + 1,
                    admin_overrides_)
    BY <1>4 DEF Mint
  <2>2. \A p \in persisting' : /\ p.op = "mint" /\ p.next.pod /\ p.next.fencing = fencing_ + 1
                               /\ p.next.epoch = epoch_ /\ p.next.lifecycle = lifecycle_
                               /\ p.next.tokens = tokens_ \cup {token}
    BY <2>1, PersistLiveCommit
  <2>3. \A t \in granted : t.lease < minted + 1 /\ t.fencing < fencing_ + 1
    BY <1>4 DEF Mint, Safe, GrantedIsDurable, MemoryIsAhead
  <2>4. CommitInProgress'
    <3>1. /\ token.lease = minted' /\ token.fencing = fencing_' /\ token.epoch = epoch_'
          /\ token.incarnation = incarnation_' /\ tokens_' = tokens_
      BY <1>4 DEF Mint
    <3>2. \A t \in granted' : t.lease < minted' /\ t.fencing < fencing_'
      BY <1>4, <2>3 DEF Mint, history
    <3>3. /\ open_' /\ fencing_' = fencing_ + 1 /\ epoch_' = epoch_
          /\ lifecycle_' = lifecycle_
      BY <1>4 DEF Mint
    <3>. HIDE DEF token
    <3>4. \A p \in persisting' : MintCommit(p)'
      BY <2>2, <3>1, <3>2 DEF MintCommit
    <3>. QED  BY <1>0, <2>2, <3>3, <3>4 DEF CommitInProgress, OpenCommit, CallCommit
  <2>. QED  BY <1>4, <2>4 DEF Mint, history, Safe, GrantedIsDurable, MemoryIsAhead,
            FencingIsBounded, EpochIsDurable, RestartFencesByEpoch, FencingIncreases,
            RetirementIsFinal
<1>5. ASSUME NEW lease \in 1 .. minted, Revoke(lease) PROVE Safe'
  <2>1. CommitInProgress'
    BY <1>0, <1>5, PersistLiveCommit
       DEF Revoke, world, history, CommitInProgress, OpenCommit, CallCommit, MintCommit
  <2>. QED  BY <1>5, <2>1 DEF Revoke, world, history, Safe, GrantedIsDurable, MemoryIsAhead,
            FencingIsBounded, EpochIsDurable, RestartFencesByEpoch, FencingIncreases,
            RetirementIsFinal
<1>. QED  BY <1>1, <1>2, <1>3, <1>4, <1>5

\* What a commit stores, whether it is confirmed, fails or is cut short: tokens
\* that reached a caller stay covered by it.
LEMMA CommitCovers ==
    ASSUME TypeOK, Safe, NEW p \in persisting
    PROVE  /\ p.next.pod /\ epoch_ =< p.next.epoch
           /\ p.next.fencing = fencing_ /\ p.next.fencing =< minted
           /\ \A t \in granted : t.epoch =< p.next.epoch /\ t.fencing =< p.next.fencing
           /\ retirement = "done" => p.next.lifecycle = "retired"
<1>. USE Numbers
<1>1. CASE p.op = "open"
  BY <1>1 DEF Safe, CommitInProgress, OpenCommit, GrantedIsDurable, FencingIsBounded,
              RetirementIsFinal
<1>2. CASE p.op # "open"
  BY <1>2 DEF Safe, CommitInProgress, CallCommit, MemoryIsAhead, FencingIsBounded,
              RetirementIsFinal
<1>. QED  BY <1>1, <1>2

\* The store answers, or the process ends while it waits.
LEMMA AnswerSafe ==
    ASSUME TypeOK, Safe, NEW p \in persisting,
           \/ OpenDone(p) \/ ApplyDone(p) \/ AdminDone(p) \/ RetireDone(p) \/ MintDone(p)
           \/ RevokeDone(p) \/ CommitFails(p)
    PROVE  Safe'
<1>. USE Numbers, CommitCovers
<1>1. CASE OpenDone(p)
  BY <1>1 DEF OpenDone, Stored, world, history, Safe, GrantedIsDurable, MemoryIsAhead,
     FencingIsBounded, CommitInProgress, OpenCommit, EpochIsDurable, RestartFencesByEpoch,
     FencingIncreases, RetirementIsFinal
<1>2. CASE ApplyDone(p)
  BY <1>2 DEF ApplyDone, Stored, world, Safe, GrantedIsDurable, MemoryIsAhead,
     FencingIsBounded, CommitInProgress, CallCommit, EpochIsDurable, RestartFencesByEpoch,
     FencingIncreases, RetirementIsFinal
<1>3. CASE AdminDone(p) \/ RevokeDone(p)
  BY <1>3 DEF AdminDone, RevokeDone, Stored, world, history, Safe, GrantedIsDurable,
     MemoryIsAhead, FencingIsBounded, CommitInProgress, CallCommit, EpochIsDurable,
     RestartFencesByEpoch, FencingIncreases, RetirementIsFinal
<1>4. CASE RetireDone(p)
  BY <1>4 DEF RetireDone, Stored, world, Safe, GrantedIsDurable, MemoryIsAhead,
     FencingIsBounded, CommitInProgress, CallCommit, EpochIsDurable, RestartFencesByEpoch,
     FencingIncreases, RetirementIsFinal
<1>5. CASE MintDone(p)
  <2>1. PICK token \in p.next.tokens :
            /\ p.next.tokens = tokens_ \cup {token}
            /\ token.lease = minted /\ token.fencing = fencing_
            /\ token.epoch = epoch_ /\ token.incarnation = incarnation_
            /\ \A t \in granted : t.lease < minted /\ t.fencing < fencing_
    BY <1>5 DEF MintDone, Stored, Safe, CommitInProgress, MintCommit
  <2>2. granted' \subseteq granted \cup {token}
    BY <1>5, <2>1 DEF MintDone
  <2>3. open_ /\ incarnation_ =< incarnations
    BY <1>5 DEF MintDone, Stored, Safe, CommitInProgress, CallCommit, TypeOK
  <2>4. FencingIncreases'
    BY <2>1, <2>2 DEF Safe, FencingIncreases
  <2>5. GrantedIsDurable' /\ MemoryIsAhead' /\ RestartFencesByEpoch'
    BY <1>5, <2>1, <2>2, <2>3 DEF MintDone, Stored, world, Safe, GrantedIsDurable,
       MemoryIsAhead, RestartFencesByEpoch
  <2>6. FencingIsBounded' /\ CommitInProgress' /\ EpochIsDurable' /\ RetirementIsFinal'
    BY <1>5, <2>3 DEF MintDone, Stored, world, Safe, FencingIsBounded, CommitInProgress,
       CallCommit, EpochIsDurable, RetirementIsFinal
  <2>. QED  BY <2>4, <2>5, <2>6 DEF Safe
<1>6. CASE CommitFails(p)
  BY <1>6 DEF CommitFails, Interrupted, memory, Safe, GrantedIsDurable, MemoryIsAhead,
     FencingIsBounded, CommitInProgress, OpenCommit, CallCommit, EpochIsDurable,
     RestartFencesByEpoch, FencingIncreases, RetirementIsFinal
<1>. QED  BY <1>1, <1>2, <1>3, <1>4, <1>5, <1>6

\* Closing, crashing and the passing of time.
LEMMA EnvironmentSafe ==
    ASSUME TypeOK, Safe, Close \/ Crash \/ Tick \/ UNCHANGED vars PROVE Safe'
<1>. USE Numbers
<1>1. CASE Close
  BY <1>1 DEF Close, Idle, world, history, Safe, GrantedIsDurable, MemoryIsAhead,
     FencingIsBounded, CommitInProgress, EpochIsDurable, RestartFencesByEpoch,
     FencingIncreases, RetirementIsFinal
<1>2. CASE Crash
  <2>1. /\ disk' = disk \/ \E p \in persisting : disk' = p.next
        /\ ~open_' /\ persisting' = {} /\ fencing_' = 0 /\ UNCHANGED <<world, history>>
    BY <1>2 DEF Crash, Interrupted
  <2>2. CASE disk' = disk
    BY <2>1, <2>2 DEF world, history, Safe, GrantedIsDurable, MemoryIsAhead,
       FencingIsBounded, CommitInProgress, EpochIsDurable, RestartFencesByEpoch,
       FencingIncreases, RetirementIsFinal
  <2>3. ASSUME NEW p \in persisting, disk' = p.next PROVE Safe'
    BY <2>1, <2>3, CommitCovers DEF world, history, Safe, GrantedIsDurable, MemoryIsAhead,
       FencingIsBounded, CommitInProgress, EpochIsDurable, RestartFencesByEpoch,
       FencingIncreases, RetirementIsFinal
  <2>. QED  BY <2>1, <2>2, <2>3
<1>3. CASE Tick \/ UNCHANGED vars
  BY <1>3 DEF Tick, vars, memory, world, history, Safe, GrantedIsDurable, MemoryIsAhead,
     FencingIsBounded, CommitInProgress, OpenCommit, CallCommit, MintCommit, EpochIsDurable,
     RestartFencesByEpoch, FencingIncreases, RetirementIsFinal
<1>. QED  BY <1>1, <1>2, <1>3

-----------------------------------------------------------------------------
(* Theorems. *)

\* The controller's state keeps its types, and the invariant that carries the
\* theorems below holds in every reachable state.
THEOREM Invariance == Spec => [](TypeOK /\ Safe)
<1>1. Init => TypeOK /\ Safe
  BY InitType, InitSafe
<1>2. TypeOK /\ Safe /\ [Next]_vars => (TypeOK /\ Safe)'
  <2>. SUFFICES ASSUME TypeOK, Safe, [Next]_vars PROVE TypeOK' /\ Safe'
    OBVIOUS
  <2>1. TypeOK'
    BY TypeStep DEF Safe
  <2>2. Safe'
    BY OpenSafe, CallSafe, AnswerSafe, EnvironmentSafe DEF Next
  <2>. QED  BY <2>1, <2>2
<1>. QED  BY <1>1, <1>2, PTL DEF Spec

\* PodController's variables have the types its class declares.
THEOREM TypeCorrect == Spec => []TypeOK
BY Invariance, PTL

\* Every token granted before a restart carries an older epoch than the pod has
\* after it (open(), mint_authority(), persist_state()).
THEOREM RestartsFence == Spec => []RestartFencesByEpoch
<1>1. Safe => RestartFencesByEpoch
  BY DEF Safe
<1>. QED  BY <1>1, Invariance, PTL

\* The epoch readers see survives a crash at any point.
THEOREM EpochsAreDurable == Spec => []EpochIsDurable
<1>1. Safe => EpochIsDurable
  BY DEF Safe
<1>. QED  BY <1>1, Invariance, PTL

\* Granted tokens are fenced in the order they were minted.
THEOREM FencingIsMonotone == Spec => []FencingIncreases
<1>1. Safe => FencingIncreases
  BY DEF Safe
<1>. QED  BY <1>1, Invariance, PTL

\* A retirement that was reported is final.
THEOREM RetirementHolds == Spec => []RetirementIsFinal
<1>1. Safe => RetirementIsFinal
  BY DEF Safe
<1>. QED  BY <1>1, Invariance, PTL

\* An open controller's lifecycle takes only the transitions legal() allows, so a
\* partitioned pod is never active in the next step.
THEOREM LifecycleIsLegal == Spec => LifecycleMovesLegally
<1>1. TypeOK /\ Safe /\ [Next]_vars => [open_ /\ open_' => legal(lifecycle_, lifecycle_')]_vars
  <2>. SUFFICES ASSUME TypeOK, Safe, Next, open_, open_'
                PROVE  legal(lifecycle_, lifecycle_')
    OBVIOUS
  <2>1. legal(lifecycle_, lifecycle_) /\ legal(lifecycle_, "retired")
    BY StayOrRetire DEF TypeOK
  <2>2. CASE OpenFresh \/ OpenRefused \/ OpenRecovered \/ OpenExhausted \/ Close \/ Crash
    BY <2>2 DEF OpenFresh, OpenRefused, OpenRecovered, OpenExhausted, TakeOver, Close, Crash
  <2>3. CASE Tick \/ (\E observed \in Observations : Apply(observed))
             \/ (\E rack \in Racks, admin \in Overrides \cup {"none"} : SetAdmin(rack, admin))
             \/ Mint \/ (\E lease \in 1 .. minted : Revoke(lease))
    BY <2>1, <2>3 DEF Tick, Apply, SetAdmin, Mint, Revoke, memory
  <2>4. CASE Retire
    BY <2>1, <2>4 DEF Retire
  <2>5. ASSUME NEW p \in persisting, ApplyDone(p) PROVE legal(lifecycle_, lifecycle_')
    BY <2>5 DEF ApplyDone, Stored, Safe, CommitInProgress, CallCommit
  <2>6. ASSUME NEW p \in persisting,
               \/ OpenDone(p) \/ AdminDone(p) \/ RetireDone(p) \/ MintDone(p) \/ RevokeDone(p)
               \/ CommitFails(p)
        PROVE  legal(lifecycle_, lifecycle_')
    BY <2>1, <2>6 DEF OpenDone, AdminDone, RetireDone, MintDone, RevokeDone, CommitFails, memory
  <2>. QED  BY <2>2, <2>3, <2>4, <2>5, <2>6 DEF Next
<1>. QED  BY <1>1, Invariance, PTL DEF Spec, LifecycleMovesLegally

-----------------------------------------------------------------------------
(***************************************************************************)
(* What check_authority() answers for tokens that ended: for any evidence, *)
(* any failures and any restarts, as long as the wall clock is not set     *)
(* back.                                                                   *)
(***************************************************************************)
\* A token that no caller is honoured for any more, and never will be again: its
\* lease is revoked, its process or its epoch is gone, or its time is over.
SpentAt(t, epoch) ==
    \/ t.lease \in revoked_ \/ t.incarnation # incarnation_
    \/ t.epoch < epoch \/ now > t.expires
Spent(t) == SpentAt(t, epoch_)

\* Leases are never used twice, and only those that were minted can have ended.
LeasesAreUnique ==
    /\ \A t, u \in granted : t.lease = u.lease => t = u
    /\ ended \subseteq 1 .. minted /\ revoked_ \subseteq 1 .. minted
    /\ disk.revoked \subseteq 1 .. minted

\* The controller keeps exactly the tokens that may still be honoured, and ones
\* that are spent.
KeptTokens ==
    /\ tokens_ \subseteq granted
    /\ \A t \in granted : t.issued =< now /\ (t \in tokens_ \/ Spent(t))

\* What ended is spent; in a retired pod everything is.
EndedIsSpent ==
    \A t \in granted : t.lease \in ended \/ lifecycle_ = "retired" => Spent(t)

\* The commit a call waits for drops only tokens that are spent by then.
DropsSpentOnly ==
    \A p \in persisting :
        /\ p.next.revoked \subseteq 1 .. minted
        /\ p.op # "open" => p.next.revoked = revoked_
        /\ p.op \notin {"apply", "override"} => p.next.epoch = epoch_
        /\ \A t \in tokens_ \ p.next.tokens : SpentAt(t, p.next.epoch)
        /\ p.op # "mint" => p.next.tokens \subseteq tokens_
        /\ p.op = "mint" => /\ lifecycle_ # "retired" /\ minted \notin ended
                            /\ \A t \in p.next.tokens \ tokens_ : t.issued =< now
        /\ p.next.lifecycle = "retired" => lifecycle_ = "retired"

TokenRecord == LeasesAreUnique /\ KeptTokens /\ EndedIsSpent /\ DropsSpentOnly

-----------------------------------------------------------------------------
\* The numbers that decide whether a token is spent.
LEMMA TokenNumbers ==
    ASSUME TypeOK
    PROVE  /\ now \in Nat /\ minted \in Nat /\ epoch_ \in Nat /\ incarnation_ \in Nat
           /\ incarnations \in Nat
           /\ \A t \in granted \cup tokens_ :
                 /\ t.lease \in Nat \ {0} /\ t.epoch \in Nat /\ t.issued \in Nat
                 /\ t.expires \in Nat /\ t.incarnation \in Nat \ {0}
           /\ \A p \in persisting : p.next.epoch \in Nat /\ p.next \in DurableStates
<1>1. now \in Nat
  BY ControllerAssumption DEF TypeOK
<1>2. ASSUME NEW t \in granted \cup tokens_
      PROVE  /\ t.lease \in Nat \ {0} /\ t.epoch \in Nat /\ t.issued \in Nat
             /\ t.expires \in Nat /\ t.incarnation \in Nat \ {0}
  <2>1. t \in Tokens
    BY DEF TypeOK
  <2>. QED  BY <2>1, ControllerAssumption DEF Tokens
<1>3. \A p \in persisting : p.next \in DurableStates
  BY DEF TypeOK, Commits
<1>. QED  BY <1>1, <1>2, <1>3, Numbers

\* A spent token is not honoured.
LEMMA SpentIsRefused ==
    ASSUME TypeOK, NEW t \in granted, Spent(t)  PROVE ~Honoured(t)
BY TokenNumbers DEF Spent, SpentAt, Honoured, Valid

\* A process that starts, or ends, leaves every token of before spent.
LEMMA FreshIncarnation ==
    ASSUME TypeOK, Safe, OpenFresh \/ OpenRefused \/ OpenRecovered \/ OpenExhausted \/ Crash
    PROVE  \A t \in granted : t.incarnation # incarnation_'
<1>1. \A t \in granted : t.incarnation =< incarnations /\ t.incarnation # 0
  BY TokenNumbers DEF Safe, GrantedIsDurable
<1>2. incarnation_' = incarnations + 1 \/ incarnation_' = 0
  BY DEF OpenFresh, OpenRefused, OpenRecovered, OpenExhausted, TakeOver, Crash
<1>. QED  BY <1>1, <1>2, TokenNumbers

\* Nothing revives a token.
LEMMA SpentStays ==
    ASSUME TypeOK, Safe, ~ClockSteps, [Next]_vars, NEW t \in granted, Spent(t)
    PROVE  Spent(t)'
<1>. USE TokenNumbers DEF Spent, SpentAt
<1>1. CASE OpenFresh \/ OpenRefused \/ OpenRecovered \/ OpenExhausted \/ Crash
  BY <1>1, FreshIncarnation
<1>2. CASE Tick
  BY <1>2 DEF Tick, memory, history
<1>3. CASE UNCHANGED vars \/ Close
  BY <1>3 DEF vars, memory, world, history, Close
<1>4. CASE \/ \E observed \in Observations : Apply(observed)
           \/ \E rack \in Racks, admin \in Overrides \cup {"none"} : SetAdmin(rack, admin)
           \/ Retire \/ Mint \/ \E lease \in 1 .. minted : Revoke(lease)
  BY <1>4 DEF Apply, SetAdmin, Retire, Mint, Revoke, memory, world
<1>5. ASSUME NEW p \in persisting, ApplyDone(p)  PROVE Spent(t)'
  <2>1. epoch_ =< epoch_'
    BY <1>5, CommitCovers DEF ApplyDone
  <2>2. epoch_' \in Nat
    BY <1>5 DEF ApplyDone
  <2>. QED  BY <1>5, <2>1, <2>2 DEF ApplyDone, world
<1>6. ASSUME NEW p \in persisting,
             OpenDone(p) \/ AdminDone(p) \/ RetireDone(p) \/ MintDone(p) \/ RevokeDone(p)
             \/ CommitFails(p)
      PROVE  Spent(t)'
  BY <1>6 DEF OpenDone, AdminDone, RetireDone, MintDone, RevokeDone, CommitFails, memory, world
<1>. QED  BY <1>1, <1>2, <1>3, <1>4, <1>5, <1>6 DEF Next

-----------------------------------------------------------------------------
(* Every step keeps the record. *)

\* A step that grants nothing and whose tokens are those of before, or fewer of
\* them after the others were spent.
LEMMA NothingGranted ==
    ASSUME TypeOK, Safe, ~ClockSteps, TokenRecord, [Next]_vars,
           granted' = granted, now' >= now, tokens_' \subseteq tokens_,
           \A t \in granted : t \in tokens_ \ tokens_' => Spent(t)'
    PROVE  KeptTokens'
<1>1. \A t \in granted : Spent(t) => Spent(t)'
  BY SpentStays
<1>2. now' \in Nat
  BY TypeStep, TokenNumbers, ControllerAssumption DEF Safe, TypeOK
<1>. QED  BY <1>1, <1>2, TokenNumbers DEF TokenRecord, KeptTokens

\* A step that ends nothing and retires nothing.
LEMMA NothingEnded ==
    ASSUME TypeOK, Safe, ~ClockSteps, TokenRecord, [Next]_vars,
           granted' = granted, ended' = ended,
           lifecycle_' = "retired" => lifecycle_ = "retired"
    PROVE  EndedIsSpent'
BY SpentStays DEF TokenRecord, EndedIsSpent

\* Starting, ending and waiting.
LEMMA EnvironmentRecord ==
    ASSUME TypeOK, Safe, ~ClockSteps, TokenRecord, [Next]_vars,
           \/ OpenFresh \/ OpenRefused \/ OpenRecovered \/ OpenExhausted \/ Close \/ Crash \/ Tick
           \/ UNCHANGED vars
    PROVE  TokenRecord'
<1>. USE TokenNumbers
<1>1. /\ UNCHANGED <<minted, granted, ended>> /\ now' >= now
      /\ tokens_' = tokens_ \/ tokens_' = {}
      /\ tokens_' # tokens_ => OpenRecovered \/ OpenExhausted \/ Crash
  BY DEF OpenFresh, OpenRefused, OpenRecovered, OpenExhausted, TakeOver, Close, Crash, Tick,
         vars, memory, world, history
<1>2. CASE OpenFresh \/ OpenRefused \/ OpenRecovered \/ OpenExhausted \/ Crash
  <2>1. \A t \in granted : Spent(t)'
    BY <1>2, FreshIncarnation DEF Spent, SpentAt
  <2>2. KeptTokens' /\ EndedIsSpent'
    BY <1>1, <2>1, NothingGranted DEF EndedIsSpent
  <2>3. disk'.revoked \subseteq 1 .. minted /\ revoked_' \subseteq 1 .. minted
    <3>1. disk' = disk \/ \E p \in persisting : disk' = p.next
      BY <1>2 DEF OpenFresh, OpenRefused, OpenRecovered, OpenExhausted, TakeOver, Crash, Interrupted
    <3>2. revoked_' \in {revoked_, disk.revoked, {}}
      BY <1>2 DEF OpenFresh, OpenRefused, OpenRecovered, OpenExhausted, TakeOver, Crash
    <3>. QED  BY <3>1, <3>2 DEF TokenRecord, LeasesAreUnique, DropsSpentOnly
  <2>4. DropsSpentOnly'
    <3>1. CASE OpenRecovered
      <4>. DEFINE next == [disk EXCEPT !.tokens = {}, !.epoch = epoch_',
                                       !.lifecycle = lifecycle_']
      <4>1. /\ next.revoked = disk.revoked /\ next.lifecycle = lifecycle_' /\ next.tokens = {}
            /\ next.epoch = epoch_'
        BY DEF TypeOK, DurableStates
      <4>2. persisting' = {[op |-> "open", next |-> next, evidence |-> {}]}
        BY <3>1 DEF OpenRecovered, TakeOver, Persist
      <4>3. tokens_' = {} /\ minted' = minted
        BY <3>1 DEF OpenRecovered, TakeOver
      <4>. HIDE DEF next
      <4>. QED  BY <4>1, <4>2, <4>3 DEF DropsSpentOnly, TokenRecord, LeasesAreUnique
    <3>2. CASE ~OpenRecovered
      <4>1. persisting' = {}
        BY <1>2, <3>2 DEF OpenFresh, OpenRefused, OpenExhausted, TakeOver, Crash, Idle
      <4>. QED  BY <4>1 DEF DropsSpentOnly
    <3>. QED  BY <3>1, <3>2
  <2>. QED  BY <1>1, <2>2, <2>3, <2>4 DEF TokenRecord, LeasesAreUnique
<1>3. CASE Close \/ Tick \/ UNCHANGED vars
  <2>1. /\ UNCHANGED <<disk, incarnation_, epoch_, lifecycle_, tokens_, revoked_, persisting>>
        /\ now' \in Nat
    BY <1>3, ControllerAssumption DEF Close, Tick, vars, memory, world
  <2>2. KeptTokens' /\ EndedIsSpent'
    BY <1>1, <2>1, NothingGranted, NothingEnded
  <2>3. DropsSpentOnly'
    <3>1. ASSUME NEW p \in persisting, NEW t \in tokens_ \ p.next.tokens
          PROVE  SpentAt(t, p.next.epoch)'
      BY <1>1, <2>1 DEF TokenRecord, DropsSpentOnly, SpentAt
    <3>2. ASSUME NEW p \in persisting, p.op = "mint", NEW t \in p.next.tokens \ tokens_
          PROVE  t.issued =< now'
      <4>1. t \in Tokens /\ t.issued =< now
        BY <3>2 DEF TokenRecord, DropsSpentOnly, DurableStates
      <4>. QED  BY <1>1, <2>1, <4>1, ControllerAssumption DEF Tokens
    <3>. QED  BY <1>1, <2>1, <3>1, <3>2 DEF TokenRecord, DropsSpentOnly
  <2>. QED  BY <1>1, <2>1, <2>2, <2>3 DEF TokenRecord, LeasesAreUnique
<1>. QED  BY <1>2, <1>3

\* Composing: the tokens the new epoch does not accept are spent under it.
LEMMA ApplyLockedDrops ==
    ASSUME TypeOK, Safe, TokenRecord, Idle, open_, NEW op \in {"apply", "override"},
           NEW observed, NEW overrides, ApplyLocked(op, observed, overrides),
           UNCHANGED <<revoked_, incarnation_, now, lifecycle_, tokens_, minted, ended>>
    PROVE  DropsSpentOnly'
<1>. USE TokenNumbers
<1>1. SUFFICES ASSUME NEW p \in persisting'
               PROVE  /\ p.op = op /\ p.next.revoked = revoked_
                      /\ p.next.tokens \subseteq tokens_
                      /\ p.next.lifecycle = "retired" => lifecycle_ = "retired"
                      /\ \A t \in tokens_ \ p.next.tokens : SpentAt(t, p.next.epoch)
  BY DEF DropsSpentOnly, SpentAt, TokenRecord, LeasesAreUnique
<1>2. /\ p.op = op /\ p.next.revoked = revoked_
      /\ p.next.tokens = {t \in tokens_ : Valid(t, p.next.epoch)}
  BY ApplyLockedRecord
<1>3. p.next.lifecycle = "retired" => lifecycle_ = "retired"
  BY ApplyLockedRecord, ComposedLifecycleIsLegal DEF TypeOK
<1>4. epoch_ =< p.next.epoch /\ p.next.epoch \in Nat
  <2>1. p.next.epoch \in {epoch_, epoch_ + 1}
    BY ApplyLockedRecord, ComposedEpochAdvances
  <2>. QED  BY <2>1
<1>5. ASSUME NEW t \in tokens_, ~Valid(t, p.next.epoch)  PROVE SpentAt(t, p.next.epoch)
  <2>1. t.issued =< now /\ t.epoch =< epoch_
    BY DEF TokenRecord, KeptTokens, Safe, MemoryIsAhead
  <2>2. now + ClockSkew >= t.issued
    BY <2>1, ControllerAssumption
  <2>. QED  BY <1>4, <1>5, <2>1, <2>2 DEF Valid, SpentAt
<1>. QED  BY <1>2, <1>3, <1>5

\* The calls, up to the commit they wait for.
LEMMA CallRecord ==
    ASSUME TypeOK, Safe, ~ClockSteps, TokenRecord, [Next]_vars,
           \/ \E observed \in Observations : Apply(observed)
           \/ \E rack \in Racks, admin \in Overrides \cup {"none"} : SetAdmin(rack, admin)
           \/ Retire \/ Mint
           \/ \E lease \in 1 .. minted : Revoke(lease)
    PROVE  TokenRecord'
<1>. USE TokenNumbers
<1>1. UNCHANGED <<disk, granted, ended, now, epoch_, incarnation_>>
  BY DEF Apply, SetAdmin, Retire, Mint, Revoke, memory, world, history
<1>2. CASE \/ \E observed \in Observations : Apply(observed)
           \/ \E rack \in Racks, admin \in Overrides \cup {"none"} : SetAdmin(rack, admin)
  <2>1. /\ Idle /\ open_ /\ UNCHANGED <<revoked_, lifecycle_, tokens_, minted, fencing_>>
    BY <1>2 DEF Apply, SetAdmin, memory, world
  <2>2. KeptTokens' /\ EndedIsSpent' /\ LeasesAreUnique'
    BY <1>1, <2>1, NothingGranted, NothingEnded DEF TokenRecord, LeasesAreUnique
  <2>3. DropsSpentOnly'
    <3>1. CASE \E op \in {"apply", "override"} : \E observed, overrides :
                  ApplyLocked(op, observed, overrides)
      BY <1>1, <2>1, <3>1, ApplyLockedDrops
    <3>2. CASE UNCHANGED persisting
      BY <2>1, <3>2 DEF Idle, DropsSpentOnly
    <3>3. CASE \E admin : PersistLive("admin", lifecycle_, tokens_, revoked_, fencing_, admin)
      <4>1. \A p \in persisting' : /\ p.op = "admin" /\ p.next.tokens = tokens_
                                   /\ p.next.epoch = epoch_
                                   /\ p.next.revoked = revoked_ /\ p.next.lifecycle = lifecycle_
        BY <3>3, PersistLiveRecord
      <4>. QED  BY <1>1, <2>1, <4>1 DEF DropsSpentOnly, TokenRecord, LeasesAreUnique
    <3>. QED  BY <1>2, <3>1, <3>2, <3>3 DEF Apply, SetAdmin
  <2>. QED  BY <2>2, <2>3 DEF TokenRecord
<1>3. CASE Retire
  <2>1. /\ tokens_' = {} /\ UNCHANGED minted
        /\ revoked_' = revoked_ \cup {t.lease : t \in tokens_}
        /\ PersistLive("retire", "retired", {}, revoked_', fencing_, admin_overrides_)
        /\ lifecycle_' = "retired"
    BY <1>3 DEF Retire, world
  <2>2. \A t \in granted : Spent(t)'
    <3>1. ASSUME NEW t \in granted, t \in tokens_  PROVE Spent(t)'
      BY <2>1, <3>1 DEF Spent, SpentAt
    <3>. QED  BY <3>1, SpentStays DEF TokenRecord, KeptTokens
  <2>3. KeptTokens' /\ EndedIsSpent'
    BY <1>1, <2>1, <2>2, NothingGranted DEF EndedIsSpent
  <2>4. revoked_' \subseteq 1 .. minted
    <3>1. \A t \in tokens_ : t.lease =< minted
      BY DEF Safe, GrantedIsDurable, TokenRecord, KeptTokens
    <3>2. \A t \in tokens_ : t.lease \in 1 .. minted
      BY <3>1
    <3>. QED  BY <2>1, <3>2 DEF TokenRecord, LeasesAreUnique
  <2>5. DropsSpentOnly'
    <3>1. \A p \in persisting' : /\ p.op = "retire" /\ p.next.tokens = {}
                                 /\ p.next.revoked = revoked_' /\ p.next.epoch = epoch_
      BY <2>1, PersistLiveRecord
    <3>. QED  BY <1>1, <2>1, <2>4, <3>1 DEF DropsSpentOnly
  <2>. QED  BY <1>1, <2>1, <2>3, <2>4, <2>5 DEF TokenRecord, LeasesAreUnique
<1>4. CASE Mint
  <2>. DEFINE token == [lease |-> minted + 1, epoch |-> epoch_, incarnation |-> incarnation_,
                        fencing |-> fencing_ + 1, issued |-> now,
                        expires |-> now + LeaseDuration]
  <2>1. /\ PersistLive("mint", lifecycle_, tokens_ \cup {token}, revoked_, fencing_ + 1,
                       admin_overrides_)
        /\ UNCHANGED <<tokens_, revoked_, lifecycle_>> /\ minted' = minted + 1
        /\ lifecycle_ # "retired"
    BY <1>4 DEF Mint
  <2>2. KeptTokens' /\ EndedIsSpent'
    BY <1>1, <2>1, NothingGranted, NothingEnded
  <2>3. 1 .. minted \subseteq 1 .. minted' /\ minted' \notin 1 .. minted
    BY <2>1
  <2>4. LeasesAreUnique'
    BY <1>1, <2>1, <2>3 DEF TokenRecord, LeasesAreUnique
  <2>5. token.issued = now
    OBVIOUS
  <2>6. \A p \in persisting' : /\ p.op = "mint" /\ p.next.tokens = tokens_ \cup {token}
                               /\ p.next.epoch = epoch_
                               /\ p.next.revoked = revoked_ /\ p.next.lifecycle = lifecycle_
    <3>. HIDE DEF token
    <3>. QED  BY <2>1, PersistLiveRecord
  <2>7. DropsSpentOnly'
    <3>. HIDE DEF token
    <3>1. revoked_ \subseteq 1 .. minted' /\ minted' \notin ended'
      BY <1>1, <2>3 DEF TokenRecord, LeasesAreUnique
    <3>2. ASSUME NEW p \in persisting'
          PROVE  /\ tokens_ \ p.next.tokens = {}
                 /\ \A t \in p.next.tokens \ tokens_ : t.issued =< now
      BY <2>5, <2>6
    <3>. QED  BY <1>1, <2>1, <2>6, <3>1, <3>2 DEF DropsSpentOnly
  <2>. QED  BY <2>2, <2>4, <2>7 DEF TokenRecord
<1>5. ASSUME NEW lease \in 1 .. minted, Revoke(lease)  PROVE TokenRecord'
  <2>1. /\ PersistLive("revoke", lifecycle_, {t \in tokens_ : t.lease # lease}, revoked_',
                       fencing_, admin_overrides_)
        /\ UNCHANGED <<tokens_, lifecycle_, minted>> /\ revoked_' = revoked_ \cup {lease}
    BY <1>5 DEF Revoke, world
  <2>2. KeptTokens' /\ EndedIsSpent' /\ LeasesAreUnique'
    BY <1>1, <2>1, NothingGranted, NothingEnded DEF TokenRecord, LeasesAreUnique
  <2>3. \A p \in persisting' : /\ p.op = "revoke" /\ p.next.revoked = revoked_'
                               /\ p.next.tokens = {t \in tokens_ : t.lease # lease}
                               /\ p.next.lifecycle = lifecycle_ /\ p.next.epoch = epoch_
    BY <2>1, PersistLiveRecord
  <2>4. ASSUME NEW p \in persisting', NEW t \in tokens_ \ p.next.tokens
        PROVE  SpentAt(t, p.next.epoch)'
    <3>1. t.lease = lease
      BY <2>3
    <3>2. t.lease \in revoked_'
      BY <2>1, <3>1
    <3>. QED  BY <3>2 DEF SpentAt
  <2>5. revoked_' \subseteq 1 .. minted'
    BY <2>2 DEF LeasesAreUnique
  <2>6. epoch_' = epoch_
    BY <1>1
  <2>7. ASSUME NEW p \in persisting'
        PROVE  /\ p.op = "revoke" /\ p.next.revoked \subseteq 1 .. minted'
               /\ p.next.revoked = revoked_' /\ p.next.epoch = epoch_'
               /\ \A t \in tokens_' \ p.next.tokens : SpentAt(t, p.next.epoch)'
               /\ p.next.tokens \subseteq tokens_'
               /\ p.next.lifecycle = "retired" => lifecycle_' = "retired"
    BY <2>1, <2>3, <2>4, <2>5, <2>6
  <2>8. DropsSpentOnly'
    BY <2>7 DEF DropsSpentOnly
  <2>. QED  BY <2>2, <2>8 DEF TokenRecord
<1>. QED  BY <1>2, <1>3, <1>4, <1>5

\* The store answers.
LEMMA AnswerRecord ==
    ASSUME TypeOK, Safe, ~ClockSteps, TokenRecord, [Next]_vars, NEW p \in persisting,
           \/ OpenDone(p) \/ ApplyDone(p) \/ AdminDone(p) \/ RetireDone(p) \/ MintDone(p)
           \/ RevokeDone(p) \/ CommitFails(p)
    PROVE  TokenRecord'
<1>. USE TokenNumbers
<1>1. /\ persisting' = {} /\ disk' \in {disk, p.next}
      /\ UNCHANGED <<now, minted, incarnation_, revoked_>>
  BY DEF OpenDone, ApplyDone, AdminDone, RetireDone, MintDone, RevokeDone, CommitFails,
         Stored, Interrupted, memory, world
<1>2. DropsSpentOnly'
  BY <1>1 DEF DropsSpentOnly
<1>3. disk'.revoked \subseteq 1 .. minted'
  BY <1>1 DEF TokenRecord, LeasesAreUnique, DropsSpentOnly
<1>4. \A t \in tokens_ \ p.next.tokens : t \in granted /\ SpentAt(t, p.next.epoch)
  BY DEF TokenRecord, KeptTokens, DropsSpentOnly
<1>5. \A t \in granted : t.lease \in 1 .. minted
  BY DEF Safe, GrantedIsDurable
<1>6. CASE OpenDone(p) \/ AdminDone(p) \/ CommitFails(p)
  <2>1. UNCHANGED <<granted, ended, tokens_, lifecycle_>>
    BY <1>6 DEF OpenDone, AdminDone, CommitFails, memory, history
  <2>2. KeptTokens' /\ EndedIsSpent'
    BY <1>1, <2>1, NothingGranted, NothingEnded
  <2>. QED  BY <1>1, <1>2, <1>3, <2>1, <2>2 DEF TokenRecord, LeasesAreUnique
<1>7. CASE ApplyDone(p)
  <2>1. /\ UNCHANGED granted /\ tokens_' = p.next.tokens /\ ended' = ended \cup Fenced(p)
        /\ epoch_' = p.next.epoch /\ lifecycle_' = p.next.lifecycle /\ p.op # "mint"
    BY <1>7 DEF ApplyDone, Stored
  <2>2. \A t \in tokens_ \ p.next.tokens : Spent(t)'
    BY <1>1, <1>4, <2>1 DEF Spent, SpentAt
  <2>3. KeptTokens'
    BY <1>1, <2>1, <2>2, NothingGranted DEF TokenRecord, DropsSpentOnly
  <2>4. \A t \in granted : t.lease \in Fenced(p) => t \in tokens_ \ p.next.tokens
    BY <1>4 DEF Fenced, TokenRecord, LeasesAreUnique
  <2>5. EndedIsSpent'
    <3>1. lifecycle_' = "retired" => lifecycle_ = "retired"
      BY <2>1 DEF TokenRecord, DropsSpentOnly
    <3>. QED  BY <2>1, <2>2, <2>4, <3>1, SpentStays DEF TokenRecord, EndedIsSpent
  <2>6. ended' \subseteq 1 .. minted
    BY <1>4, <1>5, <2>1 DEF Fenced, TokenRecord, LeasesAreUnique
  <2>. QED  BY <1>1, <1>2, <1>3, <2>1, <2>3, <2>5, <2>6 DEF TokenRecord, LeasesAreUnique
<1>8. CASE RetireDone(p) \/ RevokeDone(p)
  <2>1. /\ UNCHANGED <<granted, epoch_, lifecycle_>> /\ ended' = ended \cup revoked_
        /\ tokens_' \in {tokens_, p.next.tokens}
        /\ p.op \in {"retire", "revoke"}
    BY <1>8 DEF RetireDone, RevokeDone, Stored, TokenRecord, DropsSpentOnly
  <2>2. p.next.epoch = epoch_ /\ p.next.tokens \subseteq tokens_
    BY <2>1 DEF TokenRecord, DropsSpentOnly
  <2>3. \A t \in tokens_ \ tokens_' : Spent(t)'
    BY <1>1, <1>4, <2>1, <2>2 DEF Spent, SpentAt
  <2>4. KeptTokens'
    BY <1>1, <2>1, <2>2, <2>3, NothingGranted
  <2>5. EndedIsSpent'
    <3>1. \A t \in granted : t.lease \in revoked_ => Spent(t)'
      BY <1>1 DEF Spent, SpentAt
    <3>. QED  BY <2>1, <3>1, SpentStays DEF TokenRecord, EndedIsSpent
  <2>6. ended' \subseteq 1 .. minted
    BY <2>1 DEF TokenRecord, LeasesAreUnique
  <2>. QED  BY <1>1, <1>2, <1>3, <2>1, <2>4, <2>5, <2>6 DEF TokenRecord, LeasesAreUnique
<1>9. CASE MintDone(p)
  <2>1. /\ UNCHANGED <<ended, epoch_, lifecycle_>> /\ tokens_' = p.next.tokens
        /\ granted' = granted \cup (p.next.tokens \ tokens_) /\ p.op = "mint"
    BY <1>9 DEF MintDone, Stored
  <2>2. PICK token \in p.next.tokens :
            /\ p.next.tokens = tokens_ \cup {token} /\ token.lease = minted
            /\ \A t \in granted : t.lease < minted
    BY <2>1 DEF Safe, CommitInProgress, MintCommit
  <2>3. /\ granted' \subseteq granted \cup {token}
        /\ \A t \in granted' : t = token => t \in tokens_'
    BY <2>1, <2>2
  <2>4. \A t \in granted : t.lease # minted
    BY <2>2
  <2>5. KeptTokens'
    <3>1. \A t \in granted' \ granted : t \in p.next.tokens \ tokens_ /\ t.issued =< now
      BY <2>1 DEF TokenRecord, DropsSpentOnly
    <3>2. \A t \in granted : t.issued =< now /\ (t \in tokens_' \/ Spent(t)')
      BY <2>1, <2>2, SpentStays DEF TokenRecord, KeptTokens
    <3>3. tokens_' \subseteq granted'
      BY <2>1 DEF TokenRecord, KeptTokens
    <3>. QED  BY <1>1, <2>1, <3>1, <3>2, <3>3 DEF KeptTokens
  <2>6. EndedIsSpent'
    <3>1. minted \notin ended' /\ lifecycle_' # "retired"
      BY <2>1 DEF TokenRecord, DropsSpentOnly
    <3>. QED  BY <2>1, <2>2, <2>3, <3>1, SpentStays DEF TokenRecord, EndedIsSpent
  <2>7. LeasesAreUnique'
    BY <1>1, <1>3, <2>1, <2>2, <2>3, <2>4 DEF TokenRecord, LeasesAreUnique
  <2>. QED  BY <1>2, <2>5, <2>6, <2>7 DEF TokenRecord
<1>. QED  BY <1>6, <1>7, <1>8, <1>9

-----------------------------------------------------------------------------
(* Theorems. *)

\* Nothing was minted yet.
LEMMA InitRecord == Init => TokenRecord
BY DEF Init, Blank, TokenRecord, LeasesAreUnique, KeptTokens, EndedIsSpent, DropsSpentOnly

\* As long as the clock is not set back, the record of tokens is right in every
\* reachable state: what ended, and all that a retired pod granted, is spent.
THEOREM TokenInvariance ==
    ASSUME ~ClockSteps  PROVE Spec => [](TypeOK /\ Safe /\ TokenRecord)
<1>1. TypeOK /\ Safe /\ TokenRecord /\ [Next]_vars => TokenRecord'
  <2>. SUFFICES ASSUME TypeOK, Safe, TokenRecord, [Next]_vars  PROVE TokenRecord'
    OBVIOUS
  <2>. QED  BY EnvironmentRecord, CallRecord, AnswerRecord DEF Next
<1>. QED  BY <1>1, InitRecord, Invariance, PTL DEF Spec

\* A lease that a successful call revoked, retired or reported as fenced is never
\* honoured again (check_authority(), revoke_authority(), retire(), apply()).
THEOREM EndedTokensStayEnded ==
    ASSUME ~ClockSteps  PROVE Spec => []EndedStaysEnded
<1>1. TypeOK /\ TokenRecord => EndedStaysEnded
  BY SpentIsRefused DEF TokenRecord, EndedIsSpent, EndedStaysEnded
<1>. QED  BY <1>1, TokenInvariance, PTL

\* Once retired, the pod honours no token a caller holds (retire(), open(),
\* check_authority()).
THEOREM RetiredPodsHonourNothing ==
    ASSUME ~ClockSteps  PROVE Spec => []RetiredHonoursNothing
<1>1. TypeOK /\ TokenRecord => RetiredHonoursNothing
  BY SpentIsRefused DEF TokenRecord, EndedIsSpent, RetiredHonoursNothing
<1>. QED  BY <1>1, TokenInvariance, PTL

-----------------------------------------------------------------------------
(***************************************************************************)
(* The durable record: what readers see is what a crash would recover, and *)
(* the generation at which a rack was established is never forgotten.      *)
(***************************************************************************)
Recomposes(p) == p.op \in {"apply", "override"}

\* A commit holds the live state, but for what a composition decides and for the
\* tokens that minting, revoking or composing changes once it is durable.
WritesLive(p) ==
    /\ Recomposes(p) =>
           p.next = Durable(p.next.epoch, p.next.lifecycle, p.next.expectations, p.next.tokens,
                            revoked_, fencing_, admin_overrides_)
    /\ ~Recomposes(p) =>
           p.next = Durable(epoch_, lifecycle_, expectations_, p.next.tokens,
                            revoked_, fencing_, admin_overrides_)
    /\ p.op \in {"open", "admin", "retire"} => p.next.tokens = tokens_

LiveIsDurable == VisibleIsDurable /\ \A p \in persisting : WritesLive(p)

\* A record of expectations that forgets nothing of what was established.
Remembers(expectations) ==
    \A r \in Racks :
        /\ \/ known[r].generation < expectations[r].generation
           \/ known[r] = expectations[r]
           \/ known[r] = NoExpectation
        /\ expectations[r].generation = 0 => expectations[r] = NoExpectation

\* Every record there is remembers: the store's, the one about to be stored, and
\* the memory of an open controller.
AllRemember ==
    /\ Remembers(disk.expectations)
    /\ open_ => Remembers(expectations_)
    /\ \A p \in persisting : Remembers(p.next.expectations)
    /\ ~disk.pod => known = NothingExpected
    /\ \A r \in Racks : expectations_[r].generation = 0 => expectations_[r] = NoExpectation

-----------------------------------------------------------------------------
(* What readers see. *)

\* Nothing is open or stored yet.
LEMMA InitLive == Init => LiveIsDurable
BY DEF Init, Blank, LiveIsDurable, VisibleIsDurable

\* Replacing three fields of a durable state keeps the others.
LEMMA RestartRecord ==
    ASSUME NEW state \in DurableStates, NEW epoch, NEW lifecycle
    PROVE  [state EXCEPT !.tokens = {}, !.epoch = epoch, !.lifecycle = lifecycle]
               = [pod |-> state.pod, epoch |-> epoch, lifecycle |-> lifecycle,
                  expectations |-> state.expectations, tokens |-> {},
                  revoked |-> state.revoked, fencing |-> state.fencing, admin |-> state.admin]
<1>. DEFINE after  == [state EXCEPT !.tokens = {}, !.epoch = epoch, !.lifecycle = lifecycle]
            Shape  == [pod : {state.pod}, epoch : {epoch}, lifecycle : {lifecycle},
                       expectations : {state.expectations}, tokens : {{}},
                       revoked : {state.revoked}, fencing : {state.fencing},
                       admin : {state.admin}]
<1>1. after \in Shape
  BY DEF DurableStates
<1>. HIDE DEF after
<1>2. after = [pod |-> state.pod, epoch |-> epoch, lifecycle |-> lifecycle,
               expectations |-> state.expectations, tokens |-> {},
               revoked |-> state.revoked, fencing |-> state.fencing, admin |-> state.admin]
  BY <1>1
<1>. QED  BY <1>2 DEF after

\* open() writes back what it recovered, without the tokens.
LEMMA OpenLive ==
    ASSUME TypeOK, Safe, LiveIsDurable, OpenFresh \/ OpenRefused \/ OpenRecovered \/ OpenExhausted
    PROVE  LiveIsDurable'
<1>1. CASE OpenFresh \/ OpenRefused
  <2>1. /\ persisting' = {} /\ UNCHANGED disk
        /\ OpenFresh => ~disk.pod
        /\ OpenRefused => ~open_'
    BY <1>1 DEF OpenFresh, OpenRefused, Idle
  <2>. QED  BY <1>1, <2>1 DEF LiveIsDurable, VisibleIsDurable
<1>2. CASE OpenRecovered
  <2>. DEFINE next == [disk EXCEPT !.tokens = {}, !.epoch = epoch_', !.lifecycle = lifecycle_']
  <2>1. next = Durable(epoch_', lifecycle_', disk.expectations, {}, disk.revoked, disk.fencing,
                       disk.admin)
    <3>1. disk.pod = TRUE
      BY <1>2 DEF OpenRecovered, TakeOver, TypeOK, DurableStates
    <3>2. next = [pod |-> disk.pod, epoch |-> epoch_', lifecycle |-> lifecycle_',
                  expectations |-> disk.expectations, tokens |-> {},
                  revoked |-> disk.revoked, fencing |-> disk.fencing, admin |-> disk.admin]
      BY RestartRecord DEF TypeOK
    <3>. HIDE DEF next
    <3>. QED  BY <3>1, <3>2 DEF Durable
  <2>2. persisting' = {[op |-> "open", next |-> next, evidence |-> {}]}
    BY <1>2 DEF OpenRecovered, TakeOver, Persist
  <2>3. /\ ~open_' /\ expectations_' = disk.expectations /\ tokens_' = {}
        /\ revoked_' = disk.revoked /\ fencing_' = disk.fencing /\ admin_overrides_' = disk.admin
    BY <1>2 DEF OpenRecovered, TakeOver
  <2>4. next.tokens = {}
    BY <2>1 DEF Durable
  <2>5. \A p \in persisting' : p.op = "open" /\ p.next = next
    BY <2>2
  <2>. HIDE DEF next
  <2>. QED  BY <2>1, <2>3, <2>4, <2>5
            DEF LiveIsDurable, VisibleIsDurable, WritesLive, Recomposes
<1>3. CASE OpenExhausted
  <2>1. persisting' = {} /\ ~open_'
    BY <1>3 DEF OpenExhausted, TakeOver, Idle
  <2>. QED  BY <2>1 DEF LiveIsDurable, VisibleIsDurable
<1>. QED  BY <1>1, <1>2, <1>3

\* Every other call persists the state as it is when the call waits.
LEMMA CallLive ==
    ASSUME TypeOK, LiveIsDurable,
           \/ \E observed \in Observations : Apply(observed)
           \/ \E rack \in Racks, admin \in Overrides \cup {"none"} : SetAdmin(rack, admin)
           \/ Retire \/ Mint
           \/ \E lease \in 1 .. minted : Revoke(lease)
    PROVE  LiveIsDurable'
<1>1. SUFFICES /\ failures' # 0 \/ ~Idle'
               /\ \A p \in persisting' : WritesLive(p)'
  BY DEF LiveIsDurable, VisibleIsDurable
<1>2. ASSUME NEW observed \in Observations, Apply(observed)
      PROVE  ~Idle' /\ \A p \in persisting' : WritesLive(p)'
  <2>1. /\ ApplyLocked("apply", observed, admin_overrides_)
        /\ UNCHANGED <<revoked_, fencing_, admin_overrides_>>
    BY <1>2 DEF Apply, memory
  <2>2. ~Idle'
    BY <2>1 DEF ApplyLocked, Persist, Idle
  <2>. QED  BY <2>1, <2>2, ApplyLockedRecord DEF WritesLive, Recomposes
<1>3. ASSUME NEW rack \in Racks, NEW admin \in Overrides \cup {"none"}, SetAdmin(rack, admin)
      PROVE  (failures' # 0 \/ ~Idle') /\ \A p \in persisting' : WritesLive(p)'
  <2>1. UNCHANGED <<epoch_, lifecycle_, expectations_, tokens_, revoked_, fencing_>>
    BY <1>3 DEF SetAdmin
  <2>2. ASSUME NEW evidence \in last_evidence_,
               ApplyLocked("override", evidence, admin_overrides_')
        PROVE  ~Idle' /\ \A p \in persisting' : WritesLive(p)'
    <3>1. ~Idle'
      BY <2>2 DEF ApplyLocked, Persist, Idle
    <3>. QED  BY <2>1, <2>2, <3>1, ApplyLockedRecord DEF WritesLive, Recomposes
  <2>3. CASE failures' = failures + 1 /\ UNCHANGED persisting
    <3>1. failures' # 0
      BY <2>3, ControllerAssumption DEF TypeOK
    <3>2. persisting' = {}
      BY <1>3, <2>3 DEF SetAdmin, Idle
    <3>. QED  BY <3>1, <3>2
  <2>4. CASE PersistLive("admin", lifecycle_, tokens_, revoked_, fencing_, admin_overrides_')
    <3>1. ~Idle'
      BY <2>4 DEF PersistLive, Persist, Idle
    <3>. QED  BY <2>1, <2>4, <3>1, PersistLiveRecord DEF WritesLive, Recomposes
  <2>. QED  BY <1>3, <2>2, <2>3, <2>4 DEF SetAdmin
<1>4. CASE Retire
  <2>1. /\ PersistLive("retire", "retired", {}, revoked_', fencing_, admin_overrides_)
        /\ lifecycle_' = "retired" /\ tokens_' = {}
        /\ UNCHANGED <<epoch_, expectations_, fencing_, admin_overrides_>>
    BY <1>4 DEF Retire
  <2>2. ~Idle'
    BY <2>1 DEF PersistLive, Persist, Idle
  <2>. QED  BY <2>1, <2>2, PersistLiveRecord DEF WritesLive, Recomposes
<1>5. CASE Mint
  <2>1. /\ \E tokens : PersistLive("mint", lifecycle_, tokens, revoked_, fencing_', admin_overrides_)
        /\ UNCHANGED <<epoch_, lifecycle_, expectations_, revoked_, admin_overrides_>>
    BY <1>5 DEF Mint
  <2>2. ~Idle'
    BY <2>1 DEF PersistLive, Persist, Idle
  <2>. QED  BY <2>1, <2>2, PersistLiveRecord DEF WritesLive, Recomposes
<1>6. ASSUME NEW lease \in 1 .. minted, Revoke(lease)
      PROVE  ~Idle' /\ \A p \in persisting' : WritesLive(p)'
  <2>1. /\ \E tokens : PersistLive("revoke", lifecycle_, tokens, revoked_', fencing_,
                                   admin_overrides_)
        /\ UNCHANGED <<epoch_, lifecycle_, expectations_, fencing_, admin_overrides_>>
    BY <1>6 DEF Revoke
  <2>2. ~Idle'
    BY <2>1 DEF PersistLive, Persist, Idle
  <2>. QED  BY <2>1, <2>2, PersistLiveRecord DEF WritesLive, Recomposes
<1>. QED  BY <1>2, <1>3, <1>4, <1>5, <1>6

\* A confirmed commit becomes visible whole; a failed one is counted.
LEMMA AnswerLive ==
    ASSUME TypeOK, LiveIsDurable, NEW p \in persisting,
           \/ OpenDone(p) \/ ApplyDone(p) \/ AdminDone(p) \/ RetireDone(p) \/ MintDone(p)
           \/ RevokeDone(p) \/ CommitFails(p)
    PROVE  LiveIsDurable'
<1>1. persisting' = {}
  BY DEF OpenDone, ApplyDone, AdminDone, RetireDone, MintDone, RevokeDone, CommitFails, Stored
<1>2. WritesLive(p)
  BY DEF LiveIsDurable
<1>3. CASE CommitFails(p)
  <2>1. failures' # 0
    BY <1>3, ControllerAssumption DEF CommitFails, TypeOK
  <2>. QED  BY <1>1, <2>1 DEF LiveIsDurable, VisibleIsDurable
<1>4. CASE ApplyDone(p)
  <2>1. /\ disk' = p.next /\ epoch_' = p.next.epoch /\ lifecycle_' = p.next.lifecycle
        /\ expectations_' = p.next.expectations /\ tokens_' = p.next.tokens
        /\ UNCHANGED <<revoked_, fencing_, admin_overrides_>> /\ Recomposes(p)
    BY <1>4 DEF ApplyDone, Stored, Recomposes
  <2>. QED  BY <1>1, <1>2, <2>1 DEF WritesLive, LiveIsDurable, VisibleIsDurable
<1>5. CASE OpenDone(p) \/ AdminDone(p) \/ RetireDone(p) \/ MintDone(p) \/ RevokeDone(p)
  <2>1. /\ disk' = p.next /\ ~Recomposes(p)
        /\ UNCHANGED <<epoch_, lifecycle_, expectations_, revoked_, fencing_, admin_overrides_>>
        /\ \/ tokens_' = p.next.tokens
           \/ tokens_' = tokens_ /\ p.op \in {"open", "admin", "retire"}
    BY <1>5 DEF OpenDone, AdminDone, RetireDone, MintDone, RevokeDone, Stored, Recomposes
  <2>. QED  BY <1>1, <1>2, <2>1 DEF WritesLive, LiveIsDurable, VisibleIsDurable
<1>. QED  BY <1>3, <1>4, <1>5

\* Closing, crashing and the passing of time.
LEMMA EnvironmentLive ==
    ASSUME LiveIsDurable, Close \/ Crash \/ Tick \/ UNCHANGED vars  PROVE LiveIsDurable'
<1>1. CASE Close \/ Crash
  <2>1. ~open_' /\ persisting' = {}
    BY <1>1 DEF Close, Crash, Idle
  <2>. QED  BY <2>1 DEF LiveIsDurable, VisibleIsDurable
<1>2. CASE Tick \/ UNCHANGED vars
  BY <1>2 DEF Tick, vars, memory, world, LiveIsDurable, VisibleIsDurable, WritesLive, Idle
<1>. QED  BY <1>1, <1>2

-----------------------------------------------------------------------------
(* What is remembered. *)

\* A record that remembers still does when racks that left are struck out.
LEMMA Forgives ==
    ASSUME NEW expectations, Remembers(expectations),
           \A r \in Racks : known'[r] \in {known[r], NoExpectation}
    PROVE  \A r \in Racks :
              /\ \/ known'[r].generation < expectations[r].generation
                 \/ known'[r] = expectations[r]
                 \/ known'[r] = NoExpectation
              /\ expectations[r].generation = 0 => expectations[r] = NoExpectation
BY DEF Remembers

\* What a composition records of a rack is at least what was recorded.
LEMMA DeriveRemembers ==
    ASSUME TypeOK, NEW evidence \in Evidence, Remembers(expectations_),
           known' = [r \in Racks |->
                        IF MemberStatus(evidence.reports[r], expectations_[r]) = "retiring"
                        THEN NoExpectation ELSE known[r]],
           NEW derived, derived = derive_expectations(evidence, expectations_)
    PROVE  Remembers(derived)'
<1>. SUFFICES ASSUME NEW r \in Racks
              PROVE  /\ \/ known'[r].generation < derived[r].generation
                        \/ known'[r] = derived[r]
                        \/ known'[r] = NoExpectation
                     /\ derived[r].generation = 0 => derived[r] = NoExpectation
  BY DEF Remembers
<1>. DEFINE report == evidence.reports[r]
            before == expectations_[r]
            status == MemberStatus(report, before)
<1>1. /\ report.generation \in Nat \ {0}
      /\ before \in Expectations /\ known[r] \in Expectations
      /\ before.generation \in Nat /\ known[r].generation \in Nat
  <2>1. report \in Reports /\ before \in Expectations /\ known[r] \in Expectations
    BY DEF Evidence, TypeOK
  <2>. QED  BY <2>1, CompositionAssumption DEF Reports, Expectations
<1>2. \/ known[r].generation < before.generation
      \/ known[r] = before
      \/ known[r] = NoExpectation
  BY DEF Remembers
<1>3. known'[r] = IF status = "retiring" THEN NoExpectation ELSE known[r]
  OBVIOUS
<1>4. derived[r] = IF status = "retiring" THEN NoExpectation
                   ELSE IF status = "established"
                        THEN [generation |-> report.generation, digest |-> report.digest]
                   ELSE before
  BY DEF derive_expectations
<1>5. CASE status = "retiring"
  BY <1>3, <1>4, <1>5
<1>6. CASE status = "established"
  <2>1. /\ before.generation =< report.generation
        /\ before.generation = report.generation => before.digest = report.digest
    BY <1>1, <1>6 DEF MemberStatus
  <2>2. derived[r] = [generation |-> report.generation, digest |-> report.digest]
    BY <1>4, <1>6
  <2>3. /\ before = [generation |-> before.generation, digest |-> before.digest]
    BY <1>1 DEF Expectations
  <2>. HIDE DEF report, before, status
  <2>4. derived[r].generation = report.generation
    BY <2>2
  <2>5. before.generation = report.generation => derived[r] = before
    BY <2>1, <2>2, <2>3
  <2>. QED  BY <1>1, <1>2, <1>3, <1>6, <2>1, <2>4, <2>5
<1>7. CASE status \notin {"retiring", "established"}
  <2>1. known'[r] = known[r] /\ derived[r] = before
    BY <1>3, <1>4, <1>7
  <2>. QED  BY <1>2, <2>1 DEF Remembers
<1>. QED  BY <1>5, <1>6, <1>7

\* Nothing was established yet.
LEMMA InitRemembers == Init => AllRemember
BY CompositionAssumption
   DEF Init, Blank, NothingExpected, NoExpectation, AllRemember, Remembers

\* A composition is about to be stored.
LEMMA ApplyRemembers ==
    ASSUME TypeOK, AllRemember, open_, NEW op, NEW observed \in Evidence,
           NEW overrides \in [Racks -> AdminStates \cup {"none"}],
           ApplyLocked(op, observed, overrides),
           UNCHANGED <<disk, open_, expectations_>>
    PROVE  AllRemember'
<1>. DEFINE evidence == Effective(observed, overrides)
            derived  == derive_expectations(evidence, expectations_)
<1>1. evidence \in Evidence
  BY EffectiveIsEvidence
<1>2. known' = [r \in Racks |->
                   IF MemberStatus(evidence.reports[r], expectations_[r]) = "retiring"
                   THEN NoExpectation ELSE known[r]]
  BY DEF ApplyLocked
<1>3. \A p \in persisting' : p.next.expectations = derived
  BY ApplyLockedRecord
<1>. HIDE DEF evidence
<1>4. Remembers(derived)'
  BY <1>1, <1>2, DeriveRemembers DEF AllRemember
<1>5. \A r \in Racks : known'[r] \in {known[r], NoExpectation}
  BY <1>2
<1>6. Remembers(disk.expectations)' /\ Remembers(expectations_)'
  BY <1>5, Forgives DEF AllRemember, Remembers
<1>7. ~disk'.pod => known' = NothingExpected
  BY <1>2 DEF AllRemember, NothingExpected
<1>. QED  BY <1>3, <1>4, <1>6, <1>7 DEF AllRemember

\* Every step remembers.
LEMMA RecordStep ==
    ASSUME TypeOK, Safe, LiveIsDurable, AllRemember, [Next]_vars  PROVE AllRemember'
<1>1. CASE OpenFresh \/ OpenRefused
  <2>1. /\ UNCHANGED <<disk, expectations_, known>> /\ persisting' = {}
        /\ OpenFresh => ~disk.pod
        /\ OpenRefused => ~open_'
    BY <1>1 DEF OpenFresh, OpenRefused, Idle, history
  <2>2. CASE OpenRefused
    BY <2>1, <2>2 DEF OpenRefused, AllRemember, Remembers
  <2>3. CASE OpenFresh
    <3>1. \A r \in Racks : known[r] = NoExpectation
      BY <2>1, <2>3 DEF AllRemember, NothingExpected
    <3>. QED  BY <2>1, <3>1 DEF AllRemember, Remembers
  <2>. QED  BY <1>1, <2>2, <2>3
<1>2. CASE OpenRecovered
  <2>. DEFINE next == [disk EXCEPT !.tokens = {}, !.epoch = epoch_', !.lifecycle = lifecycle_']
  <2>1. /\ UNCHANGED <<disk, known>> /\ ~open_' /\ expectations_' = disk.expectations
        /\ persisting' = {[op |-> "open", next |-> next, evidence |-> {}]}
    BY <1>2 DEF OpenRecovered, TakeOver, Persist, history
  <2>2. next.expectations = disk.expectations
    BY DEF TypeOK, DurableStates
  <2>. HIDE DEF next
  <2>. QED  BY <2>1, <2>2 DEF AllRemember, Remembers
<1>3. CASE Close \/ Tick \/ UNCHANGED vars
  BY <1>3 DEF Close, Tick, vars, memory, history, AllRemember, Remembers
<1>4. CASE Crash
  <2>1. /\ disk' = disk \/ \E p \in persisting : disk' = p.next
        /\ ~open_' /\ persisting' = {} /\ expectations_' = NothingExpected /\ UNCHANGED known
    BY <1>4 DEF Crash, Interrupted, history
  <2>2. Remembers(disk.expectations)' /\ (~disk'.pod => known' = NothingExpected)
    <3>1. \A p \in persisting : p.next.pod
      BY DEF Safe, CommitInProgress
    <3>. QED  BY <2>1, <3>1 DEF AllRemember, Remembers
  <2>3. \A r \in Racks : expectations_'[r] = NoExpectation
    BY <2>1 DEF NothingExpected
  <2>. QED  BY <2>1, <2>2, <2>3 DEF AllRemember
<1>5. ASSUME NEW observed \in Observations, Apply(observed)  PROVE AllRemember'
  <2>1. /\ open_ /\ ApplyLocked("apply", observed, admin_overrides_)
        /\ UNCHANGED <<disk, open_, expectations_>>
    BY <1>5 DEF Apply, memory
  <2>2. observed \in Evidence /\ admin_overrides_ \in [Racks -> AdminStates \cup {"none"}]
    BY ControllerAssumption DEF TypeOK
  <2>. QED  BY <2>1, <2>2, ApplyRemembers
<1>6. \A p : (open_ /\ p.next.expectations = expectations_ /\ persisting' = {p}
              /\ UNCHANGED <<disk, open_, expectations_, known>>) => AllRemember'
  BY DEF AllRemember, Remembers
<1>7. ASSUME NEW rack \in Racks, NEW admin \in Overrides \cup {"none"}, SetAdmin(rack, admin)
      PROVE  AllRemember'
  <2>1. open_ /\ UNCHANGED <<disk, open_, expectations_>>
    BY <1>7 DEF SetAdmin
  <2>2. ASSUME NEW evidence \in last_evidence_,
               ApplyLocked("override", evidence, admin_overrides_')
        PROVE  AllRemember'
    <3>1. evidence \in Evidence
      BY DEF TypeOK
    <3>2. admin_overrides_' \in [Racks -> AdminStates \cup {"none"}]
      BY <1>7, ControllerAssumption DEF SetAdmin, TypeOK
    <3>. QED  BY <2>1, <2>2, <3>1, <3>2, ApplyRemembers
  <2>3. CASE UNCHANGED <<persisting, known>>
    BY <2>1, <2>3 DEF AllRemember, Remembers
  <2>4. CASE /\ PersistLive("admin", lifecycle_, tokens_, revoked_, fencing_, admin_overrides_')
             /\ UNCHANGED known
    BY <1>6, <2>1, <2>4 DEF PersistLive, Persist, Durable
  <2>. QED  BY <1>7, <2>2, <2>3, <2>4 DEF SetAdmin
<1>8. CASE Retire \/ Mint \/ \E lease \in 1 .. minted : Revoke(lease)
  <2>1. open_ /\ UNCHANGED <<disk, open_, expectations_, known>>
    BY <1>8 DEF Retire, Mint, Revoke, history
  <2>2. \E op, lifecycle, tokens, revoked, fencing, admin :
            PersistLive(op, lifecycle, tokens, revoked, fencing, admin)
    BY <1>8 DEF Retire, Mint, Revoke
  <2>. QED  BY <1>6, <2>1, <2>2 DEF PersistLive, Persist, Durable
<1>9. ASSUME NEW p \in persisting, ApplyDone(p)  PROVE AllRemember'
  <2>1. /\ disk' = p.next /\ expectations_' = p.next.expectations /\ persisting' = {}
        /\ \A r \in Racks : known'[r] \in {known[r], p.next.expectations[r]}
    BY <1>9 DEF ApplyDone, Stored
  <2>2. p.next.pod /\ Remembers(p.next.expectations)
    BY DEF Safe, CommitInProgress, AllRemember
  <2>3. \A r \in Racks :
            /\ \/ known'[r].generation < p.next.expectations[r].generation
               \/ known'[r] = p.next.expectations[r]
               \/ known'[r] = NoExpectation
            /\ p.next.expectations[r].generation = 0 => p.next.expectations[r] = NoExpectation
    BY <2>1, <2>2 DEF Remembers
  <2>. QED  BY <2>1, <2>2, <2>3 DEF AllRemember, Remembers
<1>10. ASSUME NEW p \in persisting, OpenDone(p)  PROVE AllRemember'
  <2>1. /\ disk' = p.next /\ persisting' = {} /\ UNCHANGED <<expectations_, known>>
    BY <1>10 DEF OpenDone, Stored, history
  <2>2. p.next.pod /\ Remembers(p.next.expectations)
    BY DEF Safe, CommitInProgress, AllRemember
  <2>3. p.next.expectations = expectations_
    <3>1. ~Recomposes(p)
      BY <1>10 DEF OpenDone, Stored, Recomposes
    <3>2. p.next = Durable(epoch_, lifecycle_, expectations_, p.next.tokens, revoked_, fencing_,
                           admin_overrides_)
      BY <3>1 DEF LiveIsDurable, WritesLive
    <3>. QED  BY <3>2 DEF Durable
  <2>. QED  BY <2>1, <2>2, <2>3 DEF AllRemember, Remembers
<1>11. ASSUME NEW p \in persisting,
              AdminDone(p) \/ RetireDone(p) \/ MintDone(p) \/ RevokeDone(p) \/ CommitFails(p)
       PROVE  AllRemember'
  <2>1. /\ disk' \in {disk, p.next} /\ persisting' = {} /\ UNCHANGED <<open_, expectations_, known>>
    BY <1>11 DEF AdminDone, RetireDone, MintDone, RevokeDone, CommitFails, Stored, Interrupted,
                 memory, history
  <2>2. p.next.pod /\ Remembers(p.next.expectations)
    BY DEF Safe, CommitInProgress, AllRemember
  <2>. QED  BY <2>1, <2>2 DEF AllRemember, Remembers
<1>12. CASE OpenExhausted
  <2>1. /\ UNCHANGED <<disk, known>> /\ ~open_' /\ expectations_' = disk.expectations
        /\ persisting' = {}
    BY <1>12 DEF OpenExhausted, TakeOver, Idle, history
  <2>. QED  BY <2>1 DEF AllRemember, Remembers
<1>. QED
  BY <1>1, <1>2, <1>3, <1>4, <1>5, <1>7, <1>8, <1>9, <1>10, <1>11, <1>12 DEF Next

-----------------------------------------------------------------------------
(* Theorems. *)

\* Every step keeps memory and store in step.
LEMMA LiveStep ==
    ASSUME TypeOK, Safe, LiveIsDurable, [Next]_vars  PROVE LiveIsDurable'
BY OpenLive, CallLive, AnswerLive, EnvironmentLive DEF Next

\* Both records are right in every reachable state.
THEOREM RecordInvariance == Spec => [](LiveIsDurable /\ AllRemember)
<1>1. Init => LiveIsDurable /\ AllRemember
  BY InitLive, InitRemembers
<1>2. TypeOK /\ Safe /\ LiveIsDurable /\ AllRemember /\ [Next]_vars
          => LiveIsDurable' /\ AllRemember'
  BY LiveStep, RecordStep
<1>. QED  BY <1>1, <1>2, Invariance, PTL DEF Spec

\* Unless a call failed halfway, a crash recovers every field readers see between
\* two calls (persist_state(), and the assignments that follow it in each call).
THEOREM ReadersSeeDurableState == Spec => []VisibleIsDurable
<1>1. LiveIsDurable => VisibleIsDurable
  BY DEF LiveIsDurable
<1>. QED  BY <1>1, RecordInvariance, PTL

\* No call, failed commit, crash or recovery replaces what was established of a
\* rack by an older generation or another descriptor (derive_expectations(),
\* apply_locked(), open()).
THEOREM GenerationsAreRemembered == Spec => []GenerationNeverForgotten
<1>1. TypeOK /\ AllRemember => GenerationNeverForgotten
  <2>. SUFFICES ASSUME TypeOK, AllRemember, open_, NEW r \in Racks
                PROVE  /\ known[r].generation =< expectations_[r].generation
                       /\ known[r].generation = expectations_[r].generation =>
                              known[r].digest = expectations_[r].digest
    BY DEF GenerationNeverForgotten
  <2>1. known[r].generation \in Nat /\ expectations_[r].generation \in Nat
    BY CompositionAssumption DEF TypeOK, Expectations
  <2>2. NoExpectation.generation = 0
    BY DEF NoExpectation
  <2>. QED  BY <2>1, <2>2 DEF AllRemember, Remembers
<1>. QED  BY <1>1, RecordInvariance, Invariance, PTL
=============================================================================
