--------------------------- MODULE PodController ---------------------------
(***************************************************************************)
(* The authoritative pod controller (src/control/controller.cpp): opening  *)
(* over a durable store, composing evidence, operator overrides, minting,  *)
(* revoking and checking authority tokens, retirement, crash and restart.  *)
(*                                                                         *)
(* Every mutating call holds write_mutex_ from start to end and writes the *)
(* store exactly once, so it is two steps here: what it does before the    *)
(* store answers, and what it does then.  Between the two, readers run and *)
(* the process may crash.  The store is the register DurableRegister       *)
(* promises once it is anchored: a confirmed commit is kept, one that      *)
(* fails or is cut short may or may not survive.                           *)
(***************************************************************************)
EXTENDS Composition

CONSTANTS
    Observations,      \* the evidence the fabric may deliver
    Overrides,         \* the admin states an operator may set
    TokenLimit,        \* live tokens a composition accepts: policy.max_members * 4
    LeaseDuration,     \* lifetime of a minted token
    ClockSkew,         \* policy.clock_skew
    ClockSteps,        \* may the wall clock be set back?
    MaxEpoch,          \* bounds of the model: epochs, incarnations, minted
    MaxIncarnation,    \* tokens, failed calls and clock readings
    MaxLease,
    MaxFailures,
    MaxTime

ASSUME ControllerAssumption ==
    /\ Observations \subseteq Evidence /\ Overrides \subseteq AdminStates
    /\ TokenLimit \in Nat
    /\ LeaseDuration \in Nat \ {0} /\ ClockSkew \in Nat
    /\ ClockSteps \in BOOLEAN
    /\ MaxEpoch \in Nat /\ MaxIncarnation \in Nat /\ MaxLease \in Nat
    /\ MaxFailures \in Nat /\ MaxTime \in Nat

VARIABLES
    disk,           \* the DurableState a recovery would return
    leftover,       \* does the journal hold a Begin that was never committed?
    open_, incarnation_, epoch_, lifecycle_, expectations_, tokens_, revoked_, fencing_,
    admin_overrides_, recovered_round_, ambiguous_commit_,
    last_evidence_, \* the evidence of the last composition, {} before the first
    persisting,     \* the commit in progress, {} when write_mutex_ is free
    now,            \* the wall clock
    minted,         \* leases handed out so far (they are random and never repeat)
    incarnations,   \* incarnations started so far (likewise)
    failures,       \* calls that failed when they had begun to change the pod
    granted,        \* history: tokens returned to a caller
    ended,          \* history: leases a successful call revoked, retired or fenced
    retirement,     \* history: "done" once retire() has returned
    known           \* history: each rack as last established, unless it left since

memory == <<open_, incarnation_, epoch_, lifecycle_, expectations_, tokens_, revoked_, fencing_,
            admin_overrides_, recovered_round_, ambiguous_commit_, last_evidence_>>
world == <<now, minted, incarnations, failures>>
history == <<granted, ended, retirement, known>>
vars == <<disk, leftover, memory, persisting, world, history>>

-----------------------------------------------------------------------------
(* Durable states, tokens. *)

Tokens == [lease : 1 .. MaxLease, epoch : 0 .. MaxEpoch, incarnation : 1 .. MaxIncarnation,
           fencing : 1 .. MaxLease, issued : 0 .. MaxTime, expires : Nat]

DurableStates ==
    [pod : BOOLEAN, epoch : 0 .. MaxEpoch, lifecycle : LifecycleStates,
     expectations : [Racks -> Expectations], tokens : SUBSET Tokens,
     revoked : SUBSET (1 .. MaxLease), fencing : 0 .. MaxLease,
     admin : [Racks -> AdminStates \cup {"none"}]]

NoOverrides == [r \in Racks |-> "none"]
NothingExpected == [r \in Racks |-> NoExpectation]

\* DurableState{}: its pod identity is nil.
Blank == [pod |-> FALSE, epoch |-> 0, lifecycle |-> "constructing",
          expectations |-> NothingExpected, tokens |-> {}, revoked |-> {}, fencing |-> 0,
          admin |-> NoOverrides]

Durable(epoch, lifecycle, expectations, tokens, revoked, fencing, admin) ==
    [pod |-> TRUE, epoch |-> epoch, lifecycle |-> lifecycle, expectations |-> expectations,
     tokens |-> tokens, revoked |-> revoked, fencing |-> fencing, admin |-> admin]

\* validate_token(), against a given epoch and the rest of the live state.
\* Scope and subject do not change while a token lives and are left out.
Valid(token, epoch) ==
    /\ token.lease \notin revoked_
    /\ token.incarnation = incarnation_
    /\ token.epoch = epoch
    /\ now + ClockSkew >= token.issued
    /\ now =< token.expires

\* check_authority(): what a caller presenting the token is told now.
Honoured(token) == Valid(token, epoch_)

-----------------------------------------------------------------------------
Init ==
    /\ disk = Blank /\ leftover = FALSE
    /\ open_ = FALSE /\ incarnation_ = 0 /\ epoch_ = 0 /\ lifecycle_ = "constructing"
    /\ expectations_ = NothingExpected /\ tokens_ = {} /\ revoked_ = {} /\ fencing_ = 0
    /\ admin_overrides_ = NoOverrides
    /\ recovered_round_ = FALSE /\ ambiguous_commit_ = FALSE
    /\ last_evidence_ = {} /\ persisting = {}
    /\ now = 0 /\ minted = 0 /\ incarnations = 0 /\ failures = 0
    /\ granted = {} /\ ended = {} /\ retirement = "none" /\ known = NothingExpected

\* Hand next to PodStore::commit().
Persist(op, next, evidence) == persisting' = {[op |-> op, next |-> next, evidence |-> evidence]}
Idle == persisting = {}

\* open() on a store that holds nothing: there is nothing to recover or commit.
OpenFresh ==
    /\ Idle /\ ~open_ /\ incarnations < MaxIncarnation
    /\ ~disk.pod
    /\ incarnations' = incarnations + 1 /\ incarnation_' = incarnations + 1
    /\ epoch_' = 0 /\ lifecycle_' = "constructing"
    /\ recovered_round_' = FALSE /\ ambiguous_commit_' = FALSE
    /\ open_' = TRUE
    /\ UNCHANGED <<disk, leftover, expectations_, tokens_, revoked_, fencing_, admin_overrides_,
                   last_evidence_, persisting, now, minted, failures, history>>

\* open() returns an error because the store does, or belongs to another pod.  (For a
\* store whose epoch cannot be advanced any more, see OpenExhausted.)
OpenRefused ==
    /\ Idle /\ ~open_ /\ incarnations < MaxIncarnation
    /\ failures < MaxFailures /\ failures' = failures + 1
    /\ incarnations' = incarnations + 1 /\ incarnation_' = incarnations + 1
    /\ epoch_' = 0 /\ lifecycle_' = "constructing"
    /\ recovered_round_' = FALSE /\ ambiguous_commit_' = FALSE
    /\ UNCHANGED <<disk, leftover, open_, expectations_, tokens_, revoked_, fencing_,
                   admin_overrides_, last_evidence_, persisting, now, minted, history>>

\* Mutants: the epoch is not advanced, a retired pod recovers like any other,
\* and the overflow check of PodEpoch::next() is missing.
SameEpoch     == disk.epoch
AlwaysRecover == "recovering"
Unchecked     == TRUE

\* The epoch and the lifecycle a restart begins with.
RecoveredEpoch     == IF disk.lifecycle = "retired" THEN disk.epoch ELSE disk.epoch + 1
RecoveredLifecycle == IF disk.lifecycle = "retired" THEN "retired" ELSE "recovering"
EpochAvailable     == disk.lifecycle = "retired" \/ disk.epoch < MaxEpoch

\* A new incarnation takes over what the store holds, but for the tokens.
TakeOver ==
    /\ Idle /\ ~open_ /\ incarnations < MaxIncarnation
    /\ disk.pod
    /\ incarnations' = incarnations + 1 /\ incarnation_' = incarnations + 1
    /\ expectations_' = disk.expectations
    /\ tokens_' = {} /\ revoked_' = disk.revoked /\ fencing_' = disk.fencing
    /\ admin_overrides_' = disk.admin
    /\ recovered_round_' = TRUE /\ ambiguous_commit_' = leftover

\* open() over a recovered state: every token is dropped, the epoch advances
\* and the lifecycle is Recovering unless the pod is retired; all of that is
\* committed before the controller opens.
OpenRecovered ==
    /\ TakeOver
    /\ EpochAvailable
    /\ epoch_' = RecoveredEpoch /\ lifecycle_' = RecoveredLifecycle
    /\ Persist("open", [disk EXCEPT !.tokens = {}, !.epoch = epoch_', !.lifecycle = lifecycle_'], {})
    /\ UNCHANGED <<disk, leftover, open_, last_evidence_, now, minted, failures, history>>

\* open() over a recovered state whose epoch is the last there is: it returns the
\* error of PodEpoch::next() with what it has read in memory, and is not open.
OpenExhausted ==
    /\ TakeOver
    /\ ~EpochAvailable
    /\ epoch_' = disk.epoch /\ lifecycle_' = disk.lifecycle
    /\ UNCHANGED <<disk, leftover, open_, last_evidence_, persisting, now, minted, failures,
                   history>>

\* apply_locked() up to persist_state(): operator overrides are layered on the
\* evidence, the pod is composed, and the tokens the new epoch fences dropped.
Effective(evidence, overrides) ==
    [evidence EXCEPT !.reports =
        [r \in Racks |-> IF overrides[r] = "none" THEN evidence.reports[r]
                         ELSE [evidence.reports[r] EXCEPT !.admin = overrides[r]]]]

Composes == Cardinality(tokens_) =< TokenLimit

ApplyLocked(op, observed, overrides) ==
    LET evidence  == Effective(observed, overrides)
        epoch     == ComposedEpoch(epoch_, evidence, expectations_)
        lifecycle == ComposedLifecycle(lifecycle_, evidence, expectations_,
                                       recovered_round_, ambiguous_commit_)
    IN  /\ Composes
        /\ epoch =< MaxEpoch
        /\ Persist(op,
                   Durable(epoch, lifecycle, derive_expectations(evidence, expectations_),
                           {t \in tokens_ : Valid(t, epoch)}, revoked_, fencing_, overrides),
                   {evidence})
        /\ known' = [r \in Racks |->
                        IF MemberStatus(evidence.reports[r], expectations_[r]) = "retiring"
                        THEN NoExpectation ELSE known[r]]

\* persist_state() of the live state, with these tokens and revocations.
PersistLive(op, lifecycle, tokens, revoked, fencing, admin) ==
    Persist(op, Durable(epoch_, lifecycle, expectations_, tokens, revoked, fencing, admin), {})

\* Mutant: the new epoch is visible before it is durable.
PublishBeforePersisting(observed) ==
    /\ Idle /\ open_
    /\ ApplyLocked("apply", observed, admin_overrides_)
    /\ epoch_' = ComposedEpoch(epoch_, Effective(observed, admin_overrides_), expectations_)
    /\ UNCHANGED <<disk, leftover, open_, incarnation_, lifecycle_, expectations_, tokens_,
                   revoked_, fencing_, admin_overrides_, recovered_round_, ambiguous_commit_,
                   last_evidence_, world, granted, ended, retirement>>

\* apply().
Apply(observed) ==
    /\ Idle /\ open_
    /\ ApplyLocked("apply", observed, admin_overrides_)
    /\ UNCHANGED <<disk, leftover, memory, world, granted, ended, retirement>>

\* Mutant: the composition is persisted with the overrides of before the call.
SetAdminPersistsOld(rack, admin) ==
    /\ Idle /\ open_ /\ lifecycle_ # "retired"
    /\ admin_overrides_' = [admin_overrides_ EXCEPT ![rack] = admin]
    /\ \E evidence \in last_evidence_ : ApplyLocked("override", evidence, admin_overrides_)
    /\ UNCHANGED <<disk, leftover, open_, incarnation_, epoch_, lifecycle_, expectations_, tokens_,
                   revoked_, fencing_, recovered_round_, ambiguous_commit_, last_evidence_,
                   world, granted, ended, retirement>>

\* set_admin_state() and clear_admin_state(): the override changes at once and
\* the pod is recomposed from the last evidence, if there is any.  A composition
\* that is refused leaves the new override in memory.
SetAdmin(rack, admin) ==
    /\ Idle /\ open_ /\ lifecycle_ # "retired"
    /\ admin_overrides_' = [admin_overrides_ EXCEPT ![rack] = admin]
    /\ \/ \E evidence \in last_evidence_ :
             ApplyLocked("override", evidence, admin_overrides_') /\ UNCHANGED failures
       \/ /\ last_evidence_ # {} /\ ~Composes
          /\ failures < MaxFailures /\ failures' = failures + 1
          /\ UNCHANGED <<persisting, known>>
       \/ /\ last_evidence_ = {}
          /\ PersistLive("admin", lifecycle_, tokens_, revoked_, fencing_, admin_overrides_')
          /\ UNCHANGED <<known, failures>>
    /\ UNCHANGED <<disk, leftover, open_, incarnation_, epoch_, lifecycle_, expectations_, tokens_,
                   revoked_, fencing_, recovered_round_, ambiguous_commit_, last_evidence_,
                   now, minted, incarnations, granted, ended, retirement>>

\* Mutant: the tokens are dropped and their leases not revoked.
RetireWithoutRevoking ==
    /\ Idle /\ open_ /\ lifecycle_ # "retired"
    /\ lifecycle_' = "retired" /\ tokens_' = {}
    /\ PersistLive("retire", "retired", {}, revoked_, fencing_, admin_overrides_)
    /\ UNCHANGED <<disk, leftover, open_, incarnation_, epoch_, expectations_, revoked_, fencing_,
                   admin_overrides_, recovered_round_, ambiguous_commit_, last_evidence_,
                   world, history>>

\* retire(): retired in memory first, with every token revoked.
Retire ==
    /\ Idle /\ open_ /\ lifecycle_ # "retired"
    /\ lifecycle_' = "retired"
    /\ revoked_' = revoked_ \cup {t.lease : t \in tokens_}
    /\ tokens_' = {}
    /\ PersistLive("retire", "retired", {}, revoked_', fencing_, admin_overrides_)
    /\ UNCHANGED <<disk, leftover, open_, incarnation_, epoch_, expectations_, fencing_,
                   admin_overrides_, recovered_round_, ambiguous_commit_, last_evidence_,
                   world, history>>

\* Mutant: the store keeps the fencing number of before the call.
MintForgetsFencing ==
    /\ Idle /\ open_ /\ lifecycle_ # "retired"
    /\ minted < MaxLease
    /\ minted' = minted + 1
    /\ fencing_' = fencing_ + 1
    /\ LET token == [lease |-> minted + 1, epoch |-> epoch_, incarnation |-> incarnation_,
                     fencing |-> fencing_ + 1, issued |-> now, expires |-> now + LeaseDuration]
       IN  PersistLive("mint", lifecycle_, tokens_ \cup {token}, revoked_, fencing_, admin_overrides_)
    /\ UNCHANGED <<disk, leftover, open_, incarnation_, epoch_, lifecycle_, expectations_, tokens_,
                   revoked_, admin_overrides_, recovered_round_, ambiguous_commit_, last_evidence_,
                   now, incarnations, failures, history>>

\* mint_authority(): the fencing number is taken at once, the token is kept
\* and returned only once it is durable.
Mint ==
    /\ Idle /\ open_ /\ lifecycle_ # "retired"
    /\ minted < MaxLease
    /\ minted' = minted + 1
    /\ fencing_' = fencing_ + 1
    /\ LET token == [lease |-> minted + 1, epoch |-> epoch_, incarnation |-> incarnation_,
                     fencing |-> fencing_ + 1, issued |-> now, expires |-> now + LeaseDuration]
       IN  PersistLive("mint", lifecycle_, tokens_ \cup {token}, revoked_, fencing_', admin_overrides_)
    /\ UNCHANGED <<disk, leftover, open_, incarnation_, epoch_, lifecycle_, expectations_, tokens_,
                   revoked_, admin_overrides_, recovered_round_, ambiguous_commit_, last_evidence_,
                   now, incarnations, failures, history>>

\* Mutant: the revocation is persisted and not remembered by the live process.
RevokeOnDiskOnly(lease) ==
    /\ Idle /\ open_
    /\ lease \notin revoked_
    /\ PersistLive("revoke", lifecycle_, {t \in tokens_ : t.lease # lease},
                   revoked_ \cup {lease}, fencing_, admin_overrides_)
    /\ UNCHANGED <<disk, leftover, memory, world, history>>

\* revoke_authority(): revoked in memory at once, for any lease not yet revoked.
Revoke(lease) ==
    /\ Idle /\ open_
    /\ lease \notin revoked_
    /\ revoked_' = revoked_ \cup {lease}
    /\ PersistLive("revoke", lifecycle_, {t \in tokens_ : t.lease # lease}, revoked_',
                   fencing_, admin_overrides_)
    /\ UNCHANGED <<disk, leftover, open_, incarnation_, epoch_, lifecycle_, expectations_, tokens_,
                   fencing_, admin_overrides_, recovered_round_, ambiguous_commit_, last_evidence_,
                   world, history>>

-----------------------------------------------------------------------------
(* The store answers. *)

\* The commit is durable.  It may also have compacted the journal.
Stored(ops, p) ==
    /\ p.op \in ops
    /\ disk' = p.next
    /\ leftover' \in {leftover, FALSE}
    /\ persisting' = {}

\* persist_state() ends the recovery round, whoever called it.
RecoveryIsOver == recovered_round_' = FALSE /\ ambiguous_commit_' = FALSE

OpenDone(p) ==
    /\ Stored({"open"}, p)
    /\ open_' = TRUE
    /\ UNCHANGED <<incarnation_, epoch_, lifecycle_, expectations_, tokens_, revoked_, fencing_,
                   admin_overrides_, recovered_round_, ambiguous_commit_, last_evidence_,
                   world, history>>

\* The leases a composition drops.
Fenced(p) == {t.lease : t \in tokens_ \ p.next.tokens}

\* The composition becomes visible; the tokens it dropped are reported fenced.
ApplyDone(p) ==
    /\ Stored({"apply", "override"}, p)
    /\ epoch_' = p.next.epoch /\ lifecycle_' = p.next.lifecycle
    /\ expectations_' = p.next.expectations /\ tokens_' = p.next.tokens
    /\ last_evidence_' = p.evidence
    /\ RecoveryIsOver
    /\ ended' = ended \cup Fenced(p)
    /\ known' = [r \in Racks |->
                    IF \E evidence \in p.evidence : r \in Established(evidence, expectations_)
                    THEN p.next.expectations[r] ELSE known[r]]
    /\ UNCHANGED <<open_, incarnation_, revoked_, fencing_, admin_overrides_, world,
                   granted, retirement>>

AdminDone(p) ==
    /\ Stored({"admin"}, p)
    /\ RecoveryIsOver
    /\ UNCHANGED <<open_, incarnation_, epoch_, lifecycle_, expectations_, tokens_, revoked_,
                   fencing_, admin_overrides_, last_evidence_, world, history>>

RetireDone(p) ==
    /\ Stored({"retire"}, p)
    /\ RecoveryIsOver
    /\ ended' = ended \cup p.next.revoked
    /\ retirement' = "done"
    /\ UNCHANGED <<open_, incarnation_, epoch_, lifecycle_, expectations_, tokens_, revoked_,
                   fencing_, admin_overrides_, last_evidence_, world, granted, known>>

MintDone(p) ==
    /\ Stored({"mint"}, p)
    /\ RecoveryIsOver
    /\ tokens_' = p.next.tokens
    /\ granted' = granted \cup (p.next.tokens \ tokens_)
    /\ UNCHANGED <<open_, incarnation_, epoch_, lifecycle_, expectations_, revoked_, fencing_,
                   admin_overrides_, last_evidence_, world, ended, retirement, known>>

RevokeDone(p) ==
    /\ Stored({"revoke"}, p)
    /\ RecoveryIsOver
    /\ tokens_' = p.next.tokens
    /\ ended' = ended \cup p.next.revoked
    /\ UNCHANGED <<open_, incarnation_, epoch_, lifecycle_, expectations_, revoked_, fencing_,
                   admin_overrides_, last_evidence_, world, granted, retirement, known>>

\* An interrupted commit: rolled back, perhaps leaving its Begin in the journal,
\* or durable after all.
Interrupted(p) ==
    \/ disk' = disk /\ leftover' \in {leftover, TRUE}
    \/ disk' = p.next /\ UNCHANGED leftover

\* commit() returns an error: the call fails, keeping what it did in memory.
CommitFails(p) ==
    /\ failures < MaxFailures /\ failures' = failures + 1
    /\ Interrupted(p)
    /\ persisting' = {}
    /\ UNCHANGED <<memory, now, minted, incarnations, granted, ended, retirement, known>>

-----------------------------------------------------------------------------
\* close(): the object keeps its memory and may be opened again.
Close ==
    /\ Idle /\ open_
    /\ open_' = FALSE
    /\ UNCHANGED <<disk, leftover, incarnation_, epoch_, lifecycle_, expectations_, tokens_,
                   revoked_, fencing_, admin_overrides_, recovered_round_, ambiguous_commit_,
                   last_evidence_, persisting, world, history>>

\* The process ends, whatever it is doing; a new one starts from nothing.
Crash ==
    /\ \/ Idle /\ UNCHANGED <<disk, leftover>>
       \/ \E p \in persisting : Interrupted(p)
    /\ persisting' = {}
    /\ open_' = FALSE /\ incarnation_' = 0 /\ epoch_' = 0 /\ lifecycle_' = "constructing"
    /\ expectations_' = NothingExpected /\ tokens_' = {} /\ revoked_' = {} /\ fencing_' = 0
    /\ admin_overrides_' = NoOverrides
    /\ recovered_round_' = FALSE /\ ambiguous_commit_' = FALSE
    /\ last_evidence_' = {}
    /\ UNCHANGED <<world, history>>

\* The wall clock advances, or is set back.
Tick ==
    /\ now' \in {t \in 0 .. MaxTime : t > now \/ ClockSteps}
    /\ UNCHANGED <<disk, leftover, memory, persisting, minted, incarnations, failures, history>>

Next ==
    \/ OpenFresh \/ OpenRefused \/ OpenRecovered \/ OpenExhausted \/ Close \/ Crash \/ Tick
    \/ \E observed \in Observations : Apply(observed)
    \/ \E rack \in Racks, admin \in Overrides \cup {"none"} : SetAdmin(rack, admin)
    \/ Retire \/ Mint
    \/ \E lease \in 1 .. minted : Revoke(lease)
    \/ \E p \in persisting :
          OpenDone(p) \/ ApplyDone(p) \/ AdminDone(p) \/ RetireDone(p) \/ MintDone(p)
          \/ RevokeDone(p) \/ CommitFails(p)

Spec == Init /\ [][Next]_vars

-----------------------------------------------------------------------------
(* Properties. *)

Operations == {"open", "apply", "override", "admin", "retire", "mint", "revoke"}
Commits == [op : Operations, next : DurableStates, evidence : SUBSET Evidence]

\* Every variable keeps its type: the live state and the durable one are what
\* the classes PodController and DurableState declare.
TypeOK ==
    /\ disk \in DurableStates /\ leftover \in BOOLEAN
    /\ open_ \in BOOLEAN /\ incarnation_ \in 0 .. incarnations
    /\ epoch_ \in 0 .. MaxEpoch /\ lifecycle_ \in LifecycleStates
    /\ expectations_ \in [Racks -> Expectations]
    /\ tokens_ \subseteq Tokens /\ revoked_ \subseteq 1 .. MaxLease /\ fencing_ \in 0 .. MaxLease
    /\ admin_overrides_ \in [Racks -> AdminStates \cup {"none"}]
    /\ recovered_round_ \in BOOLEAN /\ ambiguous_commit_ \in BOOLEAN
    /\ last_evidence_ \subseteq Evidence
    /\ persisting \subseteq Commits
    /\ now \in 0 .. MaxTime /\ minted \in 0 .. MaxLease
    /\ incarnations \in 0 .. MaxIncarnation /\ failures \in 0 .. MaxFailures
    /\ granted \subseteq Tokens /\ ended \subseteq 1 .. MaxLease
    /\ retirement \in {"none", "done"}
    /\ known \in [Racks -> Expectations]

\* "A new process incarnation advances the pod epoch" (README.md:101-102): every
\* token that reached a caller before the last restart carries an older epoch
\* than the pod's, whichever commits failed or were cut short in between.
RestartFencesByEpoch ==
    open_ /\ lifecycle_ # "retired" =>
        \A t \in granted : t.incarnation # incarnation_ => t.epoch < epoch_

\* The epoch a reader sees is durable: a crash at any point recovers it or a
\* later one, so no epoch is ever handed out twice for different pods.
EpochIsDurable == open_ => epoch_ =< disk.epoch

\* Tokens that reach callers carry fencing numbers in the order they were
\* minted, across failed mints and restarts (mint_authority, FencingSequence).
FencingIncreases ==
    \A t, u \in granted : t.lease < u.lease => t.fencing < u.fencing

\* "A retired pod never becomes authoritative again" (controller.hpp:119): once
\* retired, check_authority() honours no token a caller holds.
RetiredHonoursNothing ==
    lifecycle_ = "retired" => \A t \in granted : ~Honoured(t)

\* A lease that a successful call revoked, retired or reported as fenced is never
\* honoured again, by this process or by the one that replaces it.
EndedStaysEnded == \A t \in granted : t.lease \in ended => ~Honoured(t)

\* Once retire() has returned, the pod is retired in the store and in every
\* process that opens it.
RetirementIsFinal ==
    retirement = "done" => disk.lifecycle = "retired" /\ (open_ => lifecycle_ = "retired")

\* What apply() recorded of a rack that has not left is never replaced by an older
\* generation or by another descriptor of the same one, through failed commits,
\* crashes and recoveries ("dropping it would let a stale generation look like a
\* first sighting", controller.cpp:281-282).
GenerationNeverForgotten ==
    open_ => \A r \in Racks :
        /\ known[r].generation =< expectations_[r].generation
        /\ known[r].generation = expectations_[r].generation =>
               known[r].digest = expectations_[r].digest

\* When no call failed halfway, what readers see between two calls is what a crash
\* would recover, in every field.
VisibleIsDurable ==
    Idle /\ open_ /\ failures = 0 /\ disk.pod =>
        disk = Durable(epoch_, lifecycle_, expectations_, tokens_, revoked_, fencing_,
                       admin_overrides_)

\* While a controller is open its lifecycle takes only the transitions of the table in
\* legal(): a partition never heals straight back to active (README.md:126), a retired
\* pod stays retired, and nothing leads back to constructing.  The table lets a pod
\* leave constructing for any state: a new pod whose rack is missing is degraded at
\* once.  The comment above it, "Constructing may only become Active"
\* (pod_state.cpp:15), and the diagram of README.md:112-120 do not say so.
LifecycleMovesLegally == [][open_ /\ open_' => legal(lifecycle_, lifecycle_')]_vars

-----------------------------------------------------------------------------
(* What a comment says and the code does not do. *)

Compositions == {p \in persisting : p.op \in {"apply", "override"}}

\* A cleared override has no effect on a composition: the admin state comes from
\* the evidence again, "so the operator sees the effect without waiting for the
\* next evidence round" (controller.cpp:524-525).
ClearedOverrideHasNoEffect ==
    \A p \in Compositions : \A evidence \in p.evidence, r \in Racks :
        admin_overrides_[r] = "none" =>
            \E o \in Observations : o.reports[r].admin = evidence.reports[r].admin

=============================================================================
