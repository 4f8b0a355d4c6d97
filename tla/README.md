# Pod-Fabric: verification models

TLA+ models of Pod-Fabric, the library and daemon that compose the evidence of
several racks into one authoritative pod state, with the TLC configurations that
check them and TLAPS proofs of the properties the rest relies on. Paths below
are paths of the repository.

- [The system](#the-system)
- [The modules and the code](#the-modules-and-the-code)
- [What is checked](#what-is-checked)
- [Where the code and its documentation disagree](#where-the-code-and-its-documentation-disagree)
- [Fairness](#fairness)
- [What is proved](#what-is-proved)
- [What is not modelled](#what-is-not-modelled)
- [Plan](#plan)
- [Running it](#running-it)

## The system

A `PodController` takes snapshots of evidence (members, links, routes,
capacities, obligations), composes them into a `PodState` (epoch, lifecycle,
members, connectivity, authority), commits the durable part to a `PodStore` and
only then shows it to readers. It mints authority tokens, which carry the
epoch, the incarnation of the process and a fencing number, and answers whether
a token presented to it is still good. A `PodServer` puts it on a TCP port.

| Component | State it keeps | Operations | Talks to | What is hard, and what makes it correct |
|---|---|---|---|---|
| Journal (`src/persist/journal.cpp`) | a file of checksummed records | append, scan | the store reads and writes it | torn tails; the scan must separate what was written whole from what was not |
| Pod store (`src/persist/store.cpp`) | checkpoint, journal, `state_` | `open`, `commit`, `compact`, `close`, `erase_all` | the controller calls it under `write_mutex_`; it calls the files | crashes at every step, failed and short writes, sequence numbers used again; a confirmed commit survives, an unconfirmed one is all or nothing |
| Files (`src/platform/file.cpp`) | file contents, a lock | write, sync, truncate, atomic replace, directory sync | the operating system | what an fsync covers and what it does not |
| Controller (`src/control/controller.cpp`) | epoch, incarnation, lifecycle, expectations, tokens, revocations, fencing counter, overrides, last evidence | `open`, `close`, `apply`, `set/clear_admin_state`, `retire`, `mint_authority`, `revoke_authority`, `check_authority` | store, composer, observers; called by the server's workers | a commit fails or its outcome is unknown, the process restarts, readers run meanwhile; epochs only advance, an old token is never honoured again, retirement is final |
| Event queue (`publish`, `dispatch` in `controller.cpp`) | pending events, observers | publish, dispatch, subscribe | every mutation publishes; observers call back | several dispatchers, re-entry, a full queue; nothing is stranded or told twice, and no callback runs under a lock |
| Tokens (`src/engine/authority.cpp`) | none | `validate_token`, `fence_tokens` | controller | clock skew and clocks that go back |
| Lifecycle (`src/model/pod_state.cpp`) | none | `legal`, `next_lifecycle` | composer | a sequence of rounds; only legal transitions |
| Composer (`src/engine/composer.cpp`) | none between rounds | members, generations, connectivity, domains, capacity, obligations, authority, lifecycle | controller calls it, ledger and dependency index are its helpers | missing, stale, duplicated and contradictory evidence; absence is never success, a recorded generation is never forgotten |
| Capacity ledger (`src/engine/ledger.cpp`) | sums per resource class | add claims, aggregate | composer | overflow, double counting |
| Dependencies (`src/engine/dependency.cpp`) | index of decisions by their inputs | publish, plan, revalidate | controller | a decision that changes although nothing it declared has moved |
| Server (`src/control/server.cpp`) | connection queue, worker pool, flags | `start`, `stop`, accept loop, worker loop, `serve`, `handle` | clients; calls the controller | one condition variable for two kinds of waiters, shutdown from two sides; no lost wake-up, no use of a closed socket, `stop()` returns |
| Client and transport (`src/control/client.cpp`, `src/transport/`) | a socket, a correlation counter | `call`, frames, deadlines | the server's workers | a call that gives up leaves the connection as it is; an answer is of the right call and not older than it, a call acts once |
| Codecs | none | encode, decode | store, server, clients | sequential conversion |
| Core and model types | none | identifiers, digests, time, policies | everything | sequential |
| Daemon and command line (`apps/`) | flags | start, poll, stop | server, client | signals |

Three kinds of interaction carry most of the risk. The controller and the store
meet at a commit that may fail, fail and be durable all the same, or be cut off
by a crash. The controller and its environment meet in the order of evidence
rounds, operator calls, token checks and the clock. And threads meet in the
event queue and in the server. The models follow these three lines.

## The modules and the code

`PROJECT.json` maps each definition to the lines it stands for.

**`Journal`** has the items of a journal (header, Begin, Commit, checkpoint
record, and `Torn` for anything damaged), what `scan_journal()` makes of them
and, in closed form, what `PodStore::replay()` recovers from a checkpoint and a
journal (`Recoveries`). An encoded state is one value; a checksum is the fact
that an item is intact. **`JournalReplay`** is the record-by-record loop of
`replay()` as a fold; the run of the store compares it with the closed form on
every checkpoint and journal that a crash can leave.

**`PodStore`** extends it to the state machine of the store. `page` is the
journal as the process sees it, `disk` what the last fsync covered, `kept` how
much of `page` no crash can take away, `flushed` how much of it has left the
buffer of the process; `ckptPage` and `ckptDisk` are the same for the
checkpoint the directory names. The fsync of a file covers what is in it and not its
name, so `entry` says what the directory knows of the journal: `open()` creates it
with `open_append()` and syncs only the file (`"unsynced"`), and the first
`write_checkpoint()` syncs the directory (`"synced"`, `store.cpp:337`). `pc` is the point reached inside `open()`,
`commit()` or `compact()`: each file operation is a step of its own, so a
`Fail`, a `Kill` of the process or a `Crash` (power failure) may come between
any two. A kill leaves what the operating system was given (`JournalsAfterKill`),
synced or not, and the next `open()` builds on it; a crash leaves what was
synced and any part of the rest (`Crash`), and until the name of the journal is
synced it may leave no journal at all (`CrashLosesJournal`). The names of journal and
checkpoint are taken to become stable independently of each other until the
directory is synced, and what a power failure spared is stable. The name of the
store's own directory is taken to be stable. `confirmed` and `inflight` are history: the
last state made durable, and states begun since. What `open()` reads from a
checkpoint whose directory was not synced stays in doubt.

**`DurableRegister`** is the abstract specification: a register with a confirmed
value and writes in doubt. Once it is `anchored` nothing confirmed is lost; before,
a crash may take it back to an older write (`Lose`). `PodStore!StoreIsRegister` states
that the store implements it (checked by `store`, proved in `PodStoreProofs`), with
`value <- confirmed`, `pending <- inflight` and `anchored <- entry = "synced"`.
`PodController` uses the store as this register when it is anchored: `disk` is what
a recovery would return, and an interrupted commit either happened or did not
(`Interrupted`). So what is shown of the controller holds from the first compaction
of its store, or the first power failure the journal survives, and from the start
on file systems whose fsync of a new file covers its name; `store_new_journal` shows
what may happen before. The two levels are composed through this contract rather
than in one state space.

**`Lifecycle`** is `legal()` and `next_lifecycle()`. **`Composition`** is the part
of the composer that feeds epoch, expectations and lifecycle: the verdict on
each rack in the order of `evaluate_members()`, the adoption of newer
generations, `derive_expectations()`, links and routes between racks,
`has_degradation()` and `evaluate_lifecycle()`. Evidence is one record per rack
plus the links and routes; capacity, failure domains, obligations and a link's
own degradation are one fact, `impaired`. Whether a record is fresh is a fact
of the record as well: the composer measures age against the snapshot's own
observation time, so evidence does not age between rounds.

**`Ledger`** is the capacity ledger: the claims on one physical budget, sorted as
`freeze()` sorts them, counted once at the smallest amount offered; sums that
stop at the limit of the counter; an account per resource class and a share of
it per failure domain. **`Verdicts`** is the whole composer over full records:
validation of a snapshot, freshness, domains and their overlaps, the claims the
ledger may count, links, routes and rack pairs, diversity by greedy packing, the
four kinds of obligations, lifecycle and authority. It takes members and epoch
from `Composition`. The lifecycle is stated twice, from full records here and
from a summary there, and `LifecycleAgrees` checks that both say the same: what
the controller's model assumes of evidence is what the composer makes of it.
A reason is one word per sentence of the code, and identities are numbers in
the order of their tokens, since sorting by identity decides some verdicts.

**`Revalidation`** puts rounds on top: `apply_locked()` with the decision index, the
keys that moved since the last round, the plan along the declared dependencies
and the report of what changed outside it. Tokens are granted and revoked
between rounds, since authority depends on them. A round is one step here;
commits, overrides and restarts are `PodController`'s. `MCRevalidation` holds the
evidence: a base of three racks, two domains, two links, two routes and four
obligations, and about a hundred ways in which one record of it differs.
`Representable` is what every snapshot has by the code's types.

**`PodController`** is the controller. A mutating call holds `write_mutex_` from
start to end and writes the store once, so it is two steps: the call up to its
commit (`Apply`, `SetAdmin`, `Retire`, `Mint`, `Revoke`, `OpenRecovered`; an
`open()` whose epoch is the last there is ends before it, `OpenExhausted`), which
puts what it writes into `persisting`, and the answer (`ApplyDone`, ...,
`OpenDone`, or `CommitFails`, or `Crash`). In between, readers see what memory
holds then: for `Retire` and `SetAdmin` already the change, for the others
still the old state, as in the code. `Valid` and `Honoured` are
`validate_token()` and `check_authority()`. `granted`, `ended`, `retirement` and
`known` are history. `MCPodController` only adds the evidence that TLC feeds it.

**`EventDispatch`** is the event queue. Each thread has a stack of calls, since an
observer may call the controller from a callback; a call goes from the lock to
publishing, dispatching and delivering. `write_mutex_` is kept across steps by
`close()` alone, the one call that dispatches under it. One observer stands for
all, as each is told every event of a batch.

**`PodServer`** is the server. Workers, the acceptor and the owner (the thread
that calls `start()` and `stop()`) are at one place each. Critical sections of
`queue_mutex_` are single steps, except that a thread which found nothing to do
is first `dozing`, with the mutex, and then `asleep` on the condition variable:
a notification sent without the mutex may fall between the two. Waits may also
end without a notification, as the C++ standard allows.

**`Requests`** is what happens on a connection a worker has taken: `PodClient::call()`
on one side, `serve()` and `handle()` on the other. A frame is a head and a body
that verifies only behind its own head; either side may stop sending after the
head, and the deadline of a receive may end a call or a service at any point
with the rest left in the connection. `handle()` reads the controller's state,
then its text, calls it, and reads again, with other connections or the
embedding process changing the pod in between (`Elsewhere`). Any call may be
refused: a commit fails, the controller is not open, the pod is retired. The published state
is a version number and whether the pod is retired. `began`, `missed`, `result`
and `effects` are history.

## What is checked

| Run | Question | Bounds | Distinct states |
|---|---|---|---|
| `store` | Do confirmed commits survive and do sequence numbers never go back, except with a new journal that vanishes, does every Commit meet its Begin, does the replay loop compute its closed form, is the store a register? | 2 commits, 2 values, journals of 8 items, compaction at 6 units, 2 failing file operations or killed processes, any number of power failures | 622,602 |
| `authority` | Do epochs, fencing numbers and retirement hold through failures, crashes and restarts, and what does `check_authority()` answer for tokens that ended? | 1 rack, 2 generations, 2 incarnations, 2 tokens, epochs to 2, 1 failed commit, time to 2, not set back | 1,581,422 |
| `composition` | Lifecycle, recorded generations, visibility | 2 racks, full coverage required, maintenance overrides, every kind of report of one rack, links, routes | 748,901 |
| `events` | Is every event told once, and does no thread wait for itself? | 2 threads, 4 calls, nesting 2, queue of 2 | 166,151 |
| `server` | Are wake-ups lost, is each accepted connection served, does the listener outlive its users? | 2 workers, 3 connections, queue of 1, 2 starts | 92,681 |
| `rounds` | Does the whole composer count capacity once, report real diversity, earn Active, drop a superseded rack, and does the plan foresee what changes? | 3 racks, the variants of `MCRevalidation` singly and some in pairs, 3 rounds, 1 token, counters to 100 | 25,959 |
| `requests` | Which answer does a call return, how fresh is it, does it act once, does the server come back? | 1 connection, 2 calls, 1 composition and a retirement from elsewhere | 267,094 |

Why the bounds are enough. The store compacts after two or three commits, and a
compaction followed by a commit and a crash inside each is the longest pattern
its records tell apart: two open transactions, or a checkpoint with records
before and after it. Two failures let a sequence number be used again after one
and a process be killed after it. The proofs cover every number of commits,
failures and items. For the controller, two incarnations and two tokens give every
relation of older and newer that the properties compare; the failed commit can
hit any call, and its outcome on disk is free. Two racks are the least with a
pair to connect. For the queue, two threads and one nested call give two
dispatchers and a producer that returns meanwhile; a queue of two overflows.
For the server, three connections and a queue of one make the acceptor wait
with one in hand while one is queued and one is served; with two workers a
notification can reach the wrong thread. The clock of `authority` does not go
back, because `RetiredHonoursNothing` and `EndedStaysEnded` need that; the other
theorems about the controller cover a clock that is set back, for `ClockSteps`
may have either value there. In `rounds`,
three racks are the least with a rack that a route passes through and a pair
that neither shares; two rounds show what a change does to an index, the third
what wears off after it. Counters stop at 100 and policy limits at 99, so two
claims already overflow. In `requests` connections share nothing but the pod,
which others change through `Elsewhere`; two calls are the least for an answer
to reach the wrong one.

What each property says:

- `NothingConfirmedIsLost`: whatever a crash leaves at any point, a recovery that
  is not refused returns the last confirmed state or one in flight. There is one
  exception: where a journal vanishes whose name was never synced, the recovery
  returns what the checkpoint holds, which is nothing newer.
- `CommitRecordsMatch`: after failures and rollbacks, a Commit in a readable
  journal always closes the Begin before it, so `replay()` never refuses a
  journal for that reason.
- `LoopAgrees`: the loop of `replay()`, record by record, computes the closed form the
  store's model uses, on whatever a crash leaves.
- `SequenceNeverGoesBack`, `StoreIsRegister`: the durable sequence number is
  monotone, with the same exception, and the store refines `DurableRegister`.
- `RestartFencesByEpoch`: a token granted before a restart has an older epoch than the
  pod has after it, whatever became of the commits in between.
- `EpochIsDurable`: no reader sees an epoch that a crash would take back.
- `FencingIncreases`: tokens reach callers with increasing fencing numbers.
- `RetirementIsFinal`: once `retire()` returned, store and every later process are retired.
- `RetiredHonoursNothing`, `EndedStaysEnded`: a retired pod honours no token, and a
  token that was revoked, retired or reported as fenced is never honoured again.
- `GenerationNeverForgotten`: a recorded generation and descriptor of a rack that has
  not left are never replaced by older ones.
- `VisibleIsDurable`: without failures, readers between two calls see what is on disk.
- `LifecycleMovesLegally`: an open controller's lifecycle only takes transitions of the
  table in `legal()`: a partition never heals straight back to ACTIVE, a retired pod
  stays retired. Of CONSTRUCTING the table allows more than the comment above it
  says (see below), and the property is about the table.
- `NothingElseIsStranded`, `HeardOnce`, `QueuedIsHeard`: a queued event other than the
  one of `open()` has a thread that will still look at the queue, it is told at
  most once, and it is told.
- `ObserverMayCallBack`: no thread waits for a mutex it holds, provided observers only
  call back while the controller is open. That run also checks for deadlock.
- `SleepersAreSpare`: while a worker sleeps, every queued connection has a worker
  that is awake and will look, or a notification still to come.
- `AcceptorSeesRoom`: the acceptor does not sleep beside a queue with room unless a
  worker is about to notify it.
- `ListenerOutlivesThreads`, `AcceptedIsServed`: stop() closes the listener only when no
  thread is left that could use it, also over a second start; an accepted
  connection gets a worker unless the server stops.
- `CapacityIsCountedOnce`: a budget that several racks report is counted once, at no
  more than the least of what they offer, unless the account says that it is
  not to be relied on; the domains' shares add up to the pod's account unless a
  counter stopped.
- `DiversityIsReal`: an obligation reported satisfied names as many domains as it asks
  for, serving and without a rack in common, also when records overlap.
- `ActiveIsEarned`: a pod that reports ACTIVE, and still has a member, has all the racks
  it knows, all pairs, all capacity and all obligations in order.
- `OrderDecidesTiesOnly`: turning the order of routes round changes no pair's verdict,
  unless two of its routes tie in capacity and differ in class.
- `LifecycleAgrees`: the lifecycle of a round is what `Composition` makes of a summary.
- `StaleRackCarriesNothing`: a rack behind its recorded generation is no member, no pair
  with it has capacity, no claim of it is counted, and authority says so.
- `SurprisesAreKnown`: a decision changes outside the plan only for an undeclared input
  on the list below, or because it follows a decision that did.
- `AnswersLagByMisses`: a response is of the call that returns it or lags behind by no
  more calls than ended without a response on that connection.
- `OwnAnswersAreFresh`: the right answer is no older than its call, nor than what the
  call did, and its text is of the state it names or a later one; the answer to a
  retirement that happened, stored or not, says that the pod is retired.
- `ActsAtMostOnce`: a call acts at most once whatever became of its answer, an answer
  that says done is of a call that acted, and one that says refused of a call that
  changed nothing (a retirement that could not be stored aside).
- `StopEmptiesServer`: after the stop no client holds a worker for ever.

Each of them is broken by a small change of the code it rests on. These changes
stand beside the definitions they replace, as operators whose comment begins
with "Mutant", and `PROJECT.json` names the property each of them violates.

The state machines name their bounds `Max...`; where a bound stops an action, the
machine may stop. `Revalidation` ends after its last round and `Requests` when its
connections are closed, so their runs switch the deadlock check off; the other
passing runs keep it.

## Where the code and its documentation disagree

Five runs are expected to fail, each on one statement of the repository:

- `store_new_journal` (`FreshMeansNothingStored`). `open()` creates the journal of a new
  store with `open_append()` and syncs the file; the directory is synced for the first
  time when a checkpoint is written (`store.cpp:143`, `337`, `file.cpp:78-91`). POSIX
  does not promise the name of a file before its directory is synced, so a power
  failure before the first compaction may take the journal with all it holds, and
  the next `open()` reports FRESH at sequence 0 although `commit()` had returned.
  `README.md:263` and `store.hpp:30` say of FRESH that no durable state existed.
- `store_short_writes` (`LossIsReported`). A write that fails half way leaves damage
  in the journal, and what is committed behind it is readable only through the
  next checkpoint. If the process is killed after `compact()` renamed that
  checkpoint and before it synced the directory, the next `open()` reads the
  new checkpoint and, since it covers the damaged tail, truncates the journal
  (`store.cpp:312-314`); a power failure may then bring the old checkpoint back
  beside the short journal. The recovery after it reports a clean or a fresh
  store and returns a state older than the confirmed one. It does not report the
  loss: it discards nothing or, where only the header of a new journal is left,
  counts the 16 bytes of that header (`journal.cpp:230`).
  `store.hpp:24-25` says "The discarded byte count is always reported; nothing is
  ever silently skipped", `README.md:263` that FRESH means "No durable state
  existed". With whole writes the truncation never meets a confirmed record, as
  `NothingIsLost` proves with killed processes included.
- `cleared_override` (`ClearedOverrideHasNoEffect`). `apply_locked()` remembers the
  evidence with overrides already written into it, so clearing an override
  recomposes the overridden value.
- `observer_deadlock` (`ObserverMayCallBack`). `close()` dispatches under `write_mutex_`.
  `open()` leaves its event in the queue, so an observer subscribed right after
  `open()` is told by `close()`, under the lock, if nothing else ran.
- `server_stop` (`StopReturns`). `stop()` raises its flag and notifies without
  `queue_mutex_`; a worker between its test and its wait misses both.

The following came up while the code was modelled. The models have the
behaviour, and no run is spent on it:

- `compact()` truncates the journal and then writes a header (`store.cpp:350-354`). After
  a crash in between `open()` refuses a torn header at once, or takes the empty
  journal beside the checkpoint as it is, appends records without a header, and a
  later `open()` refuses the store. Nothing is read wrong, but the confirmed commits in
  such a journal are out of reach. A journal that vanished beside a checkpoint is
  treated in the same way. Recovery properties speak of an `open()` that is not
  refused, and `OpenRefused` has the rest.
- `legal()` lets a constructing pod become degraded, partitioned, recovering, in
  maintenance or draining, and the composer asks for these: a new pod with a missing
  rack is degraded after its first round. The comment above the table
  (`pod_state.cpp:15`) says "Constructing may only become Active (a pod that never
  reached quorum is still constructing)", and the one arrow from CONSTRUCTING in the
  diagram of `README.md:112-120` leads to ACTIVE.
- After a short write, `commit()` returns an error and leaves half a record; later
  commits are appended behind it, reported as durable, and cut off by the next
  `open()` (`store.cpp:390`), which reports the bytes it discards. With
  `ShortWrites = TRUE` the invariant `NothingConfirmedIsLost` fails; this is why
  `store` has whole writes. `LossIsReported` is about the loss nobody reports.
- `replay()` reports an ambiguous commit for any Begin without Commit, also when later
  transactions were confirmed, and the composer then speaks of "the last
  durable commit" (`composer.cpp:1392`).
- `persist_state()` ends the recovery round from any call (`controller.cpp:325`), so
  minting a token before the first evidence makes the first composition after a
  restart ACTIVE; `README.md:101-103` says RECOVERING.
- An active pod that loses every member stays ACTIVE: the composer asks for
  CONSTRUCTING and `legal()` does not allow it (`pod_state.cpp:92-99`).
- A retirement whose commit fails is visible until the process restarts and is then
  undone (`controller.cpp:585-607`).
- A leaving report of a superseded generation is RETIRING before it is STALE, and
  makes the pod forget the recorded generation (`composer.cpp:321`).
- `AuthorityFenced` events are published also when the commit that would fence the
  tokens failed (`controller.cpp:396`).
- A token dropped by expiry is not in the revocation list, so with a clock set back a
  retired pod honours it again; `RetiredHonoursNothing` holds for clocks that do not.
- `README.md:90-92` and `include/podfabric/engine/dependency.hpp:62-64` call a decision
  that changes outside the plan an internal defect. It happens for legal
  evidence, since a decision reads more than it declares: a pair the domain of
  a link, the route a link cites, the racks a route passes through, and a link
  nobody had reported before; a domain the kinds of other domains and the
  declarations of racks it does not list; a domain's share of capacity the
  status of the pod's account when it was reached; diversity and maintenance
  obligations their domains; the lifecycle an advance of the epoch that no
  longer shows; authority a token granted or revoked between two rounds.
  `podfabricctl apply` then exits with an error (`apps/podfabricctl/main.cpp:246-249`).
- `include/podfabric/engine/composer.hpp:16` and `README.md:198` say that the order of
  input decides nothing. Of two routes that tie in capacity the first listed
  gives the pair its resource class, and with it whether the pair conflicts.
- An active pod without a member keeps ACTIVE whatever its obligations say; guarantee
  8 of `README.md` makes no exception.
- The first resource class of an empty set is read when every usable link and route of
  a pair has capacity 0 (`composer.cpp:995`).
- Claims on one budget that differ are Conflicting for the claims counted, but a claim
  that is withheld makes the account Incomplete, whatever it says
  (`ledger.cpp:98-107`); an account over the policy's total is Indeterminate, where
  `policy.hpp` speaks of EXHAUSTED; and where an account is Conflicting a counter
  that stopped no longer shows.
- Guarantee 5 of `README.md` says a link cannot be reported better than its domain;
  a link in a domain that racks declare and no snapshot lists is Usable
  (`composer.cpp:765`) while the domain is Conflicting, for it lists none of the
  racks that declare it (`composer.cpp:551-561`).
- Responses to Mint and Revoke keep the digest, and to Retire digest and epoch, read
  before the call (`server.cpp:289-306`, `337-343`).
- `PodClient::call()` compares neither correlation nor nonce, so after a call that timed
  out the next one on the connection returns the late answer. `podfabricctl` makes
  one call per connection.

## Fairness

Safety properties assume none. Three runs check liveness:

- `EventDispatch!FairSpec`: weak fairness of each thread inside a call. A thread that is
  scheduled goes on, callbacks return, and `write_mutex_` reaches a waiting thread
  (the calls are finitely many). No call is assumed to be made.
- `PodServer!FairSpec`: weak fairness of each worker, of the acceptor and of the owner
  inside `stop()`; strong fairness of the steps that take `queue_mutex_` with
  something to do, so that spurious wake-ups of others cannot keep a thread from
  the mutex for ever. No client connects and no owner starts or stops out of
  fairness, and no spurious wake-up is relied on. A connection ends because
  reads have a deadline (`io_deadline`) and a client makes finitely many requests.

- `Requests!Spec`: weak fairness of each worker and each caller inside a call: threads
  run, and a receive ends by data or by its deadline (`io_deadline`, which the
  client and the server both set for every receive). The deadline is that of
  one receive, so a peer that sends one byte at a time would hold a worker
  longer; the peer here is a `PodClient`, which sends a frame at once. Nobody is
  assumed to call, to hang up or to stop the server.

Every lock-based program needs this much from its scheduler, and the code relies
on nothing else to make progress.

## What is proved

Eight modules hold the proofs. Six are beside the state machine they are about;
`FoldLemmas` has what the others need of finite sets and folds, `VerdictProofs` the
lemmas about single verdicts of the composer and its ledger. Every theorem
holds for any racks, threads, connections, values and evidence and for every
value of the bounds, from the assumptions each model states of its constants
(`...Assumption`: types, and facts such as "leases last at least one tick").

| Module | Theorem | Statement |
|---|---|---|
| `PodControllerProofs` | `TypeCorrect` | `Spec => []TypeOK` |
| | `RestartsFence` | `Spec => []RestartFencesByEpoch` |
| | `EpochsAreDurable` | `Spec => []EpochIsDurable` |
| | `FencingIsMonotone` | `Spec => []FencingIncreases` |
| | `RetirementHolds` | `Spec => []RetirementIsFinal` |
| | `LifecycleIsLegal` | `Spec => LifecycleMovesLegally` |
| | `EndedTokensStayEnded` | `~ClockSteps`: `Spec => []EndedStaysEnded` |
| | `RetiredPodsHonourNothing` | `~ClockSteps`: `Spec => []RetiredHonoursNothing` |
| | `ReadersSeeDurableState` | `Spec => []VisibleIsDurable` |
| | `GenerationsAreRemembered` | `Spec => []GenerationNeverForgotten` |
| `PodStoreProofs` | `StoreTypes` | `~ShortWrites`: `Spec => []TypeOK` |
| | `StoreInvariance` | `~ShortWrites`: `Spec => [](StoreFits /\ CheckpointsKnown)` |
| | `NothingIsLost` | `~ShortWrites`: `Spec => []NothingConfirmedIsLost` |
| | `CommitsMatch` | `~ShortWrites`: `Spec => []CommitRecordsMatch` |
| | `SequenceAdvances` | `~ShortWrites`: `Spec => SequenceNeverGoesBack` |
| | `StoreImplementsRegister` | `~ShortWrites`: `Spec => StoreIsRegister` |
| | `LoopIsClosedForm` | `~ShortWrites`: `Spec => []LoopAgrees` |
| `EventDispatchProofs` | `DispatchTypes` | `Spec => []TypeOK` |
| | `NoneIsStranded` | `Spec => []NothingElseIsStranded` |
| | `ToldOnce` | `Spec => []HeardOnce` |
| | `CallbacksDoNotDeadlock` | `~CallsWhenClosed`: `Spec => []ObserverMayCallBack` |
| `PodServerProofs` | `ServerTypes` | `Spec => []TypeOK` |
| | `SleepersSpare` | `Spec => []SleepersAreSpare` |
| | `AcceptorSees` | `Spec => []AcceptorSeesRoom` |
| | `ListenerIsLast` | `Spec => []ListenerOutlivesThreads` |
| `RequestsProofs` | `RequestsTypes` | `Spec => []TypeOK` |
| | `AnswersNeverLead` | `Spec => []AnswersLagByMisses` |
| | `OwnAnswersReportTheirCall` | `Spec => []OwnAnswersAreFresh` |
| | `RequestsActOnce` | `Spec => []ActsAtMostOnce` |
| `RevalidationProofs` | `ActiveMeansReady` | `Spec => []ActiveIsEarned` |
| | `StaleRackIsOut` | `Spec => [][\A r \in Racks : Superseded(r) => CarriesNothing(r)]_vars` |
| | `SupersededRackIsNothing` | `SnapshotsAreRepresentable`: `Spec => StaleRackCarriesNothing` |
| | `CapacityCountsOnce` | `SnapshotsAreRepresentable`: `Spec => []CapacityIsCountedOnce` |
| | `DiversityHolds` | `SnapshotsAreRepresentable`: `Spec => []DiversityIsReal` |
| | `RoundsTyped` | `SnapshotsAreRepresentable`: `Spec => []TypeOK` |
| | `OrderOfRoutesIsIdle` | `SnapshotsAreRepresentable`: `Spec => []OrderDecidesTiesOnly` |
| | `LifecycleIsOfTheSummary` | `SnapshotsAreRepresentable`: `Spec => LifecycleAgrees` |

Four assumptions go beyond types. Each is needed, and for the first three a run
or a passage of this text shows what happens without it:

- `~ClockSteps`: the clock is not set back. A token dropped by expiry is on no
  revocation list, so a clock set back would make it good again.
- `~ShortWrites`: a failed write leaves no part of a record behind. With half a
  record in the journal later commits are lost, in silence too
  (`store_short_writes`).
- `~CallsWhenClosed`: an observer calls back only into an open controller. The run
  `observer_deadlock` is what happens otherwise.
- `SnapshotsAreRepresentable`: evidence is written as the code's types have it: a
  snapshot has its seven parts, the list of routes names every route, capacities
  are natural numbers, a rack reported at all has a generation, a digest, an
  admin state and finitely many claims of natural amounts, domains are finitely
  many and their members are racks, and obligations are of the four kinds. None
  of it says that evidence is fresh, consistent or complete. `rounds` checks it
  of its evidence, as a part of `TypeOK`.

### The controller

`PodControllerProofs` rests on the inductive invariant `TypeOK /\ Safe`. The
properties alone are not inductive, for they speak of tokens in callers' hands
and of the epoch shown, while the danger is in what is on disk and in the commit
under way. `Safe` adds four parts:

- `GrantedIsDurable`: a token a caller holds was covered by a commit, so the store has
  at least its epoch and its fencing number. This is what a restart builds on.
- `MemoryIsAhead`: the same of an open controller's memory.
- `FencingIsBounded`: fencing numbers do not outrun the tokens minted.
- `CommitInProgress`: what the commit being written says relative to memory. The
  commit of `open()` carries an epoch ahead of every token granted; any other
  keeps or advances the epoch, makes a legal lifecycle move and keeps a
  retirement; that of `mint_authority()` adds exactly one token, newer than all.

With these, a commit may succeed, fail, or fail and be durable all the same, and a
crash may come at any point: `AnswerSafe` and `EnvironmentSafe` show that every
outcome preserves `Safe`, `OpenSafe` and `CallSafe` that every call sets up
`CommitInProgress`. The lemmas on `next_lifecycle`, `ComposedLifecycle` and
`ComposedEpoch` carry the composer's part.

For tokens the invariant is `TokenRecord` besides. A token is *spent* when it is revoked, past its
expiry, or of an older epoch or incarnation, and then `validate_token()` refuses it.
The record says that what ended is spent, that the controller still holds every
token which is not, that leases are used once, and that a commit under way drops
spent tokens only, since between the call and its answer the token is gone from
the state being written but not from memory.

For visibility it is that a commit under way writes what memory shows
or will show (`LiveIsDurable`), and for generations that disk, memory and the
commit under way each remember what was ever established (`AllRemember`): a
crash can make any of the three the memory of the next process.

### The store

`StoreFits /\ CheckpointsKnown` is the inductive invariant. Its core is `RecordsFit`: every journal a power
failure can leave now (`Left`), replayed from either checkpoint it can leave, gives
the confirmed state or one in flight, its sequence numbers are in order and its
Commits paired. `FilesFit` keeps damage at the end of a file; `StateFits` and
`RecoveryFits` place the memory of an open store, or of the next `open()`, at
most one sequence number behind all that is left, so that what is appended next
cannot be mistaken for what a failure left behind. Both speak of what a killed
process may leave as well (`Spared`): the next `open()` reads files that are not yet
stable, and what it makes of them must not be behind anything a later power
failure brings back. `PlaceFits` says how far `open()`, `commit()` and `compact()` have
come. `CheckpointsKnown` says that neither checkpoint is newer than the confirmed state
unless it holds one in flight, and is what is left to say where a journal vanishes whose
name was never synced (`CrashLosesJournalKeeps`): what the checkpoint holds is then
the confirmed state, and `EmptyStoreFits` starts `StoreFits` again from it. The exception
in `NothingIsLost` and `SequenceAdvances` cannot be proved away: `store_new_journal` is its
counterexample. `StoreImplementsRegister` follows: each step maps to a step of
`DurableRegister` or to a stutter. This is the contract `PodController` relies on when
it takes the store, once anchored, for one value on disk and commits that happen or
do not.

All of this is stated with the closed form of recovery, and `LoopIsClosedForm` is why it
may be. The loop of `replay()` is a fold over the records, so its value after `k`
records is described (`Tracks`): the state is that of the last Commit or checkpoint
record installed so far, the open transaction is the Begin at `k` if there is one,
and the store is in doubt when an earlier Begin was forsaken, that is, followed by
something else than its Commit. `LoopTracks` shows that one turn of the loop keeps this,
given records in order and paired, which is `RecordsFit`, and a journal with one header
at its front and no Begin numbered 0 (`FilesFormed`, a second inductive invariant).
Induction over `k` is `CountingUp`, and `DoubtIsForsaken` and `ReplayEnds` turn the
description into the closed form.

### Threads

In `EventDispatchProofs`, `HeardOnce` needs that an event is in one place, of the queue, a
batch and what was told, that calls have distinct numbers, and that an event
still to be published is nowhere (`Once`); no deadlock needs that only a `close()`
which has closed the pod keeps the mutex (`ClosedWhileHeld`).

In `PodServerProofs` the two properties of sleeping threads need `DozingSawQueue`: a
thread that has tested its predicate and not yet slept holds `queue_mutex_`, so the
queue is still as it saw it. That is where a lost wake-up would come from; it is
`stopping_`, set without the mutex, that the invariant cannot and does not
cover (`server_stop`).

In `RequestsProofs` the invariant of one connection has six parts: calls are answered,
missed or waited for (`Counted`), requests and answers under way keep the order of
their calls (`Ordered`, `Answered`, `Queued`), the answer being built is true at every
place of `handle()` (`Built`), and nothing acts before its turn or twice (`Acts`). The
bound on versions in `TypeOK` is a count over the calls that acted
(`VersionsCounted`).

### The composer

`ActiveIsEarned` follows from how `lifecycle` and `degraded` are decided, for evidence of any
shape. `OrderOfRoutesIsIdle` shows that the scan over routes keeps
a best route that the order cannot change but in a tie. `LifecycleIsOfTheSummary`
compares two translations of the same code: `LinkVerdict` and `RouteVerdict` show that
a link or route is usable in `Verdicts` when the summary says it is sound,
`PairInWords` that a pair is connected when one of them is, `ConnectedAgrees` and
`DegradationAgrees` that the pod-wide facts agree, and `DesiredAgrees` that the lifecycle asked
for does.

The other four need induction over evidence. The library's induction theorems take
an operator and cannot be used, so `FoldLemmas` states induction over sets: a set of
naturals that holds 0 and with `n` also `n + 1` is all of them (`CountingUp`, by
`WFMin`), and a set of subsets of a finite set that holds the empty one, and each one
that it holds without any of its members, holds the whole (`SubsetInduction`). From
this come that the folds of the community modules have a value and that a sum over a
finite set is the same in any order (`Total...`).

- `CapacityCountsOnce`: `BudgetCount` shows that one budget is counted at the least amount
  offered for it and reserves no more than that. `AccountsTally` is the invariant of
  the ledger's pass over the budgets: an account that has not overflowed comes to
  the sum over the budgets so far, each domain's share to the sum over its own, and
  an account is usable only if no claim was withheld and none differed
  (`SettledBudget`). `ClaimsAreOwned` and `CapacityOfRound` tie the claims to the racks of the
  snapshot, and `SharesAreTotal` adds the shares up.
- `DiversityHolds`: `LastPackedIsOne` and `TakeKeepsApart` are one step of the greedy packing,
  `PackingIsApart` the whole: what it took is apart. `DiversityPacked` says that a satisfied
  obligation has enough of them, `ServiceableServes` that each serves.
- `SupersededRackIsNothing`, whose half about members and connectivity,
  `StaleRackIsOut`, needs no types of evidence: a superseded rack is no member (`SupersededIsOut`), no route
  through it is usable and no link of it carries anything (`NothingCarried`), the
  owners of every share are usable members (`AccountTyped`), and the authority is no
  milder than the code of any rack (`AuthorityOutcome`).
- `RoundsTyped`: the range of each verdict (`DomainOutcomes`, `CapacityOutcomes`,
  `ObligationOutcomes`, `PairOutcomes`) makes every decision's code one of the codes.

### Only model-checked

- Liveness under fairness: `QueuedIsHeard`, `AcceptedIsServed`, `StopEmptiesServer`.
- `SurprisesAreKnown`, which `rounds` shows for its evidence and which is not a theorem.
  Its list of undeclared inputs is complete for that evidence only. Evidence that
  changes a pair from degraded to stale may leave the decision of the pair as it
  was, since both have one code and may have the same reasons, and still change
  what an obligation over the pair says; and routes that tie in capacity and differ
  in class, listed in another order, change a pair without moving any key.
- The five runs that find a disagreement.

## What is not modelled

- `PodStore::erase_all()` (called by tests only), `sync_on_commit = false` (a weaker
  contract, chosen by the caller), the directory lock (one owner is assumed) and
  the Windows branches of the file layer.
- The controller's memory-only mode, where there is nothing to recover.
- Of the composer: the list of fences, the wording of reasons, limits on the number of
  records and of path lengths, the overflow of the sum of a pair's links (the
  policy's limit on a link keeps it away), and in `Verdicts` what a restart or a
  doubtful commit adds to lifecycle and authority (the lifecycle part is in
  `Composition`). Capacities in the evidence of `rounds` are positive.
- Memory-level races: `persist_state()` and `open()` write a few fields without
  `state_mutex_` while readers hold it shared. Steps here are the critical
  sections of `write_mutex_`.
- Of the protocol: Ping and other frame types, requests that cannot be decoded, the
  kinds that grant, revoke or check authority over the wire (the controller
  calls are in `PodController`), and reads that end inside a head or a body other
  than by giving up. How a connection reaches a worker is `PodServer`'s.
- Codecs (`src/codec/`), the encodings of `protocol.cpp` and `durable_state.cpp`, digests,
  identifiers and name tables: sequential conversion that round-trip tests
  reach. The models take an encoded value for the value, which is what those
  tests say.
- The synthetic evidence generator, the daemon and the command line: test data,
  argument parsing, printing.

## Plan

Every invariant and action property of the passing runs is proved but
`SurprisesAreKnown`. What is left is to complete its list of undeclared inputs, with the
two cases above, and to prove that each verdict is a function of what the list and
the decision's keys name; and to follow a store with short writes as far as recovery
reports its loss, for which the code would have to sync the directory before it
truncates. If `open()` came to sync the directory after it creates the journal, `entry` and
its exceptions would go.

## Running it

    tlc -workers 2 -config PodStore.cfg MCPodStore
    tlc -workers 2 -config Authority.cfg MCPodController
    tlc -workers 2 -config Events.cfg EventDispatch
    tlc -workers 2 -config Server.cfg PodServer
    tlc -workers 2 -config Revalidation.cfg MCRevalidation
    tlc -workers 2 -config Requests.cfg Requests
    tlapm PodControllerProofs.tla
    tlapm PodStoreProofs.tla

and likewise for the other configurations and the other `...Proofs` modules; `PROJECT.json` lists each run's module,
configuration and expected outcome.
