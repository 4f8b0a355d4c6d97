------------------------------ MODULE PodStore ------------------------------
(***************************************************************************)
(* The durable store of a pod controller (src/persist): a checkpoint file  *)
(* plus a write-ahead journal of Begin/Commit transactions.  The journal   *)
(* is a sequence of items; `page' is the file as the process sees it and   *)
(* `disk' what the last fsync made stable, so a crash may keep any part of *)
(* what lies between them.                                                 *)
(***************************************************************************)
EXTENDS JournalReplay

CONSTANTS
    ShortWrites,       \* may a failed write leave part of a record behind?
    MaxFailures,       \* bound of the model: file operations that fail while the
                       \* process lives on, and times the process is killed
    MaxItems           \* bound of the model: items in the journal

ASSUME StoreAssumption ==
    /\ ShortWrites \in BOOLEAN
    /\ MaxFailures \in Nat /\ MaxItems \in Nat

VARIABLES
    disk,        \* the journal on stable storage
    page,        \* the journal as the process and the page cache hold it
    kept,        \* how many leading items of page no crash can take away
    flushed,     \* how many have left the buffer of the process
    entry,       \* does the directory name a journal, and is that stable?
    ckptDisk,    \* the checkpoint on stable storage
    ckptPage,    \* the checkpoint the directory names now
    pc,          \* where the store is in open(), commit() or compact()
    state_,      \* PodStore::state_
    next,        \* the state commit() is writing
    ambiguous,   \* RecoveryReport::ambiguous_commit of the last open()
    failures,    \* how many file operations have failed or processes were killed
    confirmed,   \* history: the last state a commit or a recovery established
    inflight     \* history: states begun since then and never confirmed

vars == <<disk, page, kept, flushed, entry, ckptDisk, ckptPage, pc, state_, next,
          ambiguous, failures, confirmed, inflight>>
files == <<disk, page, kept, flushed, entry, ckptDisk, ckptPage>>
checkpoints == <<ckptDisk, ckptPage>>
directory == <<entry, checkpoints>>
history == <<confirmed, inflight>>

-----------------------------------------------------------------------------
(* What the journal may be when the process was killed: what it had handed *)
(* to the operating system, and any part of what its buffer still held, the *)
(* last item perhaps torn.  When the power failed: everything the last     *)
(* fsync covered, and any part of what was written since; a truncation     *)
(* that was not synced may be lost as a whole.  The fsync of a file covers *)
(* what is in it and not its name: until the directory is synced, a new    *)
(* journal may be gone altogether.                                         *)

Keeps(j, k) == {SubSeq(j, 1, k)} \cup (IF k < Len(j) THEN {Append(SubSeq(j, 1, k), Torn)} ELSE {})
JournalsAfterKill == UNION {Keeps(page, k) : k \in flushed .. Len(page)}
ContentsAfterCrash == {disk} \cup UNION {Keeps(page, k) : k \in kept .. Len(page)}
JournalsAfterCrash == ContentsAfterCrash \cup (IF entry = "synced" THEN {} ELSE {<< >>})
CheckpointsAfterCrash == {ckptDisk, ckptPage}

-----------------------------------------------------------------------------
(* The file operations the store is made of. *)

Write(item) == page' = Append(page, item) /\ UNCHANGED <<disk, kept, flushed>>
Truncate(n) == /\ page' = SubSeq(page, 1, n)
               /\ kept' = IF n < kept THEN n ELSE kept
               /\ flushed' = n
               /\ UNCHANGED disk
Sync        == disk' = page /\ kept' = Len(page) /\ flushed' = Len(page) /\ UNCHANGED page
CanFail     == failures < MaxFailures /\ failures' = failures + 1
NoFileOp    == UNCHANGED <<disk, page, kept, flushed>>

\* History: s is on stable storage, and what was in doubt is settled.
Established(s) == confirmed' = s /\ inflight' = {}
\* History: s was read from a file that a crash may still change.
InDoubt(s) == inflight' = inflight \cup ({s} \ {confirmed}) /\ UNCHANGED confirmed

-----------------------------------------------------------------------------
Init ==
    /\ disk = << >> /\ page = << >> /\ kept = 0 /\ flushed = 0
    /\ entry = "absent" /\ ckptDisk = Absent /\ ckptPage = Absent
    /\ pc = "down"
    /\ state_ = Initial /\ next = Initial
    /\ ambiguous = FALSE /\ failures = 0
    /\ confirmed = Initial /\ inflight = {}

\* open(): load the checkpoint, create the journal if there is none, replay it, and
\* then cut off a damaged tail or lay down the header of a brand new store; both end
\* in a sync of the file.  What was recovered is established once the journal it was
\* read from is stable.
Open ==
    /\ pc = "down"
    /\ \E r \in Recoveries(page, ckptPage) :
        /\ Usable(r)
        /\ state_' = r.state
        /\ ambiguous' = r.ambiguous
        /\ \/ /\ page = << >> /\ ~ckptPage.present
              /\ Write(Header)
              /\ pc' = "opening"
           \/ /\ r.journal # page
              /\ Truncate(Len(r.journal))
              /\ pc' = "opening"
           \/ /\ r.journal = page /\ (page # << >> \/ ckptPage.present)
              /\ NoFileOp
              /\ pc' = "open"
        /\ IF disk = page /\ kept = Len(page) /\ ckptDisk = ckptPage
           THEN Established(r.state) ELSE InDoubt(r.state)
    /\ entry' = IF entry = "absent" THEN "unsynced" ELSE entry
    /\ UNCHANGED <<checkpoints, next, failures>>

\* open() returns an error; the file and the checkpoint are left as they are.
OpenRefused ==
    /\ pc = "down"
    /\ \E r \in Recoveries(page, ckptPage) : ~Usable(r)
    /\ pc' = "refused"
    /\ UNCHANGED <<files, state_, next, ambiguous, failures, history>>

OpenSync ==
    /\ pc = "opening"
    /\ Sync
    /\ IF ckptDisk = ckptPage THEN Established(state_) ELSE InDoubt(state_)
    /\ pc' = "open"
    /\ UNCHANGED <<directory, state_, next, ambiguous, failures>>

\* The write or the sync fails; open() returns the error and keeps the lock.
OpenFail ==
    /\ CanFail /\ pc = "opening"
    /\ pc' = "refused"
    /\ UNCHANGED <<files, state_, next, ambiguous, history>>

\* Mutant: the new state keeps the sequence number its caller left at 0.
CommitWithoutSequence(v) ==
    /\ pc = "open"
    /\ state_.seq < MaxSequence /\ Len(page) + 2 =< MaxItems
    /\ next' = State(0, v)
    /\ Write(Begin(next'))
    /\ inflight' = inflight \cup {next'}
    /\ pc' = "begun"
    /\ UNCHANGED <<directory, state_, ambiguous, failures, confirmed>>

\* commit(): the Begin record.
CommitBegin(v) ==
    /\ pc = "open"
    /\ state_.seq < MaxSequence /\ Len(page) + 2 =< MaxItems
    /\ next' = State(state_.seq + 1, v)
    /\ Write(Begin(next'))
    /\ inflight' = inflight \cup {next'}
    /\ pc' = "begun"
    /\ UNCHANGED <<directory, state_, ambiguous, failures, confirmed>>

\* Mutant: the Commit record carries the sequence number of the old state.
CommitOldSequence ==
    /\ pc = "begun"
    /\ Write(Commit(state_))
    /\ pc' = "committed"
    /\ UNCHANGED <<directory, state_, next, ambiguous, failures, history>>

\* commit(): the Commit record.
CommitRecord ==
    /\ pc = "begun"
    /\ Write(Commit(next))
    /\ pc' = "committed"
    /\ UNCHANGED <<directory, state_, next, ambiguous, failures, history>>

\* Mutant: commit() returns without syncing the journal.
CommitUnsynced ==
    /\ pc = "committed"
    /\ NoFileOp
    /\ state_' = next
    /\ Established(next)
    /\ pc' = IF Bytes(page) > MaxJournalBytes THEN "compacting" ELSE "open"
    /\ UNCHANGED <<directory, next, ambiguous, failures>>

\* commit(): sync, adopt the new state, and compact a journal that outgrew
\* its bound before returning.
CommitSync ==
    /\ pc = "committed"
    /\ Sync
    /\ state_' = next
    /\ Established(next)
    /\ pc' = IF Bytes(page) > MaxJournalBytes THEN "compacting" ELSE "open"
    /\ UNCHANGED <<directory, next, ambiguous, failures>>

\* compact() called for its own sake.
Compact ==
    /\ pc = "open"
    /\ pc' = "compacting"
    /\ UNCHANGED <<files, state_, next, ambiguous, failures, history>>

\* Mutant: the journal is truncated before the new checkpoint is durable.
ReplaceWithoutDirectorySync ==
    /\ pc = "compacting"
    /\ ckptPage' = [present |-> TRUE, state |-> state_]
    /\ pc' = "checkpointed"
    /\ NoFileOp
    /\ UNCHANGED <<entry, ckptDisk, state_, next, ambiguous, failures, history>>

\* write_checkpoint(): the synced temporary file replaces the checkpoint, ...
ReplaceCheckpoint ==
    /\ pc = "compacting"
    /\ ckptPage' = [present |-> TRUE, state |-> state_]
    /\ pc' = "replaced"
    /\ NoFileOp
    /\ UNCHANGED <<entry, ckptDisk, state_, next, ambiguous, failures, history>>

\* ... and the directory is synced, which makes the journal's name stable as well.
SyncDirectory ==
    /\ pc = "replaced"
    /\ ckptDisk' = ckptPage /\ entry' = "synced"
    /\ pc' = "checkpointed"
    /\ NoFileOp
    /\ UNCHANGED <<ckptPage, state_, next, ambiguous, failures, history>>

CompactTruncate ==
    /\ pc = "checkpointed"
    /\ Truncate(0)
    /\ pc' = "truncated"
    /\ UNCHANGED <<directory, state_, next, ambiguous, failures, history>>

CompactHeader ==
    /\ pc = "truncated"
    /\ page' = Append(page, Header) /\ flushed' = Len(page')
    /\ pc' = "headed"
    /\ UNCHANGED <<disk, kept, directory, state_, next, ambiguous, failures, history>>

CompactRecord ==
    /\ pc = "headed"
    /\ Write(CheckpointRecord(state_))
    /\ pc' = "recorded"
    /\ UNCHANGED <<directory, state_, next, ambiguous, failures, history>>

CompactSync ==
    /\ pc = "recorded"
    /\ Sync
    /\ pc' = "open"
    /\ UNCHANGED <<directory, state_, next, ambiguous, failures, history>>

\* The controller makes a new PodStore for every open(), so nothing of the old
\* one's memory outlives close() or a crash.
Forget == state_' = Initial /\ next' = Initial /\ ambiguous' = FALSE

Close ==
    /\ pc \in {"open", "refused"}
    /\ pc' = "down"
    /\ flushed' = Len(page)
    /\ Forget
    /\ UNCHANGED <<disk, page, kept, directory, failures, history>>

\* A file operation of commit() or compact() fails.  The call returns the error
\* and the store stays open; a failed write may have left part of its bytes.
Fail ==
    /\ CanFail
    /\ \/ /\ pc \in {"begun", "committed", "compacting", "replaced", "checkpointed",
                     "truncated", "headed", "recorded"}
          /\ NoFileOp
       \/ /\ ShortWrites
          /\ pc \in {"open", "begun", "truncated", "headed"} /\ Len(page) < MaxItems
          /\ Write(Torn)
    /\ pc' = "open"
    /\ next' = Initial
    /\ UNCHANGED <<directory, state_, ambiguous, history>>

\* The process is killed: what it wrote and did not sync is still there for the next
\* one to read, but for what its buffer held.
Kill ==
    /\ CanFail /\ pc # "down"
    /\ \E j \in JournalsAfterKill : page' = j /\ flushed' = Len(j)
    /\ pc' = "down"
    /\ Forget
    /\ UNCHANGED <<disk, kept, directory, history>>

\* The power fails, and what it leaves is stable.
Leaves(j, c) ==
    /\ disk' = j /\ page' = j /\ kept' = Len(j) /\ flushed' = Len(j)
    /\ ckptDisk' = c /\ ckptPage' = c
    /\ pc' = "down"
    /\ Forget
    /\ UNCHANGED failures

Crash ==
    /\ entry # "absent"
    /\ \E j \in ContentsAfterCrash, c \in CheckpointsAfterCrash : Leaves(j, c)
    /\ entry' = "synced"
    /\ UNCHANGED history

\* The power fails and takes a journal whose name no sync of the directory covered.
\* What the checkpoint holds is all that is left.
CrashLosesJournal ==
    /\ entry # "synced"
    /\ \E c \in CheckpointsAfterCrash : Leaves(<< >>, c) /\ Established(c.state)
    /\ entry' = "absent"

Next ==
    \/ Open \/ OpenRefused \/ OpenSync \/ OpenFail \/ Close
    \/ \E v \in Values : CommitBegin(v)
    \/ CommitRecord \/ CommitSync
    \/ Compact \/ ReplaceCheckpoint \/ SyncDirectory
    \/ CompactTruncate \/ CompactHeader \/ CompactRecord \/ CompactSync
    \/ Fail \/ Kill \/ Crash \/ CrashLosesJournal

Spec == Init /\ [][Next]_vars

-----------------------------------------------------------------------------
(* Properties. *)

\* Every variable keeps its type: the files are sequences of journal items and
\* the store is at one of the steps of open(), commit() and compact().
TypeOK ==
    /\ disk \in Seq(Items) /\ page \in Seq(Items)
    /\ kept \in 0 .. Len(page) /\ flushed \in kept .. Len(page)
    /\ entry \in {"absent", "unsynced", "synced"}
    /\ ckptDisk \in Checkpoints /\ ckptPage \in Checkpoints
    /\ pc \in {"down", "refused", "opening", "open", "begun", "committed", "compacting",
               "replaced", "checkpointed", "truncated", "headed", "recorded"}
    /\ state_ \in States /\ next \in States /\ confirmed \in States
    /\ inflight \subseteq States
    /\ ambiguous \in BOOLEAN /\ failures \in 0 .. MaxFailures

\* Whatever a crash leaves at this point, a recovery that does not refuse the
\* store returns the last state commit() made durable or one whose commit()
\* was still running or returned an error: never an older state, never a mix.  The
\* one exception is a new journal that vanishes as a whole before write_checkpoint()
\* has synced the directory (store.cpp:143, 337): then the checkpoint answers, with
\* nothing newer than what was durable.
NothingConfirmedIsLost ==
    \A j \in JournalsAfterCrash, c \in CheckpointsAfterCrash :
        \A r \in Recoveries(j, c) :
            Usable(r) => \/ r.state \in {confirmed} \cup inflight
                         \/ /\ j = << >> /\ entry # "synced"
                            /\ r.state = c.state /\ c.state.seq =< confirmed.seq

\* "FRESH: no durable state existed" (README.md:263, store.hpp:30): a store that any
\* power failure turns into a fresh one has confirmed nothing.  open() breaks it: it
\* creates the journal and syncs only the file, so what commit() returned as durable
\* before the first compaction may be gone with the name of the file.
Fresh(r, c) ==
    /\ r.status \in {"empty", "clean"} /\ ~c.present
    /\ ~r.ambiguous /\ Installing(r.journal, c) = {}
FreshMeansNothingStored ==
    \A j \in JournalsAfterCrash, c \in CheckpointsAfterCrash :
        \A r \in Recoveries(j, c) : Fresh(r, c) => confirmed = Initial

\* "The discarded byte count is always reported; nothing is ever silently
\* skipped" (store.hpp:24-25): a recovery that calls the journal clean or empty,
\* and so reports no loss, returns the last durable state or one in flight.  With
\* short writes open() breaks it: it truncates the damaged tail because the
\* checkpoint it has read covers what is lost, and does not see to it that this
\* checkpoint is itself on stable storage (store.cpp:312-314).  (The bytes it reports
\* are not the lost ones; a journal that vanishes as a whole is the property above.)
LossIsReported ==
    \A j \in ContentsAfterCrash, c \in CheckpointsAfterCrash :
        \A r \in Recoveries(j, c) :
            r.status \in {"clean", "empty"} => r.state \in {confirmed} \cup inflight

\* A journal whose header is intact never holds a Commit that does not close
\* the transaction before it: replay()'s "a commit record does not match the
\* open transaction" refusal (store.cpp:288) is out of reach, whatever commits
\* failed or were rolled back and had their sequence number used again.
CommitRecordsMatch ==
    \A j \in JournalsAfterCrash, c \in CheckpointsAfterCrash :
        (j # << >> /\ j[1] = Header) => ~Mismatched(ValidPrefix(j), c)

\* On every journal and checkpoint a crash can leave, the record-by-record loop of
\* replay() (store.cpp:241-295) refuses, recovers and doubts exactly what the closed
\* form above says, the one every other property of the store is about.
LoopAgrees ==
    \A j \in JournalsAfterCrash, c \in CheckpointsAfterCrash :
        (j # << >> /\ j[1] = Header) =>
            LET valid == ValidPrefix(j)
                loop == Loop(valid, c)
                left == loop.ambiguous \/ loop.open # 0
            IN  /\ loop.failed <=> Mismatched(valid, c)
                /\ ~loop.failed => /\ loop.state = Replayed(valid, c)
                                   /\ left <=> Ambiguous(valid, c)

\* The sequence number of the durable state never goes back, whatever commits
\* fail, are rolled back by a recovery or are recovered from an unsynced file, except
\* in the power failure that takes a journal whose name was never synced.
SequenceNeverGoesBack ==
    [][confirmed'.seq >= confirmed.seq \/ (entry # "synced" /\ entry' = "absent")]_vars

\* The store implements the register it promises: its confirmed state and the
\* states in flight are the register's, across every crash and every recovery.  It
\* is anchored, and loses nothing, once a compaction or a power failure it survived
\* has made the journal's name stable (store.cpp:337).
Register ==
    INSTANCE DurableRegister WITH
        Contents <- States, Blank <- Initial, Version <- [s \in States |-> s.seq],
        value <- confirmed, pending <- inflight, anchored <- entry = "synced",
        up <- pc \notin {"down", "refused", "opening"}
StoreIsRegister == Register!Spec

=============================================================================
