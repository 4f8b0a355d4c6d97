------------------------------ MODULE Journal ------------------------------
(***************************************************************************)
(* The write-ahead journal of src/persist: its items, the scan that finds  *)
(* the intact ones (journal.cpp) and the replay that turns a checkpoint    *)
(* and a journal into the state a store opens with (store.cpp).  Encodings *)
(* and checksums are abstracted to the fact they establish: an item is     *)
(* intact or it is torn.                                                   *)
(***************************************************************************)
EXTENDS Naturals, Sequences, FiniteSets

CONSTANTS
    Values,            \* what the controller commits (everything but sequence)
    NoValue,           \* the DurableState{} of a store that holds nothing
    PayloadBytes,      \* size of an encoded state, in units of a record prefix
    MaxJournalBytes,   \* policy.max_journal_bytes, in the same unit
    RepairTornTail,    \* StoreOptions::repair_torn_tail
    MaxSequence        \* bound of the model: last sequence number committed

ASSUME JournalAssumption ==
    /\ NoValue \notin Values
    /\ PayloadBytes \in Nat
    /\ MaxJournalBytes \in Nat /\ PayloadBytes =< MaxJournalBytes
    /\ RepairTornTail \in BOOLEAN
    /\ MaxSequence \in Nat

-----------------------------------------------------------------------------
(* States, checkpoints and journal items. *)

State(n, v) == [seq |-> n, val |-> v]
Initial == State(0, NoValue)
States == {Initial} \cup [seq : 1 .. MaxSequence, val : Values]

\* A checkpoint file that does not exist holds the initial state: a checkpoint
\* that does exist is only ever written for a state whose sequence is not 0 or
\* for the initial state itself, so `present' tells the two apart.
Absent == [present |-> FALSE, state |-> Initial]
Checkpoints == {Absent} \cup [present : {TRUE}, state : States]

Item(type, s) == [type |-> type, seq |-> s.seq, val |-> s.val]
Header        == Item("header", Initial)
Torn          == Item("torn", Initial)
Begin(s)      == Item("begin", s)
Commit(s)     == Item("commit", State(s.seq, NoValue))
CheckpointRecord(s) == Item("checkpoint", s)
Items == [type : {"header", "torn", "begin", "commit", "checkpoint"},
          seq : 0 .. MaxSequence, val : Values \cup {NoValue}]

\* Size of a journal: a prefix per item, a payload where there is one.
Bytes(j) ==
    Len(j) + PayloadBytes * Cardinality({i \in DOMAIN j : j[i].type \in {"begin", "checkpoint"}})

-----------------------------------------------------------------------------
(* scan_journal: the records before the first damaged one. *)

Damaged(j) == {i \in DOMAIN j : j[i].type = "torn"}
ScanEnd(j) == IF Damaged(j) = {} THEN Len(j)
              ELSE (CHOOSE i \in Damaged(j) : \A k \in Damaged(j) : i =< k) - 1
ValidPrefix(j) == SubSeq(j, 1, ScanEnd(j))

\* The statuses a scan of a non-empty file may return.  Damage behind the
\* header and before anything else reads as an unusable file or as a bad
\* checksum, whichever bytes follow it.
ScanStatuses(j) ==
    CASE j[1] # Header -> {"corrupt"}
      [] j[1] = Header /\ Damaged(j) = {} -> {"clean"}
      [] j[1] = Header /\ Damaged(j) # {} /\ ScanEnd(j) = Len(j) - 1 -> {"tornTail"}
      [] OTHER -> {"tornTail", "corruptTail"} \cup (IF ScanEnd(j) = 1 THEN {"corrupt"} ELSE {})

-----------------------------------------------------------------------------
(* replay: which state the records of a valid journal stand for.           *)

\* Records the checkpoint does not already cover.
Live(j, c) ==
    {i \in 2 .. Len(j) : ~(c.present /\ j[i].seq =< c.state.seq)}
Previous(j, c, i) == {k \in Live(j, c) : k < i /\ \A m \in Live(j, c) : m < i => m =< k}
Following(j, c, i) == {k \in Live(j, c) : i < k /\ \A m \in Live(j, c) : i < m => k =< m}

\* The Commit at i closes the transaction that is open when it is reached.
Closes(j, c, i) ==
    \E b \in Previous(j, c, i) : j[b].type = "begin" /\ j[b].seq = j[i].seq
Mismatched(j, c) == \E i \in Live(j, c) : j[i].type = "commit" /\ ~Closes(j, c, i)

\* A Begin that is followed by anything but its Commit was never committed.
Ambiguous(j, c) ==
    \E i \in Live(j, c) :
        /\ j[i].type = "begin"
        /\ \A k \in Following(j, c, i) : j[k].type # "commit"

Installing(j, c) == {i \in Live(j, c) : j[i].type \in {"commit", "checkpoint"}}

\* The state the replay ends with: the last record that installs one.
Replayed(j, c) ==
    IF Installing(j, c) = {} THEN c.state
    ELSE LET last == CHOOSE i \in Installing(j, c) : \A k \in Installing(j, c) : k =< i
             from == IF j[last].type = "checkpoint" THEN last
                     ELSE CHOOSE b \in Previous(j, c, last) : TRUE
         IN  State(j[from].seq, j[from].val)

\* What open() may make of a journal j and a checkpoint c.
Recovery(status, s, a, j) == [status |-> status, state |-> s, ambiguous |-> a, journal |-> j]
Recoveries(j, c) ==
    IF j = << >> THEN {Recovery("empty", c.state, FALSE, j)}
    ELSE IF Bytes(j) > 2 * MaxJournalBytes THEN {Recovery("exhausted", Initial, FALSE, j)}
    ELSE LET Read(status) ==
                 IF status = "corrupt" \/ Mismatched(ValidPrefix(j), c)
                    \/ (status # "clean" /\ ~RepairTornTail)
                 THEN Recovery("corrupt", Initial, FALSE, j)
                 ELSE Recovery(status, Replayed(ValidPrefix(j), c),
                               Ambiguous(ValidPrefix(j), c), ValidPrefix(j))
         IN  {Read(status) : status \in ScanStatuses(j)}

Usable(r) == r.status \notin {"corrupt", "exhausted"}

=============================================================================
