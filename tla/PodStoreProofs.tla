--------------------------- MODULE PodStoreProofs ---------------------------
(***************************************************************************)
(* Proofs about PodStore, for any values, any journal bound and any number *)
(* of failed file operations, killed processes and power failures, of a    *)
(* store whose failed writes leave no part of a record behind              *)
(* (ShortWrites = FALSE): no state a commit or a recovery confirmed is     *)
(* lost but with a new journal whose name in the directory was never       *)
(* synced, no recovery meets a Commit that does not match, the store       *)
(* implements the register it promises, and the loop of replay() computes  *)
(* the closed form that all of this is stated with.                        *)
(***************************************************************************)
EXTENDS PodStore, FoldLemmas, SequenceTheorems

-----------------------------------------------------------------------------
(* The inductive invariant. *)

\* A journal that open() may read: nothing yet, or something behind a header.
Readable(p) == p = << >> \/ p[1] = Header
Intact(j) == \A i \in DOMAIN j : j[i].type # "torn"
TornLast(j) == \A i \in DOMAIN j : j[i].type = "torn" => i = Len(j)

\* Sequence numbers do not go back along a journal, every Commit stands behind the
\* Begin it closes, and no record is of more than one state to come.
InOrder(p) == \A i, k \in DOMAIN p : i =< k => p[i].seq =< p[k].seq
Paired(p) == \A i \in 2 .. Len(p) :
    p[i].type = "commit" => p[i - 1].type = "begin" /\ p[i - 1].seq = p[i].seq
Below(p, n) == \A i \in DOMAIN p : p[i].seq =< n + 1

\* From every checkpoint in C, p replays to a state in D that no record is far ahead of.
Accounted(p, C, D) ==
    Readable(p) =>
        /\ InOrder(p) /\ Paired(p)
        /\ \A c \in C : Replayed(p, c) \in D /\ Below(p, Replayed(p, c).seq)

\* The records a power failure that spares the journal may leave and those a kill may
\* leave, and the states a recovery may return.
Left == {ValidPrefix(j) : j \in ContentsAfterCrash}
Spared == {ValidPrefix(j) : j \in JournalsAfterKill}
Doubt == {confirmed} \cup inflight
IsOpen == pc \notin {"down", "refused"}
Written == [present |-> TRUE, state |-> state_]

\* Damage is at the end of a file, and open() cuts it off.
FilesFit ==
    /\ TornLast(disk) /\ TornLast(page)
    /\ IsOpen => Intact(page)
    /\ ckptDisk.state.seq =< ckptPage.state.seq
    /\ ckptDisk.present => ckptPage.present

\* Whatever is left, from either checkpoint, replays to a state in doubt.
RecordsFit == \A p \in Left : Accounted(p, CheckpointsAfterCrash, Doubt)
HistoryFits == \A s \in inflight : confirmed.seq =< s.seq

\* An open store is ahead of both checkpoints, at most one state behind all that is
\* left and never ahead of what a kill leaves; a closed one would be once it is opened.
StateFits ==
    IsOpen =>
        /\ state_ \in Doubt /\ ckptPage.state.seq =< state_.seq
        /\ \A p \in Left : Readable(p) => Below(p, state_.seq)
        /\ \A p \in Spared : Readable(p) =>
              \A c \in CheckpointsAfterCrash : state_.seq =< Replayed(p, c).seq
Recoverable(p) ==
    Readable(p) =>
        /\ \A q \in Left : Readable(q) => Below(q, Replayed(p, ckptPage).seq)
        /\ \A c \in CheckpointsAfterCrash : Replayed(p, ckptPage).seq =< Replayed(p, c).seq
RecoveryFits == ~IsOpen => \A p \in Spared : Recoverable(p)

\* What each step of open(), commit() and compact() has done so far.
PlaceFits ==
    /\ pc = "down" => flushed = Len(page)
    /\ pc = "opening" => Replayed(page, ckptPage) = state_
    /\ pc \in {"begun", "committed"} =>
          next = State(state_.seq + 1, next.val) /\ next \in inflight
    /\ pc = "begun" => page # << >> /\ page[Len(page)] = Begin(next)
    /\ pc = "committed" => /\ Len(page) > 1 /\ page[Len(page)] = Commit(next)
                           /\ page[Len(page) - 1] = Begin(next)
    /\ pc = "replaced" => ckptPage = Written
    /\ pc \in {"checkpointed", "truncated", "headed", "recorded"} =>
          ckptPage = Written /\ ckptDisk = Written
    /\ pc = "truncated" => page = << >>
    /\ pc = "headed" => page = <<Header>>

StoreFits ==
    /\ TypeOK /\ FilesFit /\ RecordsFit /\ HistoryFits
    /\ StateFits /\ RecoveryFits /\ PlaceFits

-----------------------------------------------------------------------------
(* Journals and their beginnings. *)

Positions(j) == 1 .. Len(j)

LEMMA ItemTypes ==
    /\ \A item \in Items : item.seq \in Nat /\ item.seq =< MaxSequence
    /\ \A s \in States : s.seq \in Nat /\ s.seq =< MaxSequence
                         /\ s.val \in Values \cup {NoValue} /\ s = State(s.seq, s.val)
    /\ \A c \in Checkpoints : c.present \in BOOLEAN /\ c.state \in States
                              /\ (~c.present => c = Absent)
    /\ Initial \in States /\ Initial.seq = 0 /\ Absent \in Checkpoints
<1>. USE JournalAssumption DEF States, State, Initial
<1>1. \A item \in Items : item.seq \in Nat /\ item.seq =< MaxSequence
  BY DEF Items
<1>2. \A s \in States : s.seq \in Nat /\ s.seq =< MaxSequence
                        /\ s.val \in Values \cup {NoValue} /\ s = State(s.seq, s.val)
  <2>1. CASE \A s \in States : s = Initial \/ s \in [seq : 1 .. MaxSequence, val : Values]
    <3>1. \A s \in [seq : 1 .. MaxSequence, val : Values] :
             /\ s.seq \in Nat /\ s.seq =< MaxSequence /\ s.val \in Values
             /\ s = [seq |-> s.seq, val |-> s.val]
      OBVIOUS
    <3>2. Initial = [seq |-> 0, val |-> NoValue] /\ 0 =< MaxSequence
      OBVIOUS
    <3>. HIDE DEF Initial
    <3>. QED  BY <2>1, <3>1, <3>2
  <2>. QED  BY <2>1
<1>3. Initial \in States /\ Initial.seq = 0 /\ Absent \in Checkpoints
  BY DEF Checkpoints
<1>4. \A c \in Checkpoints : c.present \in BOOLEAN /\ c.state \in States
                             /\ (~c.present => c = Absent)
  <2>. HIDE DEF Initial, States
  <2>1. \A c \in [present : {TRUE}, state : States] : c.present = TRUE /\ c.state \in States
    OBVIOUS
  <2>2. Absent.present = FALSE /\ Absent.state = Initial
    BY DEF Absent
  <2>3. \A c \in Checkpoints : c = Absent \/ c \in [present : {TRUE}, state : States]
    BY DEF Checkpoints
  <2>. HIDE DEF Absent
  <2>. QED  BY <1>3, <2>1, <2>2, <2>3
<1>. QED  BY <1>1, <1>2, <1>3, <1>4

LEMMA RecordTypes ==
    /\ Header \in Items /\ Header.type = "header" /\ Header.seq = 0
    /\ Torn \in Items /\ Torn.type = "torn"
    /\ \A s \in States :
          /\ Begin(s) \in Items /\ Begin(s).type = "begin" /\ Begin(s).seq = s.seq
          /\ Commit(s) \in Items /\ Commit(s).type = "commit" /\ Commit(s).seq = s.seq
          /\ CheckpointRecord(s) \in Items /\ CheckpointRecord(s).type = "checkpoint"
          /\ CheckpointRecord(s).seq = s.seq
<1>1. \A type \in {"header", "torn", "begin", "commit", "checkpoint"}, s \in States :
         Item(type, s) \in Items /\ Item(type, s).type = type /\ Item(type, s).seq = s.seq
  <2>1. \A s \in States : s.seq \in 0 .. MaxSequence /\ s.val \in Values \cup {NoValue}
    BY ItemTypes, JournalAssumption
  <2>. QED  BY <2>1 DEF Item, Items
<1>2. \A s \in States : Commit(s) \in Items /\ Commit(s).type = "commit" /\ Commit(s).seq = s.seq
  <2>1. \A s \in States : s.seq \in 0 .. MaxSequence
    BY ItemTypes, JournalAssumption
  <2>. QED  BY <2>1 DEF Item, Items, Commit, State
<1>. QED  BY <1>1, <1>2, ItemTypes DEF Header, Torn, Begin, CheckpointRecord

LEMMA Beginning ==
    ASSUME NEW S, NEW s \in Seq(S), NEW k \in 0 .. Len(s)
    PROVE  /\ SubSeq(s, 1, k) \in Seq(S) /\ Len(SubSeq(s, 1, k)) = k
           /\ DOMAIN SubSeq(s, 1, k) = 1 .. k
           /\ \A i \in 1 .. k : SubSeq(s, 1, k)[i] = s[i]
           /\ SubSeq(s, 1, Len(s)) = s
           /\ DOMAIN s = Positions(s) /\ Len(s) \in Nat
BY SubSeqProperties, SubSeqFull DEF Positions

LEMMA Longer ==
    ASSUME NEW S, NEW s \in Seq(S), NEW e \in S
    PROVE  /\ Append(s, e) \in Seq(S) /\ Len(Append(s, e)) = Len(s) + 1
           /\ DOMAIN Append(s, e) = 1 .. Len(s) + 1 /\ Append(s, e)[Len(s) + 1] = e
           /\ \A i \in 1 .. Len(s) : Append(s, e)[i] = s[i]
           /\ Len(s) \in Nat
BY AppendProperties

LEMMA BeginningOfLonger ==
    ASSUME NEW S, NEW s \in Seq(S), NEW e \in S, NEW k \in 0 .. Len(s)
    PROVE  SubSeq(Append(s, e), 1, k) = SubSeq(s, 1, k)
<1>1. k \in 0 .. Len(Append(s, e)) /\ Append(s, e) \in Seq(S)
  BY Longer
<1>2. \A i \in 1 .. k : i \in 1 .. Len(s)
  BY Beginning
<1>. DEFINE a == SubSeq(Append(s, e), 1, k)  b == SubSeq(s, 1, k)
<1>3. a \in Seq(S) /\ Len(a) = k /\ \A i \in 1 .. k : a[i] = Append(s, e)[i]
  BY <1>1, Beginning
<1>4. b \in Seq(S) /\ Len(b) = k /\ \A i \in 1 .. k : b[i] = s[i]
  BY Beginning
<1>5. \A i \in 1 .. Len(a) : a[i] = b[i]
  BY <1>2, <1>3, <1>4, Longer
<1>. HIDE DEF a, b
<1>6. a = b
  BY <1>3, <1>4, <1>5, SeqEqual
<1>. QED  BY <1>6 DEF a, b

\* What the scan keeps of a journal damaged at its end at most.
LEMMA ScanStops ==
    ASSUME NEW j \in Seq(Items), TornLast(j)
    PROVE  /\ ValidPrefix(j) \in Seq(Items) /\ Intact(ValidPrefix(j))
           /\ Intact(j) => ScanEnd(j) = Len(j) /\ ValidPrefix(j) = j
           /\ ~Intact(j) => /\ Len(j) > 0 /\ j[Len(j)].type = "torn"
                            /\ ScanEnd(j) = Len(j) - 1
                            /\ ValidPrefix(j) = SubSeq(j, 1, Len(j) - 1)
<1>0. DOMAIN j = 1 .. Len(j) /\ Len(j) \in Nat
  BY Beginning DEF Positions
<1>1. CASE Intact(j)
  <2>1. ScanEnd(j) = Len(j)
    BY <1>1 DEF ScanEnd, Damaged, Intact
  <2>2. ValidPrefix(j) = j
    BY <1>0, <2>1, Beginning DEF ValidPrefix
  <2>. QED  BY <1>1, <2>1, <2>2
<1>2. CASE ~Intact(j)
  <2>1. Damaged(j) = {Len(j)} /\ Len(j) > 0 /\ j[Len(j)].type = "torn"
    BY <1>0, <1>2 DEF Damaged, Intact, TornLast
  <2>2. (CHOOSE i \in Damaged(j) : \A k \in Damaged(j) : i =< k) = Len(j)
    BY <1>0, <2>1
  <2>3. ScanEnd(j) = Len(j) - 1
    BY <2>1, <2>2 DEF ScanEnd
  <2>4. Len(j) - 1 \in 0 .. Len(j)
    BY <1>0, <2>1
  <2>5. /\ SubSeq(j, 1, Len(j) - 1) \in Seq(Items)
        /\ DOMAIN SubSeq(j, 1, Len(j) - 1) = 1 .. Len(j) - 1
        /\ \A i \in 1 .. Len(j) - 1 : SubSeq(j, 1, Len(j) - 1)[i] = j[i]
    BY <2>4, Beginning
  <2>6. \A i \in 1 .. Len(j) - 1 : i \in DOMAIN j /\ i # Len(j)
    <3>1. \A n \in Nat : \A i \in 1 .. n - 1 : i \in 1 .. n /\ i # n
      OBVIOUS
    <3>. QED  BY <1>0, <3>1
  <2>7. Intact(SubSeq(j, 1, Len(j) - 1))
    <3>1. \A i \in 1 .. Len(j) - 1 : j[i].type # "torn"
      BY <2>6 DEF TornLast
    <3>. QED  BY <2>5, <3>1 DEF Intact
  <2>. QED  BY <1>2, <2>1, <2>3, <2>5, <2>7 DEF ValidPrefix
<1>. QED  BY <1>1, <1>2

-----------------------------------------------------------------------------
(* What a journal replays to. *)

\* The record an installing record takes its state from.
From(p, i) == IF p[i].type = "checkpoint" THEN i ELSE i - 1
StateAt(p, i) == State(p[From(p, i)].seq, p[From(p, i)].val)

\* A Begin and its Commit are both covered by a checkpoint or neither is.
LEMMA PairsCloses ==
    ASSUME NEW p \in Seq(Items), NEW c \in Checkpoints, Paired(p), p # << >>, p[1] = Header,
           NEW i \in Live(p, c), p[i].type = "commit"
    PROVE  /\ Previous(p, c, i) = {i - 1} /\ Closes(p, c, i)
           /\ p[i - 1].type = "begin" /\ p[i - 1].seq = p[i].seq /\ i - 1 \in 2 .. Len(p)
<1>0. DOMAIN p = 1 .. Len(p) /\ Len(p) \in Nat /\ i \in 2 .. Len(p)
  BY Beginning DEF Positions, Live
<1>1. p[i - 1].type = "begin" /\ p[i - 1].seq = p[i].seq
  BY <1>0 DEF Paired
<1>2. p[1].type = "header"
  BY DEF Header, Item
<1>3. i - 1 \in 2 .. Len(p)
  BY <1>0, <1>1, <1>2
<1>4. i - 1 \in Live(p, c)
  BY <1>1, <1>3 DEF Live
<1>5. \A k \in Live(p, c) : k \in Nat
  BY DEF Live
<1>6. Previous(p, c, i) = {i - 1}
  <2>1. \A k \in Live(p, c) : k < i => k =< i - 1
    <3>1. \A k, m \in Nat : k < m => k =< m - 1
      OBVIOUS
    <3>. QED  BY <1>0, <1>5, <3>1
  <2>2. i - 1 < i /\ i - 1 \in Nat
    BY <1>0, <1>3
  <2>3. i - 1 \in Previous(p, c, i)
    BY <1>4, <2>1, <2>2 DEF Previous
  <2>4. \A k \in Previous(p, c, i) : k = i - 1
    BY <1>4, <1>5, <2>1, <2>2 DEF Previous
  <2>. QED  BY <2>3, <2>4
<1>. QED  BY <1>1, <1>3, <1>6 DEF Closes

LEMMA NothingMismatches ==
    ASSUME NEW p \in Seq(Items), NEW c \in Checkpoints, Paired(p), Readable(p)
    PROVE  ~Mismatched(p, c)
<1>1. CASE p = << >>
  BY <1>1 DEF Mismatched, Live
<1>2. CASE p # << >> /\ p[1] = Header
  BY <1>2, PairsCloses DEF Mismatched
<1>. QED  BY <1>1, <1>2 DEF Readable

\* The replay ends in the state of the last record that installs one, or in that of
\* the checkpoint.
LEMMA ReplayEnds ==
    ASSUME NEW p \in Seq(Items), NEW c \in Checkpoints, Paired(p), Readable(p)
    PROVE  /\ Installing(p, c) = {} => Replayed(p, c) = c.state
           /\ \A i \in Installing(p, c) : (\A k \in Installing(p, c) : k =< i) =>
                 /\ Replayed(p, c) = StateAt(p, i) /\ Replayed(p, c).seq = p[i].seq
                 /\ p[i].seq \in Nat /\ i \in 2 .. Len(p)
           /\ Installing(p, c) # {} =>
                 \E i \in Installing(p, c) : \A k \in Installing(p, c) : k =< i
<1>0. DOMAIN p = 1 .. Len(p) /\ Len(p) \in Nat /\ \A i \in 1 .. Len(p) : p[i] \in Items
  BY Beginning DEF Positions
<1>1. Installing(p, c) \in SUBSET (1 .. Len(p)) /\ Installing(p, c) \subseteq 2 .. Len(p)
  BY <1>0 DEF Installing, Live
<1>2. ASSUME NEW i \in Installing(p, c), \A k \in Installing(p, c) : k =< i
      PROVE  /\ Replayed(p, c) = StateAt(p, i) /\ Replayed(p, c).seq = p[i].seq
             /\ p[i].seq \in Nat /\ i \in 2 .. Len(p)
  <2>0. i \in Nat /\ i \in 1 .. Len(p) /\ i \in 2 .. Len(p)
    BY <1>1, <1>2
  <2>1. (CHOOSE m \in Installing(p, c) : \A k \in Installing(p, c) : k =< m) = i
    <3>1. \A m \in Installing(p, c) : m \in Nat
      BY <1>0, <1>1
    <3>2. \A m \in Installing(p, c) : (\A k \in Installing(p, c) : k =< m) => m = i
      BY <1>2, <2>0, <3>1
    <3>. QED  BY <1>2, <3>2
  <2>2. p[i].seq \in Nat
    BY <1>0, <2>0, ItemTypes
  <2>3. CASE p[i].type = "checkpoint"
    <3>1. Replayed(p, c) = State(p[i].seq, p[i].val)
      BY <1>2, <2>1, <2>3 DEF Replayed
    <3>. QED  BY <2>0, <2>2, <2>3, <3>1 DEF StateAt, From, State
  <2>4. CASE p[i].type # "checkpoint"
    <3>1. i \in Live(p, c) /\ p[i].type = "commit" /\ p # << >> /\ p[1] = Header
      BY <1>0, <2>0, <2>4 DEF Installing, Readable
    <3>2. Previous(p, c, i) = {i - 1} /\ p[i - 1].seq = p[i].seq
      BY <3>1, PairsCloses
    <3>3. (CHOOSE b \in Previous(p, c, i) : TRUE) = i - 1
      BY <3>2
    <3>4. Replayed(p, c) = State(p[i - 1].seq, p[i - 1].val)
      BY <1>2, <2>1, <2>4, <3>3 DEF Replayed
    <3>. QED  BY <2>0, <2>2, <2>4, <3>2, <3>4 DEF StateAt, From, State
  <2>. QED  BY <2>3, <2>4
<1>3. Installing(p, c) = {} => Replayed(p, c) = c.state
  BY DEF Replayed
<1>4. Installing(p, c) # {} =>
         \E i \in Installing(p, c) : \A k \in Installing(p, c) : k =< i
  <2>1. Installing(p, c) \subseteq 0 .. Len(p)
    BY <1>0, <1>1
  <2>. QED  BY <1>0, <2>1, LargestMember
<1>. QED  BY <1>2, <1>3, <1>4

\* It never ends before the checkpoint it started from.
LEMMA ReplayMovesOn ==
    ASSUME NEW p \in Seq(Items), NEW c \in Checkpoints, Paired(p), Readable(p)
    PROVE  c.state.seq =< Replayed(p, c).seq /\ Replayed(p, c).seq \in Nat /\ c.state.seq \in Nat
<1>1. c.state.seq \in Nat
  BY ItemTypes
<1>2. CASE Installing(p, c) = {}
  BY <1>1, <1>2, ReplayEnds
<1>3. CASE Installing(p, c) # {}
  <2>1. PICK i \in Installing(p, c) : \A k \in Installing(p, c) : k =< i
    BY <1>3, ReplayEnds
  <2>2. Replayed(p, c).seq = p[i].seq /\ p[i].seq \in Nat
    BY <2>1, ReplayEnds
  <2>3. ~(c.present /\ p[i].seq =< c.state.seq)
    BY <2>1 DEF Installing, Live
  <2>4. ~c.present => c.state.seq = 0
    BY ItemTypes DEF Absent
  <2>. QED  BY <1>1, <2>2, <2>3, <2>4
<1>. QED  BY <1>2, <1>3

\* A record that installs nothing, or that the checkpoint covers, is replayed to the
\* same state.
LEMMA ReplayStands ==
    ASSUME NEW p \in Seq(Items), NEW c \in Checkpoints, NEW e \in Items, p # << >>,
           Paired(p), Readable(p), Paired(Append(p, e)),
           e.type \in {"commit", "checkpoint"} => c.present /\ e.seq =< c.state.seq
    PROVE  Replayed(Append(p, e), c) = Replayed(p, c)
<1>. DEFINE q == Append(p, e)
<1>0. /\ q \in Seq(Items) /\ Len(q) = Len(p) + 1 /\ DOMAIN q = 1 .. Len(p) + 1
      /\ q[Len(p) + 1] = e /\ Len(p) \in Nat /\ Len(p) > 0
      /\ \A i \in 1 .. Len(p) : q[i] = p[i]
  <2>1. Len(p) > 0
    BY EmptySeq
  <2>. QED  BY <2>1, Longer
<1>1. Readable(q)
  BY <1>0 DEF Readable
<1>. HIDE DEF q
<1>2. Installing(q, c) = Installing(p, c)
  <2>1. \A n \in Nat : \A i \in 2 .. n : i \in 2 .. n + 1 /\ i \in 1 .. n
    OBVIOUS
  <2>2. \A n \in Nat : \A i \in 2 .. n + 1 : i = n + 1 \/ i \in 2 .. n
    OBVIOUS
  <2>3. \A i \in Installing(p, c) : i \in Installing(q, c)
    BY <1>0, <2>1 DEF Installing, Live
  <2>4. \A i \in Installing(q, c) : i \in Installing(p, c)
    <3>1. SUFFICES ASSUME NEW i \in Installing(q, c)  PROVE  i \in Installing(p, c)
      OBVIOUS
    <3>2. i \in 2 .. Len(p) + 1 /\ i \in Live(q, c) /\ q[i].type \in {"commit", "checkpoint"}
      BY <1>0 DEF Installing, Live
    <3>3. i # Len(p) + 1
      BY <1>0, <3>2 DEF Live
    <3>4. i \in 2 .. Len(p) /\ i \in 1 .. Len(p)
      BY <1>0, <2>1, <2>2, <3>2, <3>3
    <3>. QED  BY <1>0, <3>2, <3>4 DEF Installing, Live
  <2>. QED  BY <2>3, <2>4
<1>3. CASE Installing(p, c) = {}
  BY <1>0, <1>1, <1>2, <1>3, ReplayEnds DEF q
<1>4. CASE Installing(p, c) # {}
  <2>1. PICK i \in Installing(p, c) : \A k \in Installing(p, c) : k =< i
    BY <1>4, ReplayEnds
  <2>2. Replayed(p, c) = StateAt(p, i) /\ i \in 2 .. Len(p)
    BY <2>1, ReplayEnds
  <2>3. Replayed(q, c) = StateAt(q, i)
    <3>1. Paired(q)
      BY DEF q
    <3>. QED  BY <1>0, <1>1, <1>2, <2>1, <3>1, ReplayEnds
  <2>4. \A n \in Nat : \A k \in 2 .. n : k \in 1 .. n /\ k - 1 \in 1 .. n
    OBVIOUS
  <2>5. q[i] = p[i] /\ q[i - 1] = p[i - 1]
    BY <1>0, <2>2, <2>4
  <2>. QED  BY <2>2, <2>3, <2>5 DEF StateAt, From, q
<1>. QED  BY <1>3, <1>4

\* A transaction no checkpoint covers is replayed to its state.
LEMMA ReplayCommits ==
    ASSUME NEW p \in Seq(Items), NEW c \in Checkpoints, NEW s \in States,
           Paired(p), Readable(p), Len(p) > 1,
           p[Len(p)] = Commit(s), p[Len(p) - 1] = Begin(s), c.state.seq < s.seq
    PROVE  Replayed(p, c) = s
<1>0. Len(p) \in Nat /\ Len(p) \in 2 .. Len(p) /\ s.seq \in Nat /\ c.state.seq \in Nat
  BY Beginning, ItemTypes
<1>1. Len(p) \in Live(p, c)
  <2>1. p[Len(p)].seq = s.seq
    BY DEF Commit, Item, State
  <2>. QED  BY <1>0, <2>1 DEF Live
<1>2. Len(p) \in Installing(p, c)
  BY <1>1 DEF Installing, Commit, Item
<1>3. \A k \in Installing(p, c) : k =< Len(p)
  BY <1>0 DEF Installing, Live
<1>4. Replayed(p, c) = StateAt(p, Len(p))
  BY <1>2, <1>3, ReplayEnds
<1>5. StateAt(p, Len(p)) = State(s.seq, s.val)
  BY <1>0 DEF StateAt, From, Commit, Begin, Item, State
<1>. QED  BY <1>4, <1>5, ItemTypes

\* From a newer checkpoint a journal replays to that checkpoint or to what it did.
LEMMA ReplayFromNewer ==
    ASSUME NEW p \in Seq(Items), NEW c \in Checkpoints, NEW d \in Checkpoints,
           Paired(p), Readable(p), InOrder(p), d.present, c.state.seq =< d.state.seq
    PROVE  Replayed(p, d) = d.state \/ Replayed(p, d) = Replayed(p, c)
<1>0. /\ DOMAIN p = 1 .. Len(p) /\ Len(p) \in Nat /\ c.state.seq \in Nat /\ d.state.seq \in Nat
      /\ \A i \in 2 .. Len(p) : i \in Nat /\ i \in 1 .. Len(p) /\ p[i].seq \in Nat
  <2>1. \A i \in 1 .. Len(p) : p[i] \in Items
    BY Beginning DEF Positions
  <2>2. \A n \in Nat : \A i \in 2 .. n : i \in 1 .. n /\ i \in Nat
    OBVIOUS
  <2>. QED  BY <2>1, <2>2, Beginning, ItemTypes DEF Positions
<1>1. \A i \in Live(p, d) : i \in Live(p, c)
  BY <1>0 DEF Live
<1>2. \A i \in Installing(p, d) : i \in Installing(p, c)
  BY <1>1 DEF Installing
<1>3. CASE Installing(p, d) = {}
  BY <1>3, ReplayEnds
<1>4. CASE Installing(p, d) # {}
  <2>1. PICK i \in Installing(p, d) : \A k \in Installing(p, d) : k =< i
    BY <1>4, ReplayEnds
  <2>2. Installing(p, c) # {} /\ i \in Installing(p, c)
    BY <1>2
  <2>3. PICK m \in Installing(p, c) : \A k \in Installing(p, c) : k =< m
    BY <2>2, ReplayEnds
  <2>4. i \in 2 .. Len(p) /\ m \in 2 .. Len(p) /\ i =< m
    BY <2>2, <2>3 DEF Installing, Live
  <2>5. p[i].seq =< p[m].seq
    BY <1>0, <2>4 DEF InOrder
  <2>6. d.state.seq < p[i].seq
    BY <1>0, <2>1, <2>4 DEF Installing, Live
  <2>7. m \in Installing(p, d)
    BY <1>0, <2>3, <2>4, <2>5, <2>6 DEF Installing, Live
  <2>8. i = m
    BY <1>0, <2>1, <2>4, <2>7
  <2>9. Replayed(p, d) = StateAt(p, i)
    BY <2>1, ReplayEnds
  <2>10. Replayed(p, c) = StateAt(p, m)
    BY <2>3, ReplayEnds
  <2>. QED  BY <2>8, <2>9, <2>10
<1>. QED  BY <1>3, <1>4

\* An empty journal stands for the checkpoint, and a header adds nothing to it.
LEMMA ReplayOfNothing ==
    ASSUME NEW c \in Checkpoints, NEW p \in {<< >>, <<Header>>}
    PROVE  /\ p \in Seq(Items) /\ Readable(p) /\ Intact(p) /\ InOrder(p) /\ Paired(p)
           /\ Replayed(p, c) = c.state /\ \A n \in Nat : Below(p, n)
<1>1. Header \in Items /\ Header.seq = 0 /\ Header.type = "header"
  BY JournalAssumption DEF Header, Item, Items, Initial, State
<1>. HIDE DEF Header
<1>2. p \in Seq(Items) /\ Readable(p) /\ Len(p) =< 1 /\ DOMAIN p \subseteq {1} /\ Len(p) \in Nat
  <2>1. CASE p = << >>
    BY <2>1 DEF Readable
  <2>2. CASE p = <<Header>>
    BY <1>1, <2>2 DEF Readable
  <2>. QED  BY <2>1, <2>2
<1>3. \A i \in DOMAIN p : p[i] = Header
  OBVIOUS
<1>4. Intact(p) /\ InOrder(p) /\ \A n \in Nat : Below(p, n)
  BY <1>1, <1>3 DEF Intact, InOrder, Below
<1>5. 2 .. Len(p) = {}
  BY <1>2
<1>6. Paired(p) /\ Installing(p, c) = {}
  BY <1>5 DEF Paired, Installing, Live
<1>. QED  BY <1>2, <1>4, <1>6 DEF Replayed

-----------------------------------------------------------------------------
(* What a recovery returns. *)

LEMMA HeaderIsKept ==
    ASSUME NEW j \in Seq(Items), TornLast(j), j # << >>, j[1] = Header
    PROVE  Readable(ValidPrefix(j))
<1>1. Len(j) \in Nat /\ Len(j) > 0
  BY EmptySeq, Beginning
<1>2. CASE Intact(j)
  BY <1>2, ScanStops DEF Readable
<1>3. CASE ~Intact(j)
  <2>1. ValidPrefix(j) = SubSeq(j, 1, Len(j) - 1) /\ j[Len(j)].type = "torn"
    BY <1>3, ScanStops
  <2>2. Len(j) # 1
    BY <2>1 DEF Header, Item
  <2>3. 1 \in 1 .. Len(j) - 1 /\ Len(j) - 1 \in 0 .. Len(j)
    <3>1. \A n \in Nat : n > 0 /\ n # 1 => 1 \in 1 .. n - 1 /\ n - 1 \in 0 .. n
      OBVIOUS
    <3>. QED  BY <1>1, <2>2, <3>1
  <2>4. SubSeq(j, 1, Len(j) - 1)[1] = j[1]
    BY <2>3, Beginning
  <2>. QED  BY <2>1, <2>4 DEF Readable
<1>. QED  BY <1>2, <1>3

LEMMA UsableRecovery ==
    ASSUME NEW j \in Seq(Items), TornLast(j), NEW c \in Checkpoints,
           NEW r \in Recoveries(j, c), Usable(r)
    PROVE  /\ Readable(j) /\ Readable(ValidPrefix(j))
           /\ r.journal = ValidPrefix(j) /\ r.state = Replayed(ValidPrefix(j), c)
           /\ r.ambiguous \in BOOLEAN
<1>1. CASE j = << >>
  <2>1. r.state = c.state /\ r.journal = << >> /\ r.ambiguous = FALSE
    BY <1>1 DEF Recoveries, Recovery
  <2>2. Intact(j)
    BY <1>1 DEF Intact
  <2>3. ValidPrefix(j) = << >>
    BY <1>1, <2>2, ScanStops
  <2>. QED  BY <1>1, <2>1, <2>3, ReplayOfNothing DEF Readable
<1>2. CASE j # << >>
  <2>2. PICK status \in ScanStatuses(j) :
           r = IF status = "corrupt" \/ Mismatched(ValidPrefix(j), c)
                  \/ (status # "clean" /\ ~RepairTornTail)
               THEN Recovery("corrupt", Initial, FALSE, j)
               ELSE Recovery(status, Replayed(ValidPrefix(j), c),
                             Ambiguous(ValidPrefix(j), c), ValidPrefix(j))
    BY <1>2 DEF Recoveries, Usable, Recovery
  <2>3. r = Recovery(status, Replayed(ValidPrefix(j), c),
                     Ambiguous(ValidPrefix(j), c), ValidPrefix(j))
        /\ status # "corrupt"
    BY <2>2 DEF Usable, Recovery
  <2>4. r.journal = ValidPrefix(j) /\ r.state = Replayed(ValidPrefix(j), c)
        /\ r.ambiguous \in BOOLEAN
    BY <2>3 DEF Recovery, Ambiguous
  <2>5. j[1] = Header
    BY <2>2, <2>3 DEF ScanStatuses
  <2>6. Readable(ValidPrefix(j))
    BY <1>2, <2>5, HeaderIsKept
  <2>. QED  BY <2>4, <2>5, <2>6 DEF Readable
<1>. QED  BY <1>1, <1>2

-----------------------------------------------------------------------------
(* What a crash leaves. *)

\* The journals of a crash while the file is p, n of whose items are kept, and d is
\* on stable storage; and what a scan makes of them.
Crashed(d, p, n) == {d} \cup UNION {Keeps(p, k) : k \in n .. Len(p)}
Scanned(d, p, n) == {ValidPrefix(d)} \cup {ValidPrefix(SubSeq(p, 1, k)) : k \in n .. Len(p)}

LEMMA DamageIsCut ==
    ASSUME NEW p \in Seq(Items), TornLast(p), NEW k \in 0 .. Len(p)
    PROVE  /\ SubSeq(p, 1, k) \in Seq(Items) /\ TornLast(SubSeq(p, 1, k))
           /\ k < Len(p) => /\ Intact(SubSeq(p, 1, k))
                            /\ Append(SubSeq(p, 1, k), Torn) \in Seq(Items)
                            /\ TornLast(Append(SubSeq(p, 1, k), Torn))
                            /\ ValidPrefix(Append(SubSeq(p, 1, k), Torn))
                                  = ValidPrefix(SubSeq(p, 1, k))
<1>. DEFINE s == SubSeq(p, 1, k)
<1>1. /\ s \in Seq(Items) /\ Len(s) = k /\ DOMAIN s = 1 .. k /\ \A i \in 1 .. k : s[i] = p[i]
      /\ SubSeq(p, 1, Len(p)) = p /\ DOMAIN p = 1 .. Len(p) /\ Len(p) \in Nat /\ k \in Nat
  BY Beginning DEF Positions
<1>. HIDE DEF s
<1>2. CASE k = Len(p)
  <2>1. s = p
    BY <1>1, <1>2 DEF s
  <2>2. ~(k < Len(p))
    BY <1>1, <1>2
  <2>. QED  BY <2>1, <2>2 DEF s
<1>3. CASE k < Len(p)
  <2>1. Intact(s)
    <3>1. \A n \in Nat : k < n => \A i \in 1 .. k : i \in 1 .. n /\ i # n
      BY <1>1
    <3>2. \A i \in 1 .. k : i \in DOMAIN p /\ i # Len(p)
      BY <1>1, <1>3, <3>1
    <3>. QED  BY <1>1, <3>2 DEF Intact, TornLast
  <2>2. Torn \in Items /\ Torn.type = "torn"
    BY JournalAssumption DEF Torn, Item, Items, Initial, State
  <2>. DEFINE t == Append(s, Torn)
  <2>3. /\ t \in Seq(Items) /\ Len(t) = k + 1 /\ DOMAIN t = 1 .. k + 1 /\ t[k + 1] = Torn
        /\ \A i \in 1 .. k : t[i] = s[i]
    BY <1>1, <2>2, Longer
  <2>. HIDE DEF t
  <2>4. TornLast(t)
    <3>1. \A i \in 1 .. k + 1 : i \in 1 .. k \/ i = k + 1
      BY <1>1
    <3>. QED  BY <1>1, <2>1, <2>3, <3>1 DEF TornLast, Intact
  <2>5. ~Intact(t)
    BY <1>1, <2>2, <2>3 DEF Intact
  <2>6. ValidPrefix(t) = SubSeq(t, 1, k)
    <3>1. k + 1 - 1 = k
      BY <1>1
    <3>2. ValidPrefix(t) = SubSeq(t, 1, Len(t) - 1)
      BY <2>3, <2>4, <2>5, ScanStops
    <3>. QED  BY <2>3, <3>1, <3>2
  <2>7. SubSeq(t, 1, k) = s
    BY <1>1, <2>2, BeginningOfLonger DEF t
  <2>8. ValidPrefix(s) = s /\ TornLast(s)
    <3>1. TornLast(s)
      BY <2>1 DEF TornLast, Intact
    <3>. QED  BY <1>1, <2>1, <3>1, ScanStops
  <2>. QED  BY <1>1, <1>3, <2>1, <2>3, <2>4, <2>6, <2>7, <2>8 DEF s, t
<1>4. k = Len(p) \/ k < Len(p)
  <2>1. \A n \in Nat : \A i \in 0 .. n : i = n \/ i < n
    OBVIOUS
  <2>. QED  BY <1>1, <2>1
<1>. QED  BY <1>2, <1>3, <1>4

LEMMA CrashedIsScanned ==
    ASSUME NEW d \in Seq(Items), NEW p \in Seq(Items), NEW n \in 0 .. Len(p),
           TornLast(d), TornLast(p)
    PROVE  /\ {ValidPrefix(j) : j \in Crashed(d, p, n)} = Scanned(d, p, n)
           /\ \A j \in Crashed(d, p, n) : j \in Seq(Items) /\ TornLast(j)
           /\ p \in Crashed(d, p, n)
<1>0. Len(p) \in Nat /\ SubSeq(p, 1, Len(p)) = p /\ \A k \in n .. Len(p) : k \in 0 .. Len(p)
  BY Beginning
<1>1. \A k \in n .. Len(p) : \A j \in Keeps(p, k) :
         j \in Seq(Items) /\ TornLast(j) /\ ValidPrefix(j) = ValidPrefix(SubSeq(p, 1, k))
  BY <1>0, DamageIsCut DEF Keeps
<1>2. \A k \in n .. Len(p) : SubSeq(p, 1, k) \in Keeps(p, k)
  BY DEF Keeps
<1>3. n \in 0 .. Len(p) /\ Len(p) \in n .. Len(p)
  BY <1>0
<1>4. ASSUME NEW j \in Crashed(d, p, n)
      PROVE  j \in Seq(Items) /\ TornLast(j) /\ ValidPrefix(j) \in Scanned(d, p, n)
  <2>1. CASE j = d
    BY <2>1 DEF Scanned
  <2>2. CASE j # d
    <3>1. PICK k \in n .. Len(p) : j \in Keeps(p, k)
      BY <1>4, <2>2 DEF Crashed
    <3>. QED  BY <1>1, <3>1 DEF Scanned
  <2>. QED  BY <2>1, <2>2
<1>5. ASSUME NEW q \in Scanned(d, p, n)
      PROVE  \E j \in Crashed(d, p, n) : q = ValidPrefix(j)
  <2>1. CASE q = ValidPrefix(d)
    BY <2>1 DEF Crashed
  <2>2. CASE q # ValidPrefix(d)
    <3>1. PICK k \in n .. Len(p) : q = ValidPrefix(SubSeq(p, 1, k))
      BY <1>5, <2>2 DEF Scanned
    <3>2. SubSeq(p, 1, k) \in Crashed(d, p, n)
      BY <1>2 DEF Crashed
    <3>. QED  BY <3>1, <3>2
  <2>. QED  BY <2>1, <2>2
<1>6. p \in Crashed(d, p, n)
  BY <1>0, <1>2, <1>3 DEF Crashed
<1>. QED  BY <1>4, <1>5, <1>6

LEMMA ScannedAfter ==
    ASSUME NEW d \in Seq(Items), NEW p \in Seq(Items), NEW n \in 0 .. Len(p)
    PROVE  /\ \A e \in Items : Intact(p) /\ e.type # "torn" =>
                 /\ Intact(Append(p, e)) /\ Append(p, e) \in Seq(Items)
                 /\ Scanned(d, Append(p, e), n) \subseteq Scanned(d, p, n) \cup {Append(p, e)}
           /\ Scanned(p, p, Len(p)) = {ValidPrefix(p)}
           /\ Scanned(d, << >>, 0) = {ValidPrefix(d), << >>}
           /\ ValidPrefix(p) \in Scanned(d, p, n) /\ ValidPrefix(d) \in Scanned(d, p, n)
<1>0. /\ Len(p) \in Nat /\ SubSeq(p, 1, Len(p)) = p /\ DOMAIN p = 1 .. Len(p)
      /\ n \in Nat /\ n =< Len(p) /\ Len(p) \in n .. Len(p) /\ Len(p) .. Len(p) = {Len(p)}
  BY Beginning DEF Positions
<1>1. ASSUME NEW e \in Items, Intact(p), e.type # "torn"
      PROVE  /\ Intact(Append(p, e)) /\ Append(p, e) \in Seq(Items)
             /\ Scanned(d, Append(p, e), n) \subseteq Scanned(d, p, n) \cup {Append(p, e)}
  <2>. DEFINE q == Append(p, e)
  <2>1. /\ q \in Seq(Items) /\ Len(q) = Len(p) + 1 /\ DOMAIN q = 1 .. Len(p) + 1
        /\ q[Len(p) + 1] = e /\ \A i \in 1 .. Len(p) : q[i] = p[i]
    BY Longer
  <2>2. \A m \in Nat : \A i \in 1 .. m + 1 : i \in 1 .. m \/ i = m + 1
    OBVIOUS
  <2>. HIDE DEF q
  <2>3. Intact(q)
    <3>1. \A i \in DOMAIN q : i \in DOMAIN p \/ i = Len(p) + 1
      BY <1>0, <2>1, <2>2
    <3>. QED  BY <1>0, <1>1, <2>1, <3>1 DEF Intact
  <2>4. ValidPrefix(q) = q /\ SubSeq(q, 1, Len(q)) = q
    <3>1. TornLast(q)
      BY <2>3 DEF TornLast, Intact
    <3>. QED  BY <2>1, <2>3, <3>1, ScanStops, Beginning
  <2>5. \A k \in n .. Len(q) : k = Len(q) \/ (k \in n .. Len(p) /\ k \in 0 .. Len(p))
    <3>1. \A m \in Nat : \A k \in n .. m + 1 : k = m + 1 \/ (k \in n .. m /\ k \in 0 .. m)
      BY <1>0
    <3>. QED  BY <1>0, <2>1, <3>1
  <2>6. \A k \in 0 .. Len(p) : SubSeq(q, 1, k) = SubSeq(p, 1, k)
    BY BeginningOfLonger DEF q
  <2>7. Scanned(d, q, n) \subseteq Scanned(d, p, n) \cup {q}
    <3>1. ASSUME NEW x \in Scanned(d, q, n), x # q  PROVE  x \in Scanned(d, p, n)
      <4>1. CASE x = ValidPrefix(d)
        BY <4>1 DEF Scanned
      <4>2. CASE x # ValidPrefix(d)
        <5>1. PICK k \in n .. Len(q) : x = ValidPrefix(SubSeq(q, 1, k))
          BY <3>1, <4>2 DEF Scanned
        <5>2. k # Len(q)
          BY <2>4, <3>1, <5>1
        <5>3. k \in n .. Len(p) /\ x = ValidPrefix(SubSeq(p, 1, k))
          BY <2>5, <2>6, <5>1, <5>2
        <5>. QED  BY <5>3 DEF Scanned
      <4>. QED  BY <4>1, <4>2
    <3>. QED  BY <3>1
  <2>. QED  BY <2>1, <2>3, <2>7 DEF q
<1>2. Scanned(p, p, Len(p)) = {ValidPrefix(p)}
  BY <1>0 DEF Scanned
<1>3. Scanned(d, << >>, 0) = {ValidPrefix(d), << >>}
  <2>. DEFINE e == << >>
  <2>1. SubSeq(e, 1, 0) = e /\ 0 .. Len(e) = {0}
    OBVIOUS
  <2>2. ValidPrefix(e) = e
    BY <2>1 DEF ValidPrefix, ScanEnd, Damaged
  <2>. HIDE DEF e
  <2>3. \A k \in 0 .. Len(e) : ValidPrefix(SubSeq(e, 1, k)) = e
    BY <2>1, <2>2
  <2>4. 0 \in 0 .. Len(e)
    BY <2>1
  <2>5. {ValidPrefix(SubSeq(e, 1, k)) : k \in 0 .. Len(e)} = {e}
    BY <2>3, <2>4
  <2>6. Scanned(d, e, 0) = {ValidPrefix(d), e}
    BY <2>5 DEF Scanned
  <2>. QED  BY <2>6 DEF e
<1>4. ValidPrefix(p) \in Scanned(d, p, n) /\ ValidPrefix(d) \in Scanned(d, p, n)
  BY <1>0 DEF Scanned
<1>. QED  BY <1>1, <1>2, <1>3, <1>4

\* What a kill leaves of p when n of its items have left the buffer is what a crash
\* leaves of it when it is on stable storage as well.
LEMMA KilledIsScanned ==
    ASSUME NEW p \in Seq(Items), NEW n \in 0 .. Len(p), TornLast(p)
    PROVE  /\ {ValidPrefix(j) : j \in UNION {Keeps(p, k) : k \in n .. Len(p)}} = Scanned(p, p, n)
           /\ \A j \in UNION {Keeps(p, k) : k \in n .. Len(p)} : j \in Seq(Items) /\ TornLast(j)
           /\ ValidPrefix(p) \in Scanned(p, p, n)
<1>1. Len(p) \in n .. Len(p) /\ p \in Keeps(p, Len(p))
  BY Beginning DEF Keeps
<1>2. UNION {Keeps(p, k) : k \in n .. Len(p)} = Crashed(p, p, n)
  BY <1>1 DEF Crashed
<1>. QED  BY <1>2, CrashedIsScanned, ScannedAfter

\* A journal that lost part of what was not kept leaves nothing new to a crash.
LEMMA ShorterIsScanned ==
    ASSUME NEW d \in Seq(Items), NEW p \in Seq(Items), TornLast(p),
           NEW n \in 0 .. Len(p), NEW k \in n .. Len(p), NEW q \in Keeps(p, k)
    PROVE  /\ q \in Seq(Items) /\ n \in 0 .. Len(q)
           /\ Scanned(d, q, n) \subseteq Scanned(d, p, n)
<1>0. Len(p) \in Nat /\ n \in Nat /\ k \in Nat /\ k \in 0 .. Len(p) /\ n =< k
  BY Beginning
<1>. DEFINE s == SubSeq(p, 1, k)
<1>1. s \in Seq(Items) /\ Len(s) = k /\ \A i \in 1 .. k : s[i] = p[i]
  BY <1>0, Beginning
<1>2. \A m \in 0 .. k : SubSeq(s, 1, m) = SubSeq(p, 1, m)
  <2>1. SUFFICES ASSUME NEW m \in 0 .. k  PROVE SubSeq(s, 1, m) = SubSeq(p, 1, m)
    OBVIOUS
  <2>2. m \in 0 .. Len(p) /\ m \in 0 .. Len(s) /\ \A i \in 1 .. m : i \in 1 .. k
    BY <1>0, <1>1
  <2>. DEFINE a == SubSeq(s, 1, m)  b == SubSeq(p, 1, m)
  <2>3. a \in Seq(Items) /\ Len(a) = m /\ \A i \in 1 .. m : a[i] = s[i]
    BY <1>1, <2>2, Beginning
  <2>4. b \in Seq(Items) /\ Len(b) = m /\ \A i \in 1 .. m : b[i] = p[i]
    BY <2>2, Beginning
  <2>5. \A i \in 1 .. Len(a) : a[i] = b[i]
    BY <1>1, <2>2, <2>3, <2>4
  <2>. HIDE DEF a, b
  <2>6. a = b
    BY <2>3, <2>4, <2>5, SeqEqual
  <2>. QED  BY <2>6 DEF a, b
<1>. HIDE DEF s
<1>3. \A m \in n .. k : m \in n .. Len(p) /\ m \in 0 .. k
  BY <1>0
<1>4. k \in n .. Len(p)
  OBVIOUS
<1>5. CASE q = s
  <2>1. Len(q) = k /\ q \in Seq(Items) /\ n \in 0 .. Len(q)
    BY <1>0, <1>1, <1>5
  <2>2. \A m \in n .. Len(q) : SubSeq(q, 1, m) = SubSeq(p, 1, m) /\ m \in n .. Len(p)
    BY <1>2, <1>3, <1>5, <2>1
  <2>. QED  BY <2>1, <2>2 DEF Scanned
<1>6. CASE k < Len(p) /\ q = Append(s, Torn)
  <2>1. /\ q \in Seq(Items) /\ ValidPrefix(q) = ValidPrefix(s) /\ Len(q) = k + 1
        /\ SubSeq(q, 1, Len(q)) = q
    <3>1. q \in Seq(Items) /\ ValidPrefix(q) = ValidPrefix(s)
      BY <1>0, <1>6, DamageIsCut DEF s
    <3>2. Len(q) = k + 1
      BY <1>1, <1>6, RecordTypes, Longer
    <3>. QED  BY <3>1, <3>2, Beginning
  <2>2. \A m \in n .. Len(q) : m = Len(q) \/ m \in n .. k
    BY <1>0, <2>1
  <2>3. \A m \in 0 .. k : SubSeq(q, 1, m) = SubSeq(s, 1, m)
    BY <1>1, <1>6, RecordTypes, BeginningOfLonger
  <2>4. \A m \in n .. k : ValidPrefix(SubSeq(q, 1, m)) = ValidPrefix(SubSeq(p, 1, m))
    BY <1>2, <1>3, <2>3
  <2>5. ValidPrefix(SubSeq(q, 1, Len(q))) = ValidPrefix(SubSeq(p, 1, k))
    BY <2>1 DEF s
  <2>6. \A m \in n .. Len(q) : \E i \in n .. Len(p) :
           ValidPrefix(SubSeq(q, 1, m)) = ValidPrefix(SubSeq(p, 1, i))
    BY <1>3, <1>4, <2>2, <2>4, <2>5
  <2>7. n \in 0 .. Len(q)
    BY <1>0, <2>1
  <2>. QED  BY <2>1, <2>6, <2>7 DEF Scanned
<1>. QED  BY <1>0, <1>1, <1>5, <1>6 DEF Keeps, s

-----------------------------------------------------------------------------
(* The invariant is kept. *)

\* The facts the steps share: what is left when a store stands as the invariant says.
LEMMA StandsSo ==
    ASSUME StoreFits
    PROVE  /\ Left = Scanned(disk, page, kept)
           /\ \A j \in ContentsAfterCrash :
                 j \in Seq(Items) /\ TornLast(j) /\ ValidPrefix(j) \in Left
           /\ ValidPrefix(page) \in Left /\ Left \subseteq Seq(Items)
           /\ IsOpen => Intact(page) /\ ValidPrefix(page) = page
           /\ Intact(page) => ValidPrefix(page) = page
           /\ \A s \in Doubt : s \in States /\ s.seq \in Nat /\ confirmed.seq =< s.seq
           /\ \A j \in JournalsAfterKill : j \in Seq(Items) /\ TornLast(j)
           /\ ValidPrefix(page) \in Spared /\ Spared \subseteq Left
           /\ Spared = Scanned(page, page, flushed) /\ flushed \in 0 .. Len(page)
<1>1. /\ disk \in Seq(Items) /\ page \in Seq(Items) /\ kept \in 0 .. Len(page)
      /\ TornLast(disk) /\ TornLast(page)
      /\ IsOpen => Intact(page)
  BY DEF StoreFits, TypeOK, FilesFit
<1>2. ContentsAfterCrash = Crashed(disk, page, kept)
  BY DEF ContentsAfterCrash, Crashed
<1>3. /\ Left = Scanned(disk, page, kept)
      /\ \A j \in ContentsAfterCrash : j \in Seq(Items) /\ TornLast(j) /\ ValidPrefix(j) \in Left
  <2>1. Left = Scanned(disk, page, kept)
    BY <1>1, <1>2, CrashedIsScanned DEF Left
  <2>2. \A j \in ContentsAfterCrash : j \in Seq(Items) /\ TornLast(j)
    BY <1>1, <1>2, CrashedIsScanned
  <2>. QED  BY <2>1, <2>2 DEF Left
<1>4. ValidPrefix(page) \in Left /\ Left \subseteq Seq(Items)
  <2>1. ValidPrefix(page) \in Left
    BY <1>1, <1>3, ScannedAfter
  <2>2. \A j \in ContentsAfterCrash : ValidPrefix(j) \in Seq(Items)
    BY <1>3, ScanStops
  <2>. QED  BY <2>1, <2>2 DEF Left
<1>5. Intact(page) => ValidPrefix(page) = page
  BY <1>1, ScanStops
<1>6. \A s \in Doubt : s \in States /\ s.seq \in Nat /\ confirmed.seq =< s.seq
  <2>1. confirmed \in States /\ inflight \subseteq States
    BY DEF StoreFits, TypeOK
  <2>. QED  BY <2>1, ItemTypes DEF Doubt, StoreFits, HistoryFits
<1>7. /\ Spared = Scanned(page, page, flushed) /\ flushed \in kept .. Len(page)
      /\ flushed \in 0 .. Len(page)
      /\ \A j \in JournalsAfterKill : j \in Seq(Items) /\ TornLast(j)
      /\ ValidPrefix(page) \in Spared
  <2>1. flushed \in kept .. Len(page) /\ flushed \in 0 .. Len(page)
    BY <1>1 DEF StoreFits, TypeOK
  <2>. QED  BY <1>1, <2>1, KilledIsScanned DEF Spared, JournalsAfterKill
<1>8. Spared \subseteq Left
  <2>1. \A k \in flushed .. Len(page) : k \in kept .. Len(page)
    <3>1. Len(page) \in Nat /\ kept \in Nat
      BY <1>1, Beginning
    <3>. QED  BY <1>7, <3>1
  <2>. QED  BY <1>3, <1>4, <1>7, <2>1 DEF Scanned
<1>. QED  BY <1>1, <1>3, <1>4, <1>5, <1>6, <1>7, <1>8

\* What open() reads is in doubt and what is left is not far ahead of it.
LEMMA OpensSoundly ==
    ASSUME StoreFits, NEW r \in Recoveries(page, ckptPage), Usable(r)
    PROVE  /\ Readable(page) /\ Readable(ValidPrefix(page))
           /\ r.journal = ValidPrefix(page)
           /\ r.state = Replayed(ValidPrefix(page), ckptPage)
           /\ r.ambiguous \in BOOLEAN /\ r.state \in Doubt /\ r.state \in States
<1>1. page \in Seq(Items) /\ TornLast(page) /\ ckptPage \in Checkpoints
  BY DEF StoreFits, TypeOK, FilesFit
<1>2. /\ Readable(page) /\ Readable(ValidPrefix(page)) /\ r.journal = ValidPrefix(page)
      /\ r.state = Replayed(ValidPrefix(page), ckptPage) /\ r.ambiguous \in BOOLEAN
  BY <1>1, UsableRecovery
<1>3. ckptPage \in CheckpointsAfterCrash
  BY DEF CheckpointsAfterCrash
<1>4. r.state \in Doubt
  BY <1>2, <1>3, StandsSo DEF StoreFits, RecordsFit, Accounted
<1>. QED  BY <1>2, <1>4, StandsSo

FilesTyped ==
    /\ disk \in Seq(Items) /\ page \in Seq(Items)
    /\ kept \in 0 .. Len(page) /\ flushed \in kept .. Len(page)

LEMMA TypesKept ==
    ASSUME ~ShortWrites, StoreFits, [Next]_vars  PROVE  TypeOK'
<1>. USE DEF TypeOK
<1>0. TypeOK
  BY DEF StoreFits
<1>1. \A e \in Items :
         /\ Write(e) => FilesTyped'
         /\ page' = Append(page, e) /\ flushed' = Len(page') /\ UNCHANGED <<disk, kept>>
            => FilesTyped'
  <2>1. \A e \in Items : Append(page, e) \in Seq(Items) /\ Len(Append(page, e)) = Len(page) + 1
                         /\ Len(page) \in Nat
    BY <1>0, Longer
  <2>2. \A n \in Nat : \A k \in 0 .. n : \A m \in k .. n :
           k \in 0 .. n + 1 /\ m \in k .. n + 1 /\ n + 1 \in k .. n + 1
    OBVIOUS
  <2>. QED  BY <1>0, <2>1, <2>2 DEF Write, FilesTyped
<1>2. \A n \in 0 .. Len(page) : Truncate(n) => FilesTyped'
  <2>1. SUFFICES ASSUME NEW n \in 0 .. Len(page), Truncate(n)  PROVE FilesTyped'
    OBVIOUS
  <2>2. SubSeq(page, 1, n) \in Seq(Items) /\ Len(SubSeq(page, 1, n)) = n /\ Len(page) \in Nat
    BY <1>0, Beginning
  <2>3. kept' \in 0 .. n /\ n \in kept' .. n
    BY <1>0, <2>1, <2>2 DEF Truncate
  <2>. QED  BY <1>0, <2>1, <2>2, <2>3 DEF Truncate, FilesTyped
<1>3. Sync => FilesTyped'
  <2>1. Len(page) \in Nat
    BY <1>0, Beginning
  <2>. QED  BY <1>0, <2>1 DEF Sync, FilesTyped
<1>4. NoFileOp => FilesTyped'
  BY <1>0 DEF NoFileOp, FilesTyped
<1>5. CanFail => failures' \in 0 .. MaxFailures
  BY <1>0, StoreAssumption DEF CanFail
<1>6. Initial \in States /\ Absent \in Checkpoints
  BY ItemTypes
<1>7. [present |-> TRUE, state |-> state_] \in Checkpoints
  BY <1>0 DEF Checkpoints
<1>8. Header \in Items /\ \A s \in States : Begin(s) \in Items /\ Commit(s) \in Items
                                            /\ CheckpointRecord(s) \in Items
  BY RecordTypes
<1>9. CASE Open
  <2>1. PICK r \in Recoveries(page, ckptPage) :
           /\ Usable(r) /\ state_' = r.state /\ ambiguous' = r.ambiguous
           /\ \/ Write(Header) /\ pc' = "opening"
              \/ Truncate(Len(r.journal)) /\ pc' = "opening"
              \/ NoFileOp /\ pc' = "open"
           /\ Established(r.state) \/ InDoubt(r.state)
    BY <1>9 DEF Open
  <2>2. /\ r.state \in States /\ r.ambiguous \in BOOLEAN /\ r.journal = ValidPrefix(page)
    BY <2>1, OpensSoundly
  <2>3. Len(ValidPrefix(page)) \in 0 .. Len(page)
    <3>1. TornLast(page)
      BY DEF StoreFits, FilesFit
    <3>2. Len(page) \in Nat /\ \A k \in 0 .. Len(page) : Len(SubSeq(page, 1, k)) = k
      BY <1>0, Beginning
    <3>3. ScanEnd(page) \in 0 .. Len(page)
      <4>1. \A n \in Nat : n \in 0 .. n /\ (n > 0 => n - 1 \in 0 .. n)
        OBVIOUS
      <4>. QED  BY <1>0, <3>1, <3>2, <4>1, ScanStops
    <3>. QED  BY <3>2, <3>3 DEF ValidPrefix
  <2>4. confirmed' \in States /\ inflight' \subseteq States
    BY <1>0, <2>1, <2>2 DEF Established, InDoubt
  <2>5. FilesTyped'
    BY <1>1, <1>2, <1>4, <1>8, <2>1, <2>2, <2>3
  <2>. QED  BY <1>0, <1>9, <2>1, <2>2, <2>4, <2>5 DEF Open, checkpoints, directory, FilesTyped
<1>10. CASE OpenRefused
  BY <1>0, <1>10 DEF OpenRefused, files, history
<1>11. CASE OpenSync
  BY <1>0, <1>3, <1>11 DEF OpenSync, checkpoints, directory, Established, InDoubt, FilesTyped
<1>12. CASE OpenFail
  BY <1>0, <1>5, <1>12 DEF OpenFail, files, history
<1>13. CASE Close
  <2>1. Len(page) \in kept .. Len(page)
    BY <1>0, Beginning
  <2>. QED  BY <1>0, <1>6, <1>13, <2>1 DEF Close, Forget, checkpoints, directory, history
<1>14. ASSUME NEW v \in Values, CommitBegin(v)  PROVE  TypeOK'
  <2>1. next' \in States
    <3>1. state_.seq \in Nat /\ MaxSequence \in Nat /\ state_.seq < MaxSequence
      BY <1>0, <1>14, ItemTypes, JournalAssumption DEF CommitBegin
    <3>2. state_.seq + 1 \in 1 .. MaxSequence
      BY <3>1
    <3>. QED  BY <1>14, <3>2 DEF CommitBegin, States, State
  <2>2. FilesTyped'
    BY <1>1, <1>8, <1>14, <2>1 DEF CommitBegin
  <2>. QED  BY <1>0, <1>14, <2>1, <2>2 DEF CommitBegin, checkpoints, directory, FilesTyped
<1>15. CASE CommitRecord
  BY <1>0, <1>1, <1>8, <1>15 DEF CommitRecord, checkpoints, directory, history, FilesTyped
<1>16. CASE CommitSync
  BY <1>0, <1>3, <1>16 DEF CommitSync, checkpoints, directory, Established, FilesTyped
<1>17. CASE Compact
  BY <1>0, <1>17 DEF Compact, files, history
<1>18. CASE ReplaceCheckpoint
  BY <1>0, <1>4, <1>7, <1>18 DEF ReplaceCheckpoint, history, FilesTyped
<1>19. CASE SyncDirectory
  BY <1>0, <1>4, <1>19 DEF SyncDirectory, history, FilesTyped
<1>20. CASE CompactTruncate
  <2>1. 0 \in 0 .. Len(page)
    BY <1>0, Beginning
  <2>. QED
    BY <1>0, <1>2, <1>20, <2>1 DEF CompactTruncate, checkpoints, directory, history, FilesTyped
<1>21. CASE CompactHeader
  BY <1>0, <1>1, <1>8, <1>21 DEF CompactHeader, checkpoints, directory, history, FilesTyped
<1>22. CASE CompactRecord
  BY <1>0, <1>1, <1>8, <1>22 DEF CompactRecord, checkpoints, directory, history, FilesTyped
<1>23. CASE CompactSync
  BY <1>0, <1>3, <1>23 DEF CompactSync, checkpoints, directory, history, FilesTyped
<1>24. CASE Fail
  BY <1>0, <1>4, <1>5, <1>6, <1>24 DEF Fail, checkpoints, directory, history, FilesTyped
<1>25. CASE Crash
  <2>1. PICK j \in ContentsAfterCrash, c \in CheckpointsAfterCrash : Leaves(j, c)
    BY <1>25 DEF Crash
  <2>2. j \in Seq(Items) /\ Len(j) \in 0 .. Len(j) /\ Len(j) \in Len(j) .. Len(j)
    BY <2>1, StandsSo, Beginning
  <2>3. ckptDisk' \in Checkpoints /\ ckptPage' \in Checkpoints
    BY <1>0, <2>1 DEF Leaves, CheckpointsAfterCrash
  <2>. QED  BY <1>0, <1>6, <1>25, <2>1, <2>2, <2>3 DEF Crash, Leaves, Forget, history
<1>26. CASE UNCHANGED vars
  BY <1>0, <1>26 DEF vars
<1>27. CASE Kill
  <2>1. PICK k \in flushed .. Len(page) : \E j \in Keeps(page, k) : page' = j /\ flushed' = Len(j)
    BY <1>27 DEF Kill, JournalsAfterKill
  <2>2. k \in kept .. Len(page) /\ disk \in Seq(Items) /\ TornLast(page) /\ page' \in Keeps(page, k)
    <3>1. Len(page) \in Nat
      BY <1>0, Beginning
    <3>. QED  BY <1>0, <2>1, <3>1 DEF StoreFits, FilesFit
  <2>3. page' \in Seq(Items) /\ kept \in 0 .. Len(page')
    BY <1>0, <2>2, ShorterIsScanned
  <2>4. flushed' \in kept .. Len(page')
    <3>1. flushed' = Len(page') /\ Len(page') \in Nat
      BY <2>1, <2>3, Beginning
    <3>. QED  BY <2>3, <3>1
  <2>. QED
    BY <1>0, <1>5, <1>6, <1>27, <2>3, <2>4 DEF Kill, Forget, checkpoints, directory, history
<1>28. CASE CrashLosesJournal
  <2>1. PICK c \in CheckpointsAfterCrash : Leaves(<< >>, c) /\ Established(c.state)
    BY <1>28 DEF CrashLosesJournal
  <2>2. << >> \in Seq(Items) /\ Len(<< >>) = 0 /\ 0 \in 0 .. 0
    OBVIOUS
  <2>3. c \in Checkpoints /\ c.state \in States
    BY <1>0, ItemTypes DEF CheckpointsAfterCrash
  <2>. QED  BY <1>0, <1>6, <1>28, <2>1, <2>2, <2>3
            DEF CrashLosesJournal, Leaves, Established, Forget
<1>. HIDE DEF TypeOK
<1>. QED
  BY <1>9, <1>10, <1>11, <1>12, <1>13, <1>14, <1>15, <1>16, <1>17, <1>18, <1>19, <1>20,
     <1>21, <1>22, <1>23, <1>24, <1>25, <1>26, <1>27, <1>28 DEF Next

LEMMA LeftAfter ==
    ASSUME TypeOK', FilesFit'
    PROVE  /\ Left' = Scanned(disk', page', kept')
           /\ Spared' = Scanned(page', page', flushed')
           /\ flushed' = Len(page') => Spared' = {ValidPrefix(page')}
<1>1. /\ disk' \in Seq(Items) /\ page' \in Seq(Items) /\ kept' \in 0 .. Len(page')
      /\ TornLast(disk') /\ TornLast(page')
  BY DEF TypeOK, FilesFit
<1>2. ContentsAfterCrash' = Crashed(disk', page', kept')
  BY DEF ContentsAfterCrash, Crashed
<1>3. Left' = Scanned(disk', page', kept')
  BY <1>1, <1>2, CrashedIsScanned DEF Left
<1>4. Spared' = Scanned(page', page', flushed') /\ flushed' \in 0 .. Len(page')
  <2>1. flushed' \in 0 .. Len(page')
    BY <1>1 DEF TypeOK
  <2>. QED  BY <1>1, <2>1, KilledIsScanned DEF Spared, JournalsAfterKill
<1>5. flushed' = Len(page') => Spared' = {ValidPrefix(page')}
  BY <1>1, <1>4, ScannedAfter
<1>. QED  BY <1>3, <1>4, <1>5

LEMMA BelowMore ==
    ASSUME NEW p \in Seq(Items), NEW m \in Nat, NEW n \in Nat, m =< n, Below(p, m)
    PROVE  Below(p, n)
<1>1. \A i \in DOMAIN p : p[i].seq \in Nat
  <2>1. \A i \in DOMAIN p : p[i] \in Items
    BY Beginning DEF Positions
  <2>. QED  BY <2>1, ItemTypes
<1>. QED  BY <1>1 DEF Below

\* A store that stops, or whose open() fails, can be recovered as it stands.
LEMMA ClosesSoundly ==
    ASSUME StoreFits, IsOpen, NEW p \in Spared  PROVE  Recoverable(p)
<1>. SUFFICES ASSUME Readable(p)
     PROVE  /\ \A q \in Left : Readable(q) => Below(q, Replayed(p, ckptPage).seq)
            /\ \A c \in CheckpointsAfterCrash : Replayed(p, ckptPage).seq =< Replayed(p, c).seq
  BY DEF Recoverable
<1>0. /\ p \in Seq(Items) /\ ckptPage \in Checkpoints /\ ckptDisk \in Checkpoints
      /\ state_ \in States /\ ckptDisk.state.seq =< ckptPage.state.seq
      /\ ckptDisk.present => ckptPage.present
  BY StandsSo DEF StoreFits, TypeOK, FilesFit
<1>1. p \in Left /\ Left \subseteq Seq(Items)
  BY StandsSo
<1>2. InOrder(p) /\ Paired(p)
  BY <1>1 DEF StoreFits, RecordsFit, Accounted
<1>3. \A c \in {ckptDisk, ckptPage} : Replayed(p, c).seq \in Nat
  BY <1>0, <1>2, ReplayMovesOn
<1>4. /\ \A c \in {ckptDisk, ckptPage} : state_.seq =< Replayed(p, c).seq
      /\ ckptPage.state.seq =< state_.seq
      /\ \A q \in Left : Readable(q) => Below(q, state_.seq)
  BY DEF StoreFits, StateFits, CheckpointsAfterCrash
<1>5. state_.seq \in Nat /\ ckptPage.state.seq \in Nat
  BY <1>0, ItemTypes
<1>6. \A q \in Left : Readable(q) => Below(q, Replayed(p, ckptPage).seq)
  BY <1>1, <1>3, <1>4, <1>5, BelowMore
<1>7. Replayed(p, ckptPage).seq =< Replayed(p, ckptDisk).seq
  <2>1. CASE ckptPage.present
    <3>1. \/ Replayed(p, ckptPage) = ckptPage.state
          \/ Replayed(p, ckptPage) = Replayed(p, ckptDisk)
      BY <1>0, <1>2, <2>1, ReplayFromNewer
    <3>. QED  BY <1>3, <1>4, <1>5, <3>1
  <2>2. CASE ~ckptPage.present
    <3>1. ckptPage = ckptDisk
      BY <1>0, <2>2, ItemTypes
    <3>. QED  BY <1>3, <3>1
  <2>. QED  BY <2>1, <2>2
<1>. QED  BY <1>3, <1>6, <1>7 DEF CheckpointsAfterCrash

\* A step that opens nothing and leaves nothing new to a kill or a crash.
LEMMA LessKeeps ==
    ASSUME StoreFits, TypeOK', FilesFit', PlaceFits', UNCHANGED <<checkpoints, history>>,
           Left' \subseteq Left, Spared' \subseteq Spared,
           IsOpen' => IsOpen /\ UNCHANGED state_
    PROVE  StoreFits'
<1>1. CheckpointsAfterCrash' = CheckpointsAfterCrash /\ Doubt' = Doubt /\ ckptPage' = ckptPage
  BY DEF CheckpointsAfterCrash, Doubt, checkpoints, directory, history
<1>2. RecordsFit'
  BY <1>1 DEF StoreFits, RecordsFit
<1>3. HistoryFits'
  BY DEF StoreFits, HistoryFits, history
<1>4. StateFits'
  BY <1>1 DEF StoreFits, StateFits
<1>5. \A p \in Spared : ~IsOpen' => Recoverable(p)
  BY ClosesSoundly DEF StoreFits, RecoveryFits
<1>6. RecoveryFits'
  <2>1. \A p \in Spared' : Recoverable(p) => Recoverable(p)'
    BY <1>1 DEF Recoverable
  <2>. QED  BY <1>5, <2>1 DEF RecoveryFits
<1>. QED  BY <1>2, <1>3, <1>4, <1>6 DEF StoreFits

\* A step that touches neither the files nor the history and opens nothing.
LEMMA IdleKeeps ==
    ASSUME StoreFits, TypeOK', UNCHANGED <<disk, page, kept, checkpoints, history>>,
           flushed' \in {flushed, Len(page)},
           IsOpen' => IsOpen /\ UNCHANGED state_, PlaceFits'
    PROVE  StoreFits'
<1>1. FilesFit'
  BY DEF StoreFits, FilesFit, checkpoints
<1>2. Left' = Left
  BY DEF Left, ContentsAfterCrash
<1>3. Spared' \subseteq Spared
  <2>1. CASE flushed' = flushed
    BY <2>1 DEF Spared, JournalsAfterKill
  <2>2. CASE flushed' = Len(page)
    BY <1>1, <2>2, LeftAfter, StandsSo
  <2>. QED  BY <2>1, <2>2
<1>. QED  BY <1>1, <1>2, <1>3, LessKeeps

\* What an append leaves behind.
LEMMA WriteLeaves ==
    ASSUME StoreFits, TypeOK', Intact(page), UNCHANGED checkpoints,
           NEW e \in Items, e.type # "torn", page' = Append(page, e),
           UNCHANGED <<disk, kept>>, flushed' \in {flushed, Len(page')}
    PROVE  /\ FilesFit' /\ Left' \subseteq Left \cup {page'}
           /\ Spared' \subseteq Spared \cup {page'}
           /\ CheckpointsAfterCrash' = CheckpointsAfterCrash /\ page \in Left
<1>0. /\ disk \in Seq(Items) /\ page \in Seq(Items) /\ kept \in 0 .. Len(page)
      /\ page' = Append(page, e) /\ disk' = disk /\ kept' = kept
      /\ ckptDisk' = ckptDisk /\ ckptPage' = ckptPage
  BY DEF StoreFits, TypeOK, checkpoints
<1>1. /\ Intact(page') /\ page' \in Seq(Items)
      /\ Scanned(disk', page', kept') \subseteq Scanned(disk, page, kept) \cup {page'}
  BY <1>0, ScannedAfter
<1>2. FilesFit'
  <2>1. TornLast(page')
    BY <1>1 DEF TornLast, Intact
  <2>. QED  BY <1>0, <1>1, <2>1 DEF StoreFits, FilesFit
<1>3. Left' = Scanned(disk', page', kept') /\ Left = Scanned(disk, page, kept)
  BY <1>2, LeftAfter, StandsSo
<1>4. ValidPrefix(page') = page'
  <2>1. TornLast(page')
    BY <1>1 DEF TornLast, Intact
  <2>. QED  BY <1>1, <2>1, ScanStops
<1>5. Spared' \subseteq Spared \cup {page'}
  <2>1. CASE flushed' = flushed
    <3>1. flushed \in 0 .. Len(page)
      BY StandsSo
    <3>2. Spared' = Scanned(page', page', flushed) /\ Spared = Scanned(page, page, flushed)
      BY <1>2, <2>1, LeftAfter, StandsSo
    <3>3. Scanned(page, page', flushed) \subseteq Scanned(page, page, flushed) \cup {page'}
      BY <1>0, <3>1, ScannedAfter
    <3>. QED  BY <1>4, <3>2, <3>3 DEF Scanned
  <2>2. CASE flushed' = Len(page')
    BY <1>2, <1>4, <2>2, LeftAfter
  <2>. QED  BY <2>1, <2>2
<1>. QED  BY <1>0, <1>1, <1>2, <1>3, <1>5, StandsSo DEF CheckpointsAfterCrash

\* What a sync leaves behind.
LEMMA SyncLeaves ==
    ASSUME StoreFits, TypeOK', IsOpen, UNCHANGED checkpoints, Sync
    PROVE  /\ FilesFit' /\ page' = page /\ Left' = {page} /\ page \in Left
           /\ Spared' = {page} /\ page \in Spared
           /\ CheckpointsAfterCrash' = CheckpointsAfterCrash
<1>0. /\ page \in Seq(Items) /\ Intact(page) /\ ValidPrefix(page) = page /\ page \in Left
      /\ page' = page /\ disk' = page /\ kept' = Len(page) /\ Len(page) \in 0 .. Len(page)
      /\ flushed' = Len(page') /\ page \in Spared
      /\ ckptDisk' = ckptDisk /\ ckptPage' = ckptPage
  <2>1. page \in Seq(Items)
    BY DEF StoreFits, TypeOK
  <2>. QED  BY <2>1, StandsSo, Beginning DEF Sync, checkpoints
<1>1. FilesFit'
  <2>1. TornLast(page)
    BY <1>0 DEF TornLast, Intact
  <2>. QED  BY <1>0, <2>1 DEF StoreFits, FilesFit
<1>2. Left' = {page} /\ Spared' = {page}
  BY <1>0, <1>1, LeftAfter, ScannedAfter
<1>. QED  BY <1>0, <1>1, <1>2 DEF CheckpointsAfterCrash

\* A record no older than the rest, and a Commit only behind its Begin.
LEMMA AppendKeepsOrder ==
    ASSUME NEW p \in Seq(Items), NEW e \in Items, NEW n \in Nat,
           InOrder(p), Paired(p), Below(p, n), p # << >>,
           \A i \in DOMAIN p : p[i].seq =< e.seq,
           e.type = "commit" => p[Len(p)].type = "begin" /\ p[Len(p)].seq = e.seq
    PROVE  /\ InOrder(Append(p, e)) /\ Paired(Append(p, e))
           /\ e.seq =< n + 1 => Below(Append(p, e), n)
           /\ Readable(Append(p, e)) <=> Readable(p)
<1>. DEFINE q == Append(p, e)
<1>0. /\ q \in Seq(Items) /\ Len(q) = Len(p) + 1 /\ DOMAIN q = 1 .. Len(p) + 1
      /\ q[Len(p) + 1] = e /\ Len(p) \in Nat /\ Len(p) > 0 /\ DOMAIN p = 1 .. Len(p)
      /\ \A i \in 1 .. Len(p) : q[i] = p[i]
  BY Longer, EmptySeq, Beginning DEF Positions
<1>. HIDE DEF q
<1>1. \A i \in DOMAIN q : (i = Len(p) + 1 /\ q[i] = e) \/ (i \in DOMAIN p /\ q[i] = p[i])
  <2>1. \A n_1 \in Nat : \A i \in 1 .. n_1 + 1 : i = n_1 + 1 \/ i \in 1 .. n_1
    OBVIOUS
  <2>. QED  BY <1>0, <2>1
<1>2. \A i, k \in DOMAIN q : i =< k => q[i].seq =< q[k].seq
  <2>1. \A i \in DOMAIN p : ~(Len(p) + 1 =< i)
    BY <1>0
  <2>2. e.seq =< e.seq
    BY ItemTypes
  <2>. QED  BY <1>1, <2>1, <2>2 DEF InOrder
<1>3. \A i \in 2 .. Len(q) :
         q[i].type = "commit" => q[i - 1].type = "begin" /\ q[i - 1].seq = q[i].seq
  <2>1. \A m \in Nat : m > 0 =>
           \A i \in 2 .. m + 1 : \/ i = m + 1 /\ i - 1 = m /\ i - 1 \in 1 .. m
                                 \/ i \in 2 .. m /\ i - 1 \in 1 .. m /\ i \in 1 .. m
    OBVIOUS
  <2>2. ASSUME NEW i \in 2 .. Len(q), q[i].type = "commit"
        PROVE  q[i - 1].type = "begin" /\ q[i - 1].seq = q[i].seq
    <3>1. CASE i = Len(p) + 1 /\ i - 1 = Len(p) /\ i - 1 \in 1 .. Len(p)
      BY <1>0, <2>2, <3>1
    <3>2. CASE i \in 2 .. Len(p) /\ i - 1 \in 1 .. Len(p) /\ i \in 1 .. Len(p)
      BY <1>0, <2>2, <3>2 DEF Paired
    <3>. QED  BY <1>0, <2>1, <3>1, <3>2
  <2>. QED  BY <2>2
<1>4. e.seq =< n + 1 => Below(q, n)
  BY <1>1 DEF Below
<1>5. Readable(q) <=> Readable(p)
  <2>1. q[1] = p[1] /\ q # << >>
    BY <1>0
  <2>. QED  BY <2>1 DEF Readable
<1>. QED  BY <1>2, <1>3, <1>4, <1>5 DEF q, InOrder, Paired

LEMMA CommitBeginKeeps ==
    ASSUME StoreFits, TypeOK', NEW v \in Values, CommitBegin(v)  PROVE  StoreFits'
<1>0. /\ IsOpen /\ page \in Seq(Items) /\ state_ \in States /\ state_.seq \in Nat
      /\ ckptDisk \in Checkpoints /\ ckptPage \in Checkpoints /\ Intact(page)
      /\ next' = State(state_.seq + 1, v) /\ next' \in States /\ next'.seq = state_.seq + 1
      /\ next'.val = v /\ state_' = state_ /\ pc' = "begun" /\ IsOpen'
      /\ confirmed' = confirmed /\ inflight' = inflight \cup {next'}
  <2>1. next' \in States
    BY DEF TypeOK
  <2>. QED  BY <2>1, ItemTypes, StandsSo DEF CommitBegin, StoreFits, TypeOK, IsOpen, State
<1>. DEFINE e == Begin(next')
<1>1. e \in Items /\ e.type = "begin" /\ e.seq = state_.seq + 1
  BY <1>0, RecordTypes
<1>2. /\ FilesFit' /\ page' = Append(page, e) /\ Left' \subseteq Left \cup {page'}
      /\ Spared' \subseteq Spared \cup {page'} /\ page \in Spared
      /\ CheckpointsAfterCrash' = CheckpointsAfterCrash /\ page \in Left
  BY <1>0, <1>1, WriteLeaves, StandsSo DEF CommitBegin, Write, directory
<1>. HIDE DEF e
<1>3. Doubt \subseteq Doubt' /\ Left \subseteq Seq(Items)
  BY <1>0, StandsSo DEF Doubt
<1>4. /\ state_ \in Doubt /\ ckptPage.state.seq =< state_.seq
      /\ \A p \in Left : Readable(p) => Below(p, state_.seq)
      /\ \A p \in Spared : Readable(p) =>
            \A c \in CheckpointsAfterCrash : state_.seq =< Replayed(p, c).seq
  BY <1>0 DEF StoreFits, StateFits
<1>5. Readable(page') => /\ page # << >> /\ Readable(page)
                         /\ InOrder(page') /\ Paired(page') /\ Below(page', state_.seq)
                         /\ \A c \in CheckpointsAfterCrash :
                               Replayed(page', c) = Replayed(page, c)
  <2>1. SUFFICES ASSUME Readable(page')
        PROVE  /\ page # << >> /\ Readable(page)
               /\ InOrder(page') /\ Paired(page') /\ Below(page', state_.seq)
               /\ \A c \in CheckpointsAfterCrash : Replayed(page', c) = Replayed(page, c)
    OBVIOUS
  <2>2. page # << >>
    <3>1. Append(<< >>, e)[1] = e /\ Append(<< >>, e) # << >>
      OBVIOUS
    <3>. QED  BY <1>1, <1>2, <2>1, <3>1, RecordTypes DEF Readable
  <2>3. Readable(page)
    <3>1. page'[1] = page[1] /\ page' # << >>
      BY <1>0, <1>1, <1>2, <2>2, Longer, EmptySeq
    <3>. QED  BY <2>1, <3>1 DEF Readable
  <2>4. InOrder(page) /\ Paired(page) /\ Below(page, state_.seq)
    BY <1>2, <1>4, <2>3 DEF StoreFits, RecordsFit, Accounted
  <2>5. \A i \in DOMAIN page : page[i].seq =< e.seq
    BY <1>1, <2>4 DEF Below
  <2>6. state_.seq + 1 =< state_.seq + 1
    BY <1>0
  <2>7. InOrder(page') /\ Paired(page') /\ Below(page', state_.seq)
    BY <1>0, <1>1, <1>2, <2>2, <2>4, <2>5, <2>6, AppendKeepsOrder
  <2>8. \A c \in CheckpointsAfterCrash : Replayed(page', c) = Replayed(page, c)
    BY <1>0, <1>1, <1>2, <2>2, <2>3, <2>4, <2>7, ReplayStands DEF CheckpointsAfterCrash
  <2>. QED  BY <2>2, <2>3, <2>7, <2>8
<1>6. \A c \in CheckpointsAfterCrash : Readable(page) =>
         /\ Replayed(page, c) \in Doubt /\ Replayed(page, c).seq \in Nat
  BY <1>2, StandsSo DEF StoreFits, RecordsFit, Accounted
<1>7. page' \in Seq(Items)
  BY DEF TypeOK
<1>8. Accounted(page', CheckpointsAfterCrash, Doubt')
  <2>1. ASSUME Readable(page'), NEW c \in CheckpointsAfterCrash
        PROVE  Replayed(page', c) \in Doubt' /\ Below(page', Replayed(page', c).seq)
    <3>1. /\ Replayed(page', c) = Replayed(page, c) /\ Below(page', state_.seq)
          /\ Replayed(page, c).seq \in Nat /\ state_.seq =< Replayed(page, c).seq
      BY <1>2, <1>4, <1>5, <1>6, <2>1
    <3>. QED  BY <1>0, <1>3, <1>5, <1>6, <1>7, <2>1, <3>1, BelowMore
  <2>. QED  BY <1>5, <2>1 DEF Accounted
<1>9. RecordsFit'
  BY <1>2, <1>3, <1>8 DEF StoreFits, RecordsFit, Accounted
<1>10. HistoryFits'
  <2>1. confirmed.seq =< state_.seq /\ confirmed.seq \in Nat
    BY <1>4, StandsSo DEF Doubt
  <2>2. confirmed.seq =< next'.seq
    BY <1>0, <2>1
  <2>. QED  BY <1>0, <2>2 DEF StoreFits, HistoryFits
<1>11. StateFits'
  <2>1. ckptPage' = ckptPage
    BY DEF CommitBegin, checkpoints, directory
  <2>2. \A p \in Left' : Readable(p) => Below(p, state_.seq)
    BY <1>2, <1>4, <1>5
  <2>3. \A p \in Spared' : Readable(p) =>
           \A c \in CheckpointsAfterCrash : state_.seq =< Replayed(p, c).seq
    BY <1>2, <1>4, <1>5
  <2>. QED  BY <1>0, <1>2, <1>3, <1>4, <2>1, <2>2, <2>3 DEF StateFits
<1>12. PlaceFits'
  <2>1. page' # << >> /\ page'[Len(page')] = e
    BY <1>0, <1>1, <1>2, Longer, EmptySeq
  <2>. QED  BY <1>0, <2>1 DEF PlaceFits, e
<1>. QED  BY <1>0, <1>2, <1>9, <1>10, <1>11, <1>12 DEF StoreFits, RecoveryFits

\* What commit() knows once it has written its Begin.
LEMMA CommitStands ==
    ASSUME StoreFits, pc \in {"begun", "committed"}
    PROVE  /\ IsOpen /\ page \in Seq(Items) /\ Intact(page) /\ page \in Left
           /\ state_ \in States /\ state_.seq \in Nat /\ state_ \in Doubt
           /\ ckptDisk \in Checkpoints /\ ckptPage \in Checkpoints
           /\ next \in States /\ next.seq = state_.seq + 1 /\ next.seq \in Nat
           /\ next \in inflight /\ confirmed.seq =< next.seq
           /\ \A c \in CheckpointsAfterCrash :
                 c \in Checkpoints /\ c.state.seq \in Nat /\ c.state.seq =< state_.seq
                 /\ c.state.seq < next.seq
           /\ \A p \in Left : Readable(p) => Below(p, state_.seq)
           /\ \A p \in Spared : Readable(p) =>
                 \A c \in CheckpointsAfterCrash : state_.seq =< Replayed(p, c).seq
           /\ Readable(page) => InOrder(page) /\ Paired(page)
<1>1. /\ IsOpen /\ page \in Seq(Items) /\ Intact(page) /\ page \in Left
      /\ state_ \in States /\ ckptDisk \in Checkpoints /\ ckptPage \in Checkpoints
      /\ next \in States /\ next \in inflight /\ next = State(state_.seq + 1, next.val)
      /\ ckptDisk.state.seq =< ckptPage.state.seq
  <2>1. IsOpen
    BY DEF IsOpen
  <2>. QED  BY <2>1, StandsSo DEF StoreFits, TypeOK, FilesFit, PlaceFits
<1>2. /\ state_ \in Doubt /\ ckptPage.state.seq =< state_.seq
      /\ \A p \in Left : Readable(p) => Below(p, state_.seq)
      /\ \A p \in Spared : Readable(p) =>
            \A c \in CheckpointsAfterCrash : state_.seq =< Replayed(p, c).seq
  BY <1>1 DEF StoreFits, StateFits
<1>3. state_.seq \in Nat /\ next.seq = state_.seq + 1 /\ next.seq \in Nat
  BY <1>1, ItemTypes DEF State
<1>4. ckptDisk.state.seq \in Nat /\ ckptPage.state.seq \in Nat
  BY <1>1, ItemTypes
<1>5. confirmed.seq =< next.seq
  BY <1>1, StandsSo DEF Doubt
<1>6. Readable(page) => InOrder(page) /\ Paired(page)
  BY <1>1 DEF StoreFits, RecordsFit, Accounted
<1>7. \A c \in CheckpointsAfterCrash :
         c \in Checkpoints /\ c.state.seq \in Nat /\ c.state.seq =< state_.seq
         /\ c.state.seq < next.seq
  BY <1>1, <1>2, <1>3, <1>4 DEF CheckpointsAfterCrash
<1>. QED  BY <1>1, <1>2, <1>3, <1>5, <1>6, <1>7

LEMMA CommitRecordKeeps ==
    ASSUME StoreFits, TypeOK', CommitRecord  PROVE  StoreFits'
<1>0. /\ pc = "begun" /\ page # << >> /\ page[Len(page)] = Begin(next)
      /\ next' = next /\ state_' = state_ /\ pc' = "committed" /\ IsOpen'
      /\ confirmed' = confirmed /\ inflight' = inflight /\ ckptPage' = ckptPage
  BY DEF CommitRecord, StoreFits, PlaceFits, IsOpen, history, checkpoints, directory
<1>. DEFINE e == Commit(next)
<1>1. /\ e \in Items /\ e.type = "commit" /\ e.seq = next.seq
      /\ Begin(next).type = "begin" /\ Begin(next).seq = next.seq
  BY <1>0, CommitStands, RecordTypes
<1>2. /\ FilesFit' /\ page' = Append(page, e) /\ Left' \subseteq Left \cup {page'}
      /\ Spared' \subseteq Spared \cup {page'}
      /\ CheckpointsAfterCrash' = CheckpointsAfterCrash
  BY <1>0, <1>1, CommitStands, WriteLeaves DEF CommitRecord, Write, directory
<1>3. /\ page' \in Seq(Items) /\ Len(page') > 1 /\ page'[Len(page')] = Commit(next)
      /\ page'[Len(page') - 1] = Begin(next)
  <2>1. Len(page) \in Nat /\ Len(page) > 0 /\ page \in Seq(Items)
    BY <1>0, CommitStands, EmptySeq, Beginning
  <2>2. \A n \in Nat : n > 0 => n + 1 > 1 /\ n + 1 - 1 = n /\ n \in 1 .. n
    OBVIOUS
  <2>. QED  BY <1>0, <1>1, <1>2, <2>1, <2>2, Longer
<1>. HIDE DEF e
<1>4. Readable(page') =>
         /\ InOrder(page') /\ Paired(page') /\ Below(page', state_.seq)
         /\ \A c \in CheckpointsAfterCrash : Replayed(page', c) = next
  <2>1. SUFFICES ASSUME Readable(page')
        PROVE  /\ InOrder(page') /\ Paired(page') /\ Below(page', state_.seq)
               /\ \A c \in CheckpointsAfterCrash : Replayed(page', c) = next
    OBVIOUS
  <2>2. page' # << >> /\ page'[1] = page[1]
    BY <1>0, <1>1, <1>2, CommitStands, Longer, EmptySeq
  <2>3. Readable(page)
    BY <2>1, <2>2 DEF Readable
  <2>4. InOrder(page) /\ Paired(page) /\ Below(page, state_.seq) /\ page \in Seq(Items)
    BY <1>0, <2>3, CommitStands
  <2>5. \A i \in DOMAIN page : page[i].seq =< e.seq
    BY <1>0, <1>1, <2>4, CommitStands DEF Below
  <2>6. e.seq =< state_.seq + 1 /\ state_.seq \in Nat
    BY <1>0, <1>1, CommitStands
  <2>7. InOrder(page') /\ Paired(page') /\ Below(page', state_.seq)
    BY <1>0, <1>1, <1>2, <2>4, <2>5, <2>6, AppendKeepsOrder
  <2>8. \A c \in CheckpointsAfterCrash : Replayed(page', c) = next
    BY <1>0, <1>3, <2>1, <2>7, CommitStands, ReplayCommits
  <2>. QED  BY <2>7, <2>8
<1>5. Accounted(page', CheckpointsAfterCrash, Doubt')
  <2>1. Readable(page') => Below(page', next.seq)
    BY <1>0, <1>3, <1>4, CommitStands, BelowMore
  <2>. QED  BY <1>0, <1>4, <2>1, CommitStands DEF Accounted, Doubt
<1>6. RecordsFit'
  BY <1>0, <1>2, <1>5 DEF StoreFits, RecordsFit, Doubt
<1>7. HistoryFits'
  BY <1>0 DEF StoreFits, HistoryFits
<1>8. StateFits'
  <2>1. \A p \in Left' : Readable(p) => Below(p, state_.seq)
    BY <1>0, <1>2, <1>4, CommitStands
  <2>2. state_ \in Doubt' /\ ckptPage.state.seq =< state_.seq /\ state_.seq =< next.seq
    BY <1>0, CommitStands DEF Doubt, CheckpointsAfterCrash
  <2>3. \A p \in Spared' : Readable(p) =>
           \A c \in CheckpointsAfterCrash : state_.seq =< Replayed(p, c).seq
    BY <1>0, <1>2, <1>4, <2>2, CommitStands
  <2>. QED  BY <1>0, <1>2, <2>1, <2>2, <2>3 DEF StateFits
<1>9. PlaceFits'
  BY <1>0, <1>3 DEF PlaceFits, StoreFits
<1>. QED  BY <1>0, <1>2, <1>6, <1>7, <1>8, <1>9 DEF StoreFits, RecoveryFits

LEMMA CommitSyncKeeps ==
    ASSUME StoreFits, TypeOK', CommitSync  PROVE  StoreFits'
<1>0. /\ pc = "committed" /\ IsOpen /\ IsOpen' /\ pc' \in {"compacting", "open"}
      /\ Len(page) > 1 /\ page[Len(page)] = Commit(next) /\ page[Len(page) - 1] = Begin(next)
      /\ state_' = next /\ confirmed' = next /\ inflight' = {} /\ ckptPage' = ckptPage
  BY DEF CommitSync, StoreFits, PlaceFits, IsOpen, Established, checkpoints, directory
<1>1. /\ FilesFit' /\ page' = page /\ Left' = {page} /\ Spared' = {page}
      /\ CheckpointsAfterCrash' = CheckpointsAfterCrash
  BY <1>0, SyncLeaves DEF CommitSync, directory
<1>2. Readable(page) =>
         /\ InOrder(page) /\ Paired(page) /\ Below(page, next.seq)
         /\ \A c \in CheckpointsAfterCrash : Replayed(page, c) = next
  <2>1. Readable(page) => \A c \in CheckpointsAfterCrash : Replayed(page, c) = next
    BY <1>0, CommitStands, ReplayCommits
  <2>2. state_.seq \in Nat /\ next.seq \in Nat /\ state_.seq =< next.seq
    BY <1>0, CommitStands
  <2>. QED  BY <1>0, <2>1, <2>2, CommitStands, BelowMore
<1>3. RecordsFit'
  BY <1>0, <1>1, <1>2 DEF RecordsFit, Accounted, Doubt
<1>4. HistoryFits'
  BY <1>0 DEF HistoryFits
<1>5. StateFits'
  <2>1. next \in Doubt' /\ ckptPage.state.seq =< next.seq /\ next.seq =< next.seq
    BY <1>0, CommitStands DEF Doubt, CheckpointsAfterCrash
  <2>. QED  BY <1>0, <1>1, <1>2, <2>1 DEF StateFits
<1>6. PlaceFits'
  BY <1>0 DEF PlaceFits
<1>. QED  BY <1>0, <1>1, <1>3, <1>4, <1>5, <1>6 DEF StoreFits, RecoveryFits

LEMMA ReplaceCheckpointKeeps ==
    ASSUME StoreFits, TypeOK', ReplaceCheckpoint  PROVE  StoreFits'
<1>0. /\ IsOpen /\ IsOpen' /\ pc' = "replaced" /\ ckptPage' = Written /\ ckptDisk' = ckptDisk
      /\ disk' = disk /\ page' = page /\ kept' = kept /\ state_' = state_
      /\ confirmed' = confirmed /\ inflight' = inflight
  BY DEF ReplaceCheckpoint, NoFileOp, IsOpen, Written, history
<1>1. /\ state_ \in States /\ ckptDisk \in Checkpoints /\ ckptPage \in Checkpoints
      /\ Written \in Checkpoints /\ page \in Seq(Items) /\ Intact(page) /\ page \in Left
      /\ Left \subseteq Seq(Items)
      /\ ckptDisk.state.seq =< ckptPage.state.seq /\ ckptDisk.state.seq \in Nat
      /\ ckptPage.state.seq \in Nat /\ state_.seq \in Nat
      /\ Written.present /\ Written.state = state_
  <2>1. Written \in Checkpoints /\ Written.present /\ Written.state = state_
    BY DEF StoreFits, TypeOK, Checkpoints, Written
  <2>. QED  BY <1>0, <2>1, ItemTypes, StandsSo DEF StoreFits, TypeOK, FilesFit
<1>2. /\ state_ \in Doubt /\ ckptPage.state.seq =< state_.seq
      /\ \A p \in Left : Readable(p) => Below(p, state_.seq)
      /\ \A p \in Spared : Readable(p) =>
            \A c \in CheckpointsAfterCrash : state_.seq =< Replayed(p, c).seq
  BY <1>0 DEF StoreFits, StateFits
<1>3. /\ Left' = Left /\ Doubt' = Doubt /\ CheckpointsAfterCrash' = {ckptDisk, Written}
      /\ {ckptDisk, ckptPage} = CheckpointsAfterCrash
      /\ Spared' = Spared /\ Spared \subseteq Left
  <2>1. flushed' = flushed
    BY DEF ReplaceCheckpoint, NoFileOp
  <2>2. Spared' = Spared
    BY <1>0, <2>1 DEF Spared, JournalsAfterKill
  <2>. QED
    BY <1>0, <2>2, StandsSo DEF Left, ContentsAfterCrash, Doubt, CheckpointsAfterCrash
<1>4. FilesFit'
  BY <1>0, <1>1, <1>2 DEF StoreFits, FilesFit
<1>5. ASSUME NEW p \in Left, Readable(p)
      PROVE  /\ InOrder(p) /\ Paired(p)
             /\ Replayed(p, Written) \in Doubt /\ Below(p, Replayed(p, Written).seq)
  <2>1. /\ InOrder(p) /\ Paired(p) /\ Replayed(p, ckptPage) \in Doubt
        /\ Below(p, Replayed(p, ckptPage).seq) /\ p \in Seq(Items)
    BY <1>1, <1>3, <1>5 DEF StoreFits, RecordsFit, Accounted
  <2>2. Replayed(p, Written) = state_ \/ Replayed(p, Written) = Replayed(p, ckptPage)
    BY <1>1, <1>2, <1>5, <2>1, ReplayFromNewer
  <2>. QED  BY <1>2, <1>5, <2>1, <2>2
<1>6. RecordsFit'
  BY <1>3, <1>5 DEF StoreFits, RecordsFit, Accounted
<1>7. HistoryFits'
  BY <1>0 DEF StoreFits, HistoryFits
<1>8. StateFits'
  <2>1. \A p \in Spared : Readable(p) => state_.seq =< Replayed(p, Written).seq
    BY <1>1, <1>3, <1>5, ReplayMovesOn
  <2>2. state_.seq =< state_.seq
    BY <1>1
  <2>3. \A p \in Spared' : Readable(p) =>
           \A c \in {ckptDisk, Written} : state_.seq =< Replayed(p, c).seq
    BY <1>2, <1>3, <2>1
  <2>. QED  BY <1>0, <1>1, <1>2, <1>3, <2>2, <2>3 DEF StateFits
<1>9. PlaceFits'
  BY <1>0 DEF PlaceFits, Written
<1>. QED  BY <1>0, <1>4, <1>6, <1>7, <1>8, <1>9 DEF StoreFits, RecoveryFits

LEMMA SyncDirectoryKeeps ==
    ASSUME StoreFits, TypeOK', SyncDirectory  PROVE  StoreFits'
<1>0. /\ IsOpen /\ IsOpen' /\ pc' = "checkpointed" /\ ckptPage' = ckptPage
      /\ ckptDisk' = ckptPage /\ ckptPage = Written
      /\ disk' = disk /\ page' = page /\ kept' = kept /\ state_' = state_
      /\ confirmed' = confirmed /\ inflight' = inflight
  BY DEF SyncDirectory, NoFileOp, StoreFits, PlaceFits, IsOpen, history
<1>1. /\ Left' = Left /\ Doubt' = Doubt /\ CheckpointsAfterCrash' \subseteq CheckpointsAfterCrash
      /\ Spared' = Spared /\ Intact(page)
  <2>1. flushed' = flushed
    BY DEF SyncDirectory, NoFileOp
  <2>2. Spared' = Spared
    BY <1>0, <2>1 DEF Spared, JournalsAfterKill
  <2>. QED
    BY <1>0, <2>2, StandsSo DEF Left, ContentsAfterCrash, Doubt, CheckpointsAfterCrash
<1>2. FilesFit'
  <2>1. ckptPage.state.seq =< ckptPage.state.seq
    BY ItemTypes DEF StoreFits, TypeOK
  <2>. QED  BY <1>0, <1>1, <2>1 DEF StoreFits, FilesFit
<1>3. RecordsFit'
  BY <1>1 DEF StoreFits, RecordsFit, Accounted
<1>4. HistoryFits'
  BY <1>0 DEF StoreFits, HistoryFits
<1>5. StateFits'
  BY <1>0, <1>1 DEF StoreFits, StateFits
<1>6. PlaceFits'
  BY <1>0 DEF PlaceFits, Written
<1>. QED  BY <1>0, <1>2, <1>3, <1>4, <1>5, <1>6 DEF StoreFits, RecoveryFits

\* While the journal is rewritten, both checkpoints hold the store's state.
LEMMA CompactStands ==
    ASSUME StoreFits, pc \in {"checkpointed", "truncated", "headed", "recorded"}
    PROVE  /\ IsOpen /\ page \in Seq(Items) /\ disk \in Seq(Items) /\ Intact(page)
           /\ kept \in 0 .. Len(page) /\ state_ \in States /\ state_.seq \in Nat
           /\ state_ \in Doubt /\ ckptPage = Written /\ ckptDisk = Written
           /\ Written \in Checkpoints /\ Written.present /\ Written.state = state_
           /\ CheckpointsAfterCrash = {Written}
           /\ \A p \in Left : Readable(p) => Below(p, state_.seq)
           /\ \A p \in Spared : Readable(p) => state_.seq =< Replayed(p, Written).seq
<1>1. /\ IsOpen /\ page \in Seq(Items) /\ disk \in Seq(Items) /\ state_ \in States
      /\ kept \in 0 .. Len(page) /\ ckptPage = Written /\ ckptDisk = Written /\ Intact(page)
  <2>1. IsOpen
    BY DEF IsOpen
  <2>. QED  BY <2>1, StandsSo DEF StoreFits, TypeOK, PlaceFits
<1>2. Written \in Checkpoints /\ Written.present /\ Written.state = state_
  BY <1>1 DEF Checkpoints, Written
<1>. QED
  BY <1>1, <1>2, ItemTypes DEF StoreFits, StateFits, CheckpointsAfterCrash

\* A step of the rewriting: what it adds to what is left stands for the same state.
LEMMA CompactKeeps ==
    ASSUME StoreFits, TypeOK', FilesFit', PlaceFits',
           pc \in {"checkpointed", "truncated", "headed", "recorded"}, IsOpen',
           UNCHANGED <<checkpoints, state_, history>>, Left' \subseteq Left \cup {page'},
           Spared' \subseteq Spared \cup {page'},
           Readable(page') => /\ InOrder(page') /\ Paired(page') /\ Below(page', state_.seq)
                              /\ Replayed(page', Written) = state_
    PROVE  StoreFits'
<1>0. /\ state_' = state_ /\ ckptPage' = Written /\ CheckpointsAfterCrash' = {Written}
      /\ CheckpointsAfterCrash = {Written} /\ Doubt' = Doubt
  BY CompactStands DEF checkpoints, directory, history, CheckpointsAfterCrash, Doubt
<1>1. Accounted(page', {Written}, Doubt)
  BY CompactStands DEF Accounted
<1>2. RecordsFit'
  BY <1>0, <1>1 DEF StoreFits, RecordsFit
<1>3. HistoryFits'
  BY DEF StoreFits, HistoryFits, history
<1>4. StateFits'
  <2>1. \A p \in Left' : Readable(p) => Below(p, state_.seq)
    BY CompactStands
  <2>2. state_.seq =< state_.seq
    BY CompactStands
  <2>3. \A p \in Spared' : Readable(p) => state_.seq =< Replayed(p, Written).seq
    BY <2>2, CompactStands
  <2>. QED  BY <1>0, <2>1, <2>2, <2>3, CompactStands DEF StateFits
<1>. QED  BY <1>2, <1>3, <1>4 DEF StoreFits, RecoveryFits

LEMMA CompactTruncateKeeps ==
    ASSUME StoreFits, TypeOK', CompactTruncate  PROVE  StoreFits'
<1>0. /\ pc = "checkpointed" /\ pc' = "truncated" /\ IsOpen' /\ disk' = disk
      /\ page' = SubSeq(page, 1, 0) /\ kept' = IF 0 < kept THEN 0 ELSE kept
      /\ flushed' = 0 /\ UNCHANGED <<checkpoints, state_, history>>
  BY DEF CompactTruncate, Truncate, IsOpen, directory
<1>1. page' = << >> /\ kept' = 0
  <2>1. page' = << >>
    BY <1>0, SubSeqEmpty
  <2>2. kept \in Nat
    BY <1>0, CompactStands, Beginning
  <2>. QED  BY <1>0, <2>1, <2>2
<1>2. /\ page' \in Seq(Items) /\ Intact(page') /\ InOrder(page') /\ Paired(page')
      /\ Replayed(page', Written) = state_ /\ Below(page', state_.seq)
  BY <1>0, <1>1, CompactStands, ReplayOfNothing
<1>3. FilesFit'
  <2>1. TornLast(page')
    BY <1>2 DEF TornLast, Intact
  <2>. QED  BY <1>0, <1>2, <2>1 DEF StoreFits, FilesFit, checkpoints
<1>4. Left' \subseteq Left \cup {page'}
  <2>1. Left' = {ValidPrefix(disk), << >>}
    BY <1>0, <1>1, <1>3, CompactStands, LeftAfter, ScannedAfter
  <2>2. ValidPrefix(disk) \in Left
    BY <1>0, CompactStands, StandsSo, ScannedAfter
  <2>. QED  BY <1>1, <2>1, <2>2
<1>5. PlaceFits'
  BY <1>0, <1>1, CompactStands DEF PlaceFits, checkpoints, Written
<1>6. Spared' \subseteq Spared \cup {page'}
  <2>1. TornLast(page') /\ Len(page') = 0
    BY <1>1, <1>2 DEF TornLast, Intact
  <2>2. ValidPrefix(page') = page'
    BY <1>2, <2>1, ScanStops
  <2>. QED  BY <1>0, <1>3, <2>1, <2>2, LeftAfter
<1>. QED  BY <1>0, <1>2, <1>3, <1>4, <1>5, <1>6, CompactKeeps

LEMMA CompactHeaderKeeps ==
    ASSUME StoreFits, TypeOK', CompactHeader  PROVE  StoreFits'
<1>0. /\ pc = "truncated" /\ pc' = "headed" /\ IsOpen' /\ page = << >>
      /\ UNCHANGED <<checkpoints, state_, history>>
  BY DEF CompactHeader, IsOpen, StoreFits, PlaceFits, directory
<1>1. /\ FilesFit' /\ page' = Append(page, Header) /\ Left' \subseteq Left \cup {page'}
      /\ Spared' \subseteq Spared \cup {page'}
  BY <1>0, CompactStands, WriteLeaves, RecordTypes DEF CompactHeader
<1>2. page' = <<Header>>
  BY <1>0, <1>1
<1>3. /\ InOrder(page') /\ Paired(page') /\ Replayed(page', Written) = state_
      /\ Below(page', state_.seq)
  BY <1>0, <1>2, CompactStands, ReplayOfNothing
<1>4. PlaceFits'
  BY <1>0, <1>2, CompactStands DEF PlaceFits, checkpoints, Written
<1>. QED  BY <1>0, <1>1, <1>3, <1>4, CompactKeeps

LEMMA CompactRecordKeeps ==
    ASSUME StoreFits, TypeOK', CompactRecord  PROVE  StoreFits'
<1>0. /\ pc = "headed" /\ pc' = "recorded" /\ IsOpen' /\ page = <<Header>>
      /\ UNCHANGED <<checkpoints, state_, history>>
  BY DEF CompactRecord, IsOpen, StoreFits, PlaceFits, directory
<1>. DEFINE e == CheckpointRecord(state_)
<1>1. e \in Items /\ e.type = "checkpoint" /\ e.seq = state_.seq
  BY <1>0, CompactStands, RecordTypes
<1>2. /\ FilesFit' /\ page' = Append(page, e) /\ Left' \subseteq Left \cup {page'}
      /\ Spared' \subseteq Spared \cup {page'}
  BY <1>0, <1>1, CompactStands, WriteLeaves DEF CompactRecord, Write
<1>. HIDE DEF e
<1>3. /\ page \in Seq(Items) /\ Readable(page) /\ InOrder(page) /\ Paired(page)
      /\ Replayed(page, Written) = state_ /\ Below(page, state_.seq) /\ page # << >>
  BY <1>0, CompactStands, ReplayOfNothing
<1>4. \A i \in DOMAIN page : page[i].seq =< e.seq
  <2>1. \A i \in DOMAIN page : page[i].seq = 0
    BY <1>0, RecordTypes
  <2>. QED  BY <1>0, <1>1, <2>1, CompactStands
<1>5. InOrder(page') /\ Paired(page') /\ Below(page', state_.seq)
  <2>1. e.seq =< state_.seq + 1
    BY <1>0, <1>1, CompactStands
  <2>. QED  BY <1>0, <1>1, <1>2, <1>3, <1>4, <2>1, CompactStands, AppendKeepsOrder
<1>6. Replayed(page', Written) = state_
  <2>1. Written.present /\ e.seq =< Written.state.seq
    BY <1>0, <1>1, CompactStands
  <2>. QED  BY <1>0, <1>1, <1>2, <1>3, <1>5, <2>1, CompactStands, ReplayStands
<1>7. PlaceFits'
  BY <1>0, CompactStands DEF PlaceFits, checkpoints, Written
<1>. QED  BY <1>0, <1>2, <1>5, <1>6, <1>7, CompactKeeps

LEMMA CompactSyncKeeps ==
    ASSUME StoreFits, TypeOK', CompactSync  PROVE  StoreFits'
<1>0. /\ pc = "recorded" /\ pc' = "open" /\ IsOpen' /\ IsOpen
      /\ UNCHANGED <<checkpoints, state_, history>>
  BY DEF CompactSync, IsOpen, directory
<1>1. /\ FilesFit' /\ page' = page /\ Left' = {page} /\ page \in Left
      /\ Spared' = {page} /\ page \in Spared
  BY <1>0, SyncLeaves DEF CompactSync
<1>2. CheckpointsAfterCrash' = CheckpointsAfterCrash /\ Doubt' = Doubt
  BY <1>0 DEF CheckpointsAfterCrash, Doubt, checkpoints, directory, history
<1>3. RecordsFit' /\ HistoryFits'
  BY <1>0, <1>1, <1>2 DEF StoreFits, RecordsFit, HistoryFits, history
<1>4. StateFits'
  BY <1>0, <1>1, <1>2 DEF StoreFits, StateFits, checkpoints
<1>5. PlaceFits'
  BY <1>0 DEF PlaceFits
<1>. QED  BY <1>0, <1>1, <1>3, <1>4, <1>5 DEF StoreFits, RecoveryFits

LEMMA KillKeeps ==
    ASSUME StoreFits, TypeOK', Kill  PROVE  StoreFits'
<1>1. PICK k \in flushed .. Len(page) : \E j \in Keeps(page, k) : page' = j /\ flushed' = Len(j)
  BY DEF Kill, JournalsAfterKill
<1>2. /\ page' \in Keeps(page, k) /\ flushed' = Len(page') /\ page' \in JournalsAfterKill
      /\ disk' = disk /\ kept' = kept /\ pc' = "down" /\ ~IsOpen'
      /\ UNCHANGED <<checkpoints, history>> /\ PlaceFits'
  BY <1>1 DEF Kill, JournalsAfterKill, IsOpen, PlaceFits, directory
<1>3. /\ disk \in Seq(Items) /\ page \in Seq(Items) /\ TornLast(page) /\ TornLast(disk)
      /\ kept \in 0 .. Len(page) /\ k \in kept .. Len(page)
      /\ page' \in Seq(Items) /\ TornLast(page')
  <2>1. Len(page) \in Nat /\ kept \in 0 .. Len(page) /\ flushed \in kept .. Len(page)
    BY Beginning DEF StoreFits, TypeOK
  <2>. QED  BY <1>1, <1>2, <2>1, StandsSo DEF StoreFits, TypeOK, FilesFit
<1>4. FilesFit'
  BY <1>2, <1>3 DEF StoreFits, FilesFit, checkpoints
<1>5. Left' \subseteq Left
  <2>1. Scanned(disk, page', kept) \subseteq Scanned(disk, page, kept)
    BY <1>2, <1>3, ShorterIsScanned
  <2>. QED  BY <1>2, <1>4, <2>1, LeftAfter, StandsSo
<1>6. Spared' \subseteq Spared
  <2>1. Spared' = {ValidPrefix(page')}
    BY <1>2, <1>4, LeftAfter
  <2>. QED  BY <1>2, <2>1 DEF Spared
<1>. QED  BY <1>2, <1>4, <1>5, <1>6, LessKeeps

LEMMA CrashKeeps ==
    ASSUME StoreFits, TypeOK', Crash  PROVE  StoreFits'
<1>0. PICK j \in ContentsAfterCrash, c \in CheckpointsAfterCrash : Leaves(j, c)
  BY DEF Crash
<1>1. disk' = j /\ page' = j /\ kept' = Len(j) /\ flushed' = Len(j)
  BY <1>0 DEF Leaves
<1>2. ckptDisk' = c /\ ckptPage' = c
  BY <1>0 DEF Leaves
<1>3. /\ pc' = "down" /\ ~IsOpen' /\ Doubt' = Doubt /\ UNCHANGED history
      /\ CheckpointsAfterCrash' = {c} /\ c \in Checkpoints
  BY <1>0, <1>2 DEF Crash, Leaves, IsOpen, Doubt, history, CheckpointsAfterCrash, TypeOK
<1>4. j \in Seq(Items) /\ TornLast(j) /\ ValidPrefix(j) \in Left
  BY <1>1, StandsSo
<1>5. FilesFit'
  <2>1. c.state.seq =< c.state.seq
    BY <1>3, ItemTypes
  <2>. QED  BY <1>1, <1>2, <1>3, <1>4, <2>1 DEF FilesFit
<1>6. Left' = {ValidPrefix(j)} /\ Spared' = {ValidPrefix(j)}
  BY <1>1, <1>4, <1>5, LeftAfter, ScannedAfter
<1>7. Accounted(ValidPrefix(j), {c}, Doubt)
  BY <1>2, <1>4 DEF StoreFits, RecordsFit, Accounted
<1>8. RecordsFit' /\ HistoryFits'
  BY <1>3, <1>6, <1>7 DEF StoreFits, RecordsFit, HistoryFits, history
<1>9. RecoveryFits'
  <2>1. Readable(ValidPrefix(j)) =>
           /\ Below(ValidPrefix(j), Replayed(ValidPrefix(j), c).seq)
           /\ Replayed(ValidPrefix(j), c).seq =< Replayed(ValidPrefix(j), c).seq
    <3>1. Readable(ValidPrefix(j)) =>
             Replayed(ValidPrefix(j), c) \in Doubt
             /\ Below(ValidPrefix(j), Replayed(ValidPrefix(j), c).seq)
      BY <1>7 DEF Accounted
    <3>. QED  BY <3>1, StandsSo
  <2>. QED  BY <1>1, <1>2, <1>3, <1>6, <2>1 DEF RecoveryFits, Recoverable
<1>10. PlaceFits' /\ StateFits'
  BY <1>1, <1>3 DEF PlaceFits, StateFits
<1>. QED  BY <1>5, <1>8, <1>9, <1>10 DEF StoreFits

\* What the store holds once open() has read r.
LEMMA OpenStands ==
    ASSUME StoreFits, ~IsOpen, NEW r \in Recoveries(page, ckptPage), Usable(r)
    PROVE  /\ page \in Seq(Items) /\ kept \in 0 .. Len(page) /\ TornLast(page)
           /\ ckptDisk \in Checkpoints /\ ckptPage \in Checkpoints
           /\ ValidPrefix(page) \in Seq(Items) /\ ValidPrefix(page) \in Left
           /\ InOrder(ValidPrefix(page)) /\ Paired(ValidPrefix(page))
           /\ Readable(ValidPrefix(page)) /\ r.journal = ValidPrefix(page)
           /\ r.state = Replayed(ValidPrefix(page), ckptPage)
           /\ r.state \in Doubt /\ r.state \in States /\ r.state.seq \in Nat
           /\ ckptPage.state.seq =< r.state.seq
           /\ \A p \in Left : Readable(p) => Below(p, r.state.seq)
           /\ \A c \in CheckpointsAfterCrash :
                 r.state.seq =< Replayed(ValidPrefix(page), c).seq
           /\ \A p \in Spared : Recoverable(p)
           /\ Intact(page) <=> r.journal = page
<1>1. /\ page \in Seq(Items) /\ kept \in 0 .. Len(page) /\ TornLast(page)
      /\ ckptDisk \in Checkpoints /\ ckptPage \in Checkpoints
      /\ ValidPrefix(page) \in Seq(Items) /\ ValidPrefix(page) \in Left
  BY StandsSo DEF StoreFits, TypeOK, FilesFit
<1>2. /\ Readable(ValidPrefix(page)) /\ r.journal = ValidPrefix(page)
      /\ r.state = Replayed(ValidPrefix(page), ckptPage) /\ r.state \in Doubt
      /\ r.state \in States /\ r.state.seq \in Nat
  BY OpensSoundly, ItemTypes
<1>3. InOrder(ValidPrefix(page)) /\ Paired(ValidPrefix(page))
  BY <1>1, <1>2 DEF StoreFits, RecordsFit, Accounted
<1>4. ckptPage.state.seq =< r.state.seq
  BY <1>1, <1>2, <1>3, ReplayMovesOn
<1>5. /\ \A p \in Left : Readable(p) => Below(p, r.state.seq)
      /\ \A c \in CheckpointsAfterCrash : r.state.seq =< Replayed(ValidPrefix(page), c).seq
      /\ \A p \in Spared : Recoverable(p)
  BY <1>2, StandsSo DEF StoreFits, RecoveryFits, Recoverable
<1>6. Intact(page) <=> r.journal = page
  <2>1. Intact(ValidPrefix(page))
    BY <1>1, ScanStops
  <2>. QED  BY <1>1, <1>2, <2>1, ScanStops
<1>. QED  BY <1>1, <1>2, <1>3, <1>4, <1>5, <1>6

\* Whether open() settles the doubt or leaves it, it accounts for all that is left.
LEMMA OpenSettles ==
    ASSUME StoreFits, ~IsOpen, NEW r \in Recoveries(page, ckptPage), Usable(r),
           IF disk = page /\ kept = Len(page) /\ ckptDisk = ckptPage
           THEN Established(r.state) ELSE InDoubt(r.state)
    PROVE  /\ r.state \in Doubt' /\ HistoryFits'
           /\ \A p \in Left : Accounted(p, CheckpointsAfterCrash, Doubt')
           /\ \/ Established(r.state)
              \/ confirmed' = confirmed /\ inflight' = inflight
<1>1. CASE /\ disk = page /\ kept = Len(page) /\ ckptDisk = ckptPage
           /\ Established(r.state)
  <2>1. Left = {ValidPrefix(page)}
    BY <1>1, OpenStands, StandsSo, ScannedAfter
  <2>2. Doubt' = {r.state} /\ CheckpointsAfterCrash = {ckptPage}
    BY <1>1 DEF Established, Doubt, CheckpointsAfterCrash
  <2>3. Accounted(ValidPrefix(page), {ckptPage}, {r.state})
    BY OpenStands DEF Accounted
  <2>. QED  BY <1>1, <2>1, <2>2, <2>3 DEF Established, HistoryFits
<1>2. CASE InDoubt(r.state)
  <2>1. confirmed' = confirmed /\ inflight' = inflight
    BY <1>2, OpenStands DEF InDoubt, Doubt
  <2>2. Doubt' = Doubt
    BY <2>1 DEF Doubt
  <2>. QED  BY <2>1, <2>2, OpenStands DEF StoreFits, RecordsFit, HistoryFits
<1>. QED  BY <1>1, <1>2

LEMMA OpenKeeps ==
    ASSUME StoreFits, TypeOK', Open  PROVE  StoreFits'
<1>1. PICK r \in Recoveries(page, ckptPage) :
         /\ Usable(r) /\ state_' = r.state
         /\ \/ /\ page = << >> /\ ~ckptPage.present
               /\ Write(Header)
               /\ pc' = "opening"
            \/ /\ r.journal # page
               /\ Truncate(Len(r.journal))
               /\ pc' = "opening"
            \/ /\ r.journal = page /\ (page # << >> \/ ckptPage.present)
               /\ NoFileOp
               /\ pc' = "open"
         /\ IF disk = page /\ kept = Len(page) /\ ckptDisk = ckptPage
            THEN Established(r.state) ELSE InDoubt(r.state)
  BY DEF Open
<1>2. ~IsOpen /\ IsOpen' /\ ckptPage' = ckptPage /\ UNCHANGED checkpoints
      /\ CheckpointsAfterCrash' = CheckpointsAfterCrash
  BY <1>1 DEF Open, IsOpen, checkpoints, directory, CheckpointsAfterCrash
<1>3. /\ r.state \in Doubt' /\ HistoryFits'
      /\ \A p \in Left : Accounted(p, CheckpointsAfterCrash, Doubt')
  BY <1>1, <1>2, OpenSettles
<1>8. pc = "down"
  BY DEF Open
<1>. DEFINE Ready ==
        /\ FilesFit' /\ PlaceFits'
        /\ \A p \in Left' : /\ Accounted(p, CheckpointsAfterCrash, Doubt')
                            /\ Readable(p) => Below(p, r.state.seq)
        /\ \A p \in Spared' : Readable(p) =>
              \A c \in CheckpointsAfterCrash : r.state.seq =< Replayed(p, c).seq
<1>4. ASSUME page = << >> /\ ~ckptPage.present /\ Write(Header) /\ pc' = "opening"
      PROVE  Ready
  <2>1. Intact(page)
    BY <1>4 DEF Intact
  <2>2. /\ FilesFit' /\ page' = Append(page, Header) /\ Left' \subseteq Left \cup {page'}
        /\ Spared' \subseteq Spared \cup {page'}
    BY <1>2, <1>4, <2>1, WriteLeaves, RecordTypes DEF Write
  <2>3. page' = <<Header>>
    BY <1>4, <2>2
  <2>4. ckptPage = Absent /\ ckptDisk = Absent
    BY <1>4, ItemTypes DEF StoreFits, TypeOK, FilesFit
  <2>5. CheckpointsAfterCrash = {Absent} /\ Absent \in Checkpoints /\ Absent.state = Initial
    BY <2>4, ItemTypes DEF CheckpointsAfterCrash, Absent
  <2>6. r.state = Initial /\ r.state.seq \in Nat
    <3>1. ValidPrefix(page) = << >>
      BY <1>4, <2>1, StandsSo
    <3>. QED  BY <1>1, <1>2, <2>4, <2>5, <3>1, OpenStands, ReplayOfNothing
  <2>7. /\ InOrder(page') /\ Paired(page') /\ Replayed(page', Absent) = r.state
        /\ Below(page', r.state.seq)
    BY <2>3, <2>5, <2>6, ReplayOfNothing
  <2>8. Accounted(page', CheckpointsAfterCrash, Doubt')
    BY <1>3, <2>5, <2>7 DEF Accounted
  <2>9. \A p \in Left' : /\ Accounted(p, CheckpointsAfterCrash, Doubt')
                         /\ Readable(p) => Below(p, r.state.seq)
    BY <1>1, <1>2, <1>3, <2>2, <2>7, <2>8, OpenStands
  <2>10. \A p \in Spared' : Readable(p) =>
            \A c \in CheckpointsAfterCrash : r.state.seq =< Replayed(p, c).seq
    <3>1. Spared = {page}
      <4>1. flushed = Len(page)
        BY <1>8 DEF StoreFits, PlaceFits
      <4>2. page \in Seq(Items) /\ flushed \in 0 .. Len(page)
        BY <4>1, Beginning DEF StoreFits, TypeOK
      <4>3. Scanned(page, page, Len(page)) = {ValidPrefix(page)}
        BY <4>1, <4>2, ScannedAfter
      <4>. QED  BY <2>1, <4>1, <4>3, StandsSo
    <3>2. Replayed(page, Absent) = Initial /\ Replayed(page', Absent) = Initial
      <4>1. \A p \in {<< >>, <<Header>>} : Replayed(p, Absent) = Initial
        BY <2>5, ReplayOfNothing
      <4>. QED  BY <1>4, <2>3, <4>1
    <3>3. r.state.seq =< Initial.seq
      BY <2>6
    <3>. QED  BY <2>2, <2>5, <3>1, <3>2, <3>3
  <2>11. PlaceFits'
    BY <1>1, <1>2, <1>4, <2>4, <2>7 DEF PlaceFits, checkpoints
  <2>. QED  BY <2>2, <2>9, <2>10, <2>11
<1>5. ASSUME r.journal # page /\ Truncate(Len(r.journal)) /\ pc' = "opening"
      PROVE  Ready
  <2>1. /\ ~Intact(page) /\ r.journal = ValidPrefix(page) /\ page \in Seq(Items)
        /\ TornLast(page)
    BY <1>1, <1>2, <1>5, OpenStands
  <2>. DEFINE v == ValidPrefix(page)
  <2>2. disk \in Seq(Items) /\ TornLast(disk) /\ kept \in 0 .. Len(page)
    BY DEF StoreFits, TypeOK, FilesFit
  <2>3. /\ v \in Seq(Items) /\ Intact(v) /\ Len(v) = Len(page) - 1 /\ v = SubSeq(page, 1, Len(v))
        /\ Len(page) \in Nat /\ Len(v) < Len(page)
    <3>1. v \in Seq(Items) /\ Intact(v) /\ v = SubSeq(page, 1, Len(page) - 1) /\ Len(page) > 0
      BY <2>1, ScanStops
    <3>2. Len(page) - 1 \in 0 .. Len(page) /\ Len(page) - 1 < Len(page) /\ Len(page) \in Nat
      <4>1. \A n \in Nat : n > 0 => n - 1 \in 0 .. n /\ n - 1 < n
        OBVIOUS
      <4>. QED  BY <2>1, <3>1, <4>1, Beginning
    <3>3. Len(v) = Len(page) - 1
      <4>1. Len(SubSeq(page, 1, Len(page) - 1)) = Len(page) - 1
        BY <2>1, <3>2, Beginning
      <4>. QED  BY <3>1, <4>1
    <3>. QED  BY <3>1, <3>2, <3>3
  <2>. HIDE DEF v
  <2>4. page' = v /\ disk' = disk /\ flushed' = Len(v)
        /\ kept' = IF Len(v) < kept THEN Len(v) ELSE kept
    <3>1. Len(r.journal) = Len(v)
      BY <2>1 DEF v
    <3>. QED  BY <1>5, <2>3, <3>1 DEF Truncate
  <2>5. FilesFit'
    <3>1. TornLast(v)
      BY <2>3 DEF TornLast, Intact
    <3>. QED  BY <1>2, <2>1, <2>3, <2>4, <3>1 DEF StoreFits, FilesFit, checkpoints
  <2>6. v \in Left /\ r.state = Replayed(v, ckptPage)
    BY <1>1, <1>2, OpenStands DEF v
  <2>7. Left' \subseteq Left /\ Spared' = {v}
    <3>1. ValidPrefix(v) = v
      <4>1. TornLast(v)
        BY <2>3 DEF TornLast, Intact
      <4>. QED  BY <2>3, <4>1, ScanStops
    <3>2. SubSeq(v, 1, Len(v)) = v /\ Len(v) .. Len(v) = {Len(v)}
      BY <2>3, Beginning
    <3>3. Spared' = {v}
      BY <2>4, <2>5, <3>1, LeftAfter
    <3>4. Left' = Scanned(disk, v, kept')
      BY <2>4, <2>5, LeftAfter
    <3>5. CASE Len(v) < kept
      <4>1. Scanned(disk, v, Len(v)) = {ValidPrefix(disk), v}
        <5>1. \A n \in {Len(v)} : ValidPrefix(SubSeq(v, 1, n)) = v
          BY <3>1, <3>2
        <5>2. Scanned(disk, v, Len(v))
                 = {ValidPrefix(disk)} \cup {ValidPrefix(SubSeq(v, 1, n)) : n \in {Len(v)}}
          BY <3>2 DEF Scanned
        <5>. HIDE DEF Scanned
        <5>. QED  BY <5>1, <5>2
      <4>2. ValidPrefix(disk) \in Left
        BY <2>1, <2>2, StandsSo, ScannedAfter
      <4>. QED  BY <2>4, <2>6, <3>3, <3>4, <3>5, <4>1, <4>2
    <3>6. CASE ~(Len(v) < kept)
      <4>1. Len(v) \in kept .. Len(page) /\ v \in Keeps(page, Len(v))
        <5>1. Len(v) \in Nat /\ kept \in Nat
          BY <2>2, <2>3, Beginning
        <5>2. Len(v) \in kept .. Len(page)
          BY <2>3, <3>6, <5>1
        <5>. QED  BY <2>3, <5>2 DEF Keeps
      <4>2. Scanned(disk, v, kept) \subseteq Scanned(disk, page, kept)
        BY <2>1, <2>2, <4>1, ShorterIsScanned
      <4>. QED  BY <2>4, <3>3, <3>4, <3>6, <4>2, StandsSo
    <3>. QED  BY <3>5, <3>6
  <2>8. \A p \in Left' : /\ Accounted(p, CheckpointsAfterCrash, Doubt')
                         /\ Readable(p) => Below(p, r.state.seq)
    BY <1>1, <1>2, <1>3, <2>7, OpenStands
  <2>9. \A p \in Spared' : \A c \in CheckpointsAfterCrash : r.state.seq =< Replayed(p, c).seq
    BY <1>1, <1>2, <2>7, OpenStands DEF v
  <2>10. PlaceFits'
    BY <1>1, <1>2, <1>5, <2>4, <2>6 DEF PlaceFits, checkpoints
  <2>. QED  BY <2>5, <2>8, <2>9, <2>10
<1>6. ASSUME r.journal = page /\ NoFileOp /\ pc' = "open"
      PROVE  Ready
  <2>1. Intact(page) /\ ValidPrefix(page) = page
    BY <1>1, <1>2, <1>6, OpenStands
  <2>2. disk' = disk /\ page' = page /\ kept' = kept /\ flushed' = Len(page)
    BY <1>6, <1>8 DEF NoFileOp, StoreFits, PlaceFits
  <2>3. FilesFit' /\ Left' = Left
    BY <1>2, <2>1, <2>2 DEF StoreFits, FilesFit, Left, ContentsAfterCrash, checkpoints, directory
  <2>4. \A p \in Left' : /\ Accounted(p, CheckpointsAfterCrash, Doubt')
                         /\ Readable(p) => Below(p, r.state.seq)
    BY <1>1, <1>2, <1>3, <2>3, OpenStands
  <2>5. \A p \in Spared' : \A c \in CheckpointsAfterCrash : r.state.seq =< Replayed(p, c).seq
    <3>1. Spared' = {page}
      BY <2>1, <2>2, <2>3, LeftAfter
    <3>. QED  BY <1>1, <1>2, <2>1, <3>1, OpenStands
  <2>6. PlaceFits'
    BY <1>6 DEF PlaceFits
  <2>. QED  BY <2>3, <2>4, <2>5, <2>6
<1>7. Ready
  BY <1>1, <1>4, <1>5, <1>6
<1>9. RecordsFit'
  BY <1>2, <1>7 DEF RecordsFit
<1>10. StateFits'
  <2>1. ckptPage.state.seq =< r.state.seq
    BY <1>1, <1>2, OpenStands
  <2>. QED  BY <1>1, <1>2, <1>3, <1>7, <2>1 DEF StateFits
<1>. QED  BY <1>2, <1>3, <1>7, <1>9, <1>10 DEF StoreFits, RecoveryFits

LEMMA OpenSyncKeeps ==
    ASSUME StoreFits, TypeOK', OpenSync  PROVE  StoreFits'
<1>0. /\ pc = "opening" /\ pc' = "open" /\ IsOpen /\ IsOpen' /\ state_ \in Doubt
      /\ Replayed(page, ckptPage) = state_ /\ state_' = state_ /\ ckptPage' = ckptPage
  BY DEF OpenSync, StoreFits, StateFits, PlaceFits, IsOpen, checkpoints, directory
<1>1. /\ FilesFit' /\ page' = page /\ Left' = {page} /\ page \in Left
      /\ Spared' = {page} /\ page \in Spared
      /\ CheckpointsAfterCrash' = CheckpointsAfterCrash
  BY <1>0, SyncLeaves DEF OpenSync, directory
<1>2. ASSUME ckptDisk = ckptPage /\ confirmed' = state_ /\ inflight' = {}
      PROVE  RecordsFit' /\ HistoryFits'
  <2>1. CheckpointsAfterCrash = {ckptPage} /\ Doubt' = {state_}
    BY <1>2 DEF CheckpointsAfterCrash, Doubt
  <2>2. Accounted(page, {ckptPage}, {state_})
    BY <1>0, <1>1, <2>1 DEF StoreFits, RecordsFit, Accounted
  <2>. QED  BY <1>1, <1>2, <2>1, <2>2 DEF RecordsFit, HistoryFits
<1>3. ASSUME confirmed' = confirmed /\ inflight' = inflight
      PROVE  RecordsFit' /\ HistoryFits'
  <2>1. Doubt' = Doubt
    BY <1>3 DEF Doubt
  <2>. QED  BY <1>1, <1>3, <2>1 DEF StoreFits, RecordsFit, HistoryFits
<1>4. RecordsFit' /\ HistoryFits' /\ state_ \in Doubt'
  <2>1. \/ ckptDisk = ckptPage /\ confirmed' = state_ /\ inflight' = {}
        \/ confirmed' = confirmed /\ inflight' = inflight
    BY <1>0 DEF OpenSync, Established, InDoubt, Doubt
  <2>. QED  BY <1>0, <1>2, <1>3, <2>1 DEF Doubt
<1>5. StateFits'
  BY <1>0, <1>1, <1>4 DEF StoreFits, StateFits
<1>6. PlaceFits'
  BY <1>0 DEF PlaceFits
<1>. QED  BY <1>0, <1>1, <1>4, <1>5, <1>6 DEF StoreFits, RecoveryFits

\* A store without a journal, where the checkpoint says what is confirmed.
Emptied ==
    /\ disk = << >> /\ page = << >> /\ kept = 0 /\ flushed = 0
    /\ ckptDisk = ckptPage /\ pc = "down"
    /\ confirmed = ckptPage.state /\ inflight = {}

LEMMA EmptyStoreFits == TypeOK /\ Emptied => StoreFits
<1>. SUFFICES ASSUME TypeOK, Emptied  PROVE StoreFits
  OBVIOUS
<1>. DEFINE c == ckptPage
<1>0. /\ disk = << >> /\ page = << >> /\ kept = 0 /\ flushed = 0 /\ ckptDisk = c
      /\ pc = "down" /\ confirmed = c.state /\ inflight = {} /\ ~IsOpen
  BY DEF Emptied, IsOpen
<1>1. c \in Checkpoints /\ c.state \in States /\ c.state.seq \in Nat
  BY ItemTypes DEF TypeOK
<1>. HIDE DEF c
<1>2. page \in Seq(Items) /\ Len(page) = 0
  BY <1>0
<1>4. FilesFit
  <2>1. c.state.seq =< c.state.seq
    BY <1>1
  <2>. QED  BY <1>0, <2>1 DEF FilesFit, TornLast, Intact, c
<1>5. /\ Left = {<< >>} /\ Spared = {<< >>}
      /\ CheckpointsAfterCrash = {c} /\ Doubt = {c.state}
  <2>1. disk \in Seq(Items) /\ kept \in 0 .. Len(page) /\ TornLast(disk) /\ TornLast(page)
    BY <1>0, <1>2, <1>4 DEF FilesFit
  <2>2. ContentsAfterCrash = Crashed(disk, page, kept)
    BY DEF ContentsAfterCrash, Crashed
  <2>3. Left = Scanned(disk, page, kept)
    BY <1>2, <2>1, <2>2, CrashedIsScanned DEF Left
  <2>4. ValidPrefix(page) = << >>
    <3>1. Intact(page)
      BY <1>0 DEF Intact
    <3>. QED  BY <1>0, <1>2, <2>1, <3>1, ScanStops
  <2>5. Scanned(disk, page, kept) = {<< >>}
    <3>1. page \in Seq(Items) /\ kept = Len(page) /\ disk = page
      BY <1>0, <1>2
    <3>2. Scanned(page, page, Len(page)) = {ValidPrefix(page)}
      BY <3>1, <2>1, ScannedAfter
    <3>. QED  BY <2>4, <3>1, <3>2
  <2>6. Spared = Scanned(page, page, flushed)
    <3>1. page \in Seq(Items) /\ flushed \in 0 .. Len(page)
      BY <1>0, <1>2
    <3>2. {ValidPrefix(j) : j \in UNION {Keeps(page, k) : k \in flushed .. Len(page)}}
             = Scanned(page, page, flushed)
      BY <2>1, <3>1, KilledIsScanned
    <3>. QED  BY <3>2 DEF Spared, JournalsAfterKill
  <2>. QED  BY <1>0, <2>3, <2>5, <2>6 DEF CheckpointsAfterCrash, Doubt, c
<1>6. /\ InOrder(<< >>) /\ Paired(<< >>) /\ Replayed(<< >>, c) = c.state
      /\ Below(<< >>, c.state.seq)
  BY <1>1, ReplayOfNothing
<1>7. RecordsFit
  BY <1>5, <1>6 DEF RecordsFit, Accounted
<1>8. RecoveryFits
  BY <1>0, <1>1, <1>5, <1>6 DEF RecoveryFits, Recoverable, c
<1>. QED  BY <1>0, <1>2, <1>4, <1>7, <1>8 DEF StoreFits, HistoryFits, StateFits, PlaceFits

LEMMA StoreBegins == Init => StoreFits
<1>. SUFFICES ASSUME Init  PROVE StoreFits
  OBVIOUS
<1>1. /\ Initial \in States /\ Absent \in Checkpoints /\ Absent.state = Initial
      /\ 0 \in 0 .. 0 /\ 0 \in 0 .. MaxFailures
      /\ << >> \in Seq(Items) /\ Len(<< >>) = 0
  BY ItemTypes, StoreAssumption DEF Absent
<1>2. TypeOK /\ Emptied
  BY <1>1 DEF Init, TypeOK, Emptied
<1>. QED  BY <1>2, EmptyStoreFits

LEMMA CrashLosesJournalKeeps ==
    ASSUME TypeOK', CrashLosesJournal  PROVE  StoreFits'
<1>1. Emptied'
  <2>1. Len(<< >>) = 0
    OBVIOUS
  <2>. QED  BY <2>1 DEF CrashLosesJournal, Leaves, Established, Emptied
<1>. QED  BY <1>1, EmptyStoreFits, PTL

LEMMA StoreStep ==
    ASSUME ~ShortWrites, StoreFits, [Next]_vars  PROVE  StoreFits'
<1>0. TypeOK'
  BY TypesKept
<1>1. CASE Open
  BY <1>0, <1>1, OpenKeeps
<1>2. CASE OpenRefused
  <2>1. UNCHANGED <<files, history>> /\ ~IsOpen' /\ PlaceFits'
    BY <1>2 DEF OpenRefused, IsOpen, PlaceFits
  <2>. QED  BY <1>0, <2>1, IdleKeeps DEF files, checkpoints
<1>3. CASE OpenSync
  BY <1>0, <1>3, OpenSyncKeeps
<1>4. CASE OpenFail
  <2>1. UNCHANGED <<files, history>> /\ ~IsOpen' /\ PlaceFits'
    BY <1>4 DEF OpenFail, IsOpen, PlaceFits
  <2>. QED  BY <1>0, <2>1, IdleKeeps DEF files, checkpoints
<1>5. CASE Close
  <2>1. /\ UNCHANGED <<disk, page, kept, checkpoints, history>>
        /\ flushed' = Len(page) /\ ~IsOpen' /\ PlaceFits'
    BY <1>5 DEF Close, IsOpen, PlaceFits, directory
  <2>. QED  BY <1>0, <2>1, IdleKeeps
<1>6. ASSUME NEW v \in Values, CommitBegin(v)  PROVE  StoreFits'
  BY <1>0, <1>6, CommitBeginKeeps
<1>7. CASE CommitRecord
  BY <1>0, <1>7, CommitRecordKeeps
<1>8. CASE CommitSync
  BY <1>0, <1>8, CommitSyncKeeps
<1>9. CASE Compact
  <2>1. UNCHANGED <<files, history>> /\ IsOpen /\ UNCHANGED state_ /\ PlaceFits'
    BY <1>9 DEF Compact, IsOpen, PlaceFits
  <2>. QED  BY <1>0, <2>1, IdleKeeps DEF files, checkpoints
<1>10. CASE ReplaceCheckpoint
  BY <1>0, <1>10, ReplaceCheckpointKeeps
<1>11. CASE SyncDirectory
  BY <1>0, <1>11, SyncDirectoryKeeps
<1>12. CASE CompactTruncate
  BY <1>0, <1>12, CompactTruncateKeeps
<1>13. CASE CompactHeader
  BY <1>0, <1>13, CompactHeaderKeeps
<1>14. CASE CompactRecord
  BY <1>0, <1>14, CompactRecordKeeps
<1>15. CASE CompactSync
  BY <1>0, <1>15, CompactSyncKeeps
<1>16. CASE Fail
  <2>1. UNCHANGED <<files, history>> /\ IsOpen /\ UNCHANGED state_ /\ PlaceFits'
    BY <1>16 DEF Fail, NoFileOp, checkpoints, directory, files, IsOpen, PlaceFits
  <2>. QED  BY <1>0, <2>1, IdleKeeps DEF files, checkpoints
<1>17. CASE Crash
  BY <1>0, <1>17, CrashKeeps
<1>18. CASE UNCHANGED vars
  <2>1. UNCHANGED <<files, history>> /\ UNCHANGED state_ /\ pc' = pc /\ next' = next
    BY <1>18 DEF vars, files, history
  <2>2. PlaceFits'
    BY <2>1 DEF StoreFits, PlaceFits, files, history, Written
  <2>. QED  BY <1>0, <2>1, <2>2, IdleKeeps DEF IsOpen, files, checkpoints
<1>19. CASE Kill
  BY <1>0, <1>19, KillKeeps
<1>20. CASE CrashLosesJournal
  BY <1>0, <1>20, CrashLosesJournalKeeps
<1>. QED
  BY <1>1, <1>2, <1>3, <1>4, <1>5, <1>6, <1>7, <1>8, <1>9, <1>10, <1>11, <1>12, <1>13,
     <1>14, <1>15, <1>16, <1>17, <1>18, <1>19, <1>20 DEF Next

-----------------------------------------------------------------------------
(* What is left when a new journal is lost. *)

\* Without the journal a checkpoint answers: it is in doubt or not ahead of the
\* confirmed state.
CheckpointsKnown ==
    \A c \in CheckpointsAfterCrash : c.state \in Doubt \/ c.state.seq =< confirmed.seq

\* A step settles the doubt on the state of an open store, forgets all but what a
\* checkpoint holds, or leaves the confirmed state and what was in doubt.
LEMMA Settles ==
    ASSUME StoreFits, Next
    PROVE  \/ /\ confirmed' \in Doubt /\ inflight' = {}
              /\ Open \/ OpenSync \/ (CommitSync /\ confirmed' \in inflight)
              /\ IsOpen' /\ confirmed' = state_' /\ UNCHANGED checkpoints
           \/ /\ CrashLosesJournal /\ inflight' = {}
              /\ \E c \in CheckpointsAfterCrash :
                    confirmed' = c.state /\ ckptDisk' = c /\ ckptPage' = c
           \/ /\ confirmed' = confirmed /\ ~CrashLosesJournal
              /\ inflight' = inflight
                 \/ (inflight \subseteq inflight' /\ \E v \in Values : CommitBegin(v))
<1>1. CASE Open
  <2>1. PICK r \in Recoveries(page, ckptPage) :
           /\ Usable(r) /\ state_' = r.state /\ pc' \in {"opening", "open"}
           /\ IF disk = page /\ kept = Len(page) /\ ckptDisk = ckptPage
              THEN Established(r.state) ELSE InDoubt(r.state)
    BY <1>1 DEF Open
  <2>2. ~IsOpen /\ IsOpen' /\ entry' # "absent" /\ UNCHANGED checkpoints
    BY <1>1, <2>1 DEF Open, IsOpen
  <2>3. /\ r.state \in Doubt
        /\ Established(r.state) \/ (confirmed' = confirmed /\ inflight' = inflight)
    BY <2>1, <2>2, OpenStands, OpenSettles
  <2>. QED  BY <1>1, <2>1, <2>2, <2>3 DEF Established, CrashLosesJournal
<1>2. CASE OpenSync
  <2>1. state_ \in Doubt
    BY <1>2 DEF OpenSync, IsOpen, StoreFits, StateFits
  <2>2. IsOpen' /\ UNCHANGED <<checkpoints, state_>> /\ ~CrashLosesJournal
    BY <1>2 DEF OpenSync, IsOpen, directory, CrashLosesJournal, Leaves
  <2>. QED  BY <1>2, <2>1, <2>2 DEF OpenSync, Established, InDoubt, Doubt
<1>3. CASE CommitSync
  <2>1. next \in inflight
    BY <1>3, CommitStands DEF CommitSync
  <2>2. IsOpen' /\ UNCHANGED checkpoints /\ state_' = next
    BY <1>3 DEF CommitSync, IsOpen, directory
  <2>. QED  BY <1>3, <2>1, <2>2 DEF CommitSync, Established, Doubt
<1>4. ASSUME NEW v \in Values, CommitBegin(v)
      PROVE  /\ confirmed' = confirmed /\ inflight \subseteq inflight' /\ ~CrashLosesJournal
             /\ \E w \in Values : CommitBegin(w)
  BY <1>4 DEF CommitBegin, CrashLosesJournal, Leaves
<1>5. CASE CrashLosesJournal
  BY <1>5 DEF CrashLosesJournal, Leaves, Established
<1>6. CASE ~CrashLosesJournal
           /\ \/ OpenRefused \/ OpenFail \/ Close \/ CommitRecord \/ Compact
              \/ ReplaceCheckpoint \/ SyncDirectory \/ CompactTruncate \/ CompactHeader
              \/ CompactRecord \/ CompactSync \/ Fail \/ Kill \/ Crash
  BY <1>6 DEF OpenRefused, OpenFail, Close, CommitRecord, Compact, ReplaceCheckpoint,
              SyncDirectory, CompactTruncate, CompactHeader, CompactRecord, CompactSync,
              Fail, Kill, Crash, history
<1>. QED  BY <1>1, <1>2, <1>3, <1>4, <1>5, <1>6 DEF Next

LEMMA CheckpointsStayKnown ==
    ASSUME ~ShortWrites, StoreFits, CheckpointsKnown, [Next]_vars  PROVE CheckpointsKnown'
<1>0. StoreFits' /\ StoreFits
  BY StoreStep
<1>1. CASE UNCHANGED vars
  BY <1>1 DEF vars, CheckpointsKnown, CheckpointsAfterCrash, Doubt
<1>2. CASE Next /\ IsOpen' /\ confirmed' = state_'
  <2>1. /\ ckptDisk' \in Checkpoints /\ ckptPage' \in Checkpoints /\ state_' \in States
        /\ ckptDisk'.state.seq =< ckptPage'.state.seq /\ ckptPage'.state.seq =< state_'.seq
    BY <1>0, <1>2 DEF StoreFits, TypeOK, FilesFit, StateFits
  <2>2. /\ ckptDisk'.state.seq \in Nat /\ ckptPage'.state.seq \in Nat
        /\ state_'.seq \in Nat
    BY <2>1, ItemTypes
  <2>3. ckptDisk'.state.seq =< state_'.seq
    BY <2>1, <2>2
  <2>. QED  BY <1>2, <2>1, <2>3 DEF CheckpointsKnown, CheckpointsAfterCrash
<1>3. CASE CrashLosesJournal
  BY <1>3 DEF CrashLosesJournal, Leaves, Established, CheckpointsKnown, CheckpointsAfterCrash,
              Doubt
<1>4. CASE Next /\ confirmed' = confirmed /\ inflight \subseteq inflight' /\ ~CrashLosesJournal
  <2>1. Doubt \subseteq Doubt'
    BY <1>4 DEF Doubt
  <2>2. CASE ReplaceCheckpoint
    <3>1. state_ \in Doubt
      BY <1>0, <2>2 DEF ReplaceCheckpoint, IsOpen, StoreFits, StateFits
    <3>2. ckptPage'.state = state_ /\ ckptDisk' = ckptDisk
      BY <2>2 DEF ReplaceCheckpoint
    <3>. QED  BY <1>4, <2>1, <3>1, <3>2 DEF CheckpointsKnown, CheckpointsAfterCrash
  <2>3. ASSUME CheckpointsAfterCrash' \subseteq CheckpointsAfterCrash  PROVE CheckpointsKnown'
    BY <1>4, <2>1, <2>3 DEF CheckpointsKnown
  <2>4. CASE SyncDirectory \/ Crash
    BY <2>3, <2>4 DEF SyncDirectory, Crash, Leaves, CheckpointsAfterCrash
  <2>5. CASE \/ Open \/ OpenRefused \/ OpenSync \/ OpenFail \/ Close \/ CommitRecord \/ CommitSync
             \/ Compact \/ CompactTruncate \/ CompactHeader \/ CompactRecord \/ CompactSync
             \/ Fail \/ Kill \/ \E v \in Values : CommitBegin(v)
    <3>1. UNCHANGED checkpoints
      BY <2>5 DEF Open, OpenRefused, OpenSync, OpenFail, Close, CommitRecord, CommitSync,
                  Compact, CompactTruncate, CompactHeader, CompactRecord, CompactSync, Fail,
                  Kill, CommitBegin, files, directory, checkpoints
    <3>. QED  BY <2>3, <3>1 DEF checkpoints, CheckpointsAfterCrash
  <2>. QED  BY <1>4, <2>2, <2>4, <2>5 DEF Next
<1>. QED  BY <1>0, <1>1, <1>2, <1>3, <1>4, Settles

-----------------------------------------------------------------------------
(* The replay loop. *)

\* What the replay loop goes over: no second header, and no Begin of a state that no
\* commit writes.
Formed(p) == \A i \in 2 .. Len(p) :
    p[i].type # "header" /\ (p[i].type = "begin" => p[i].seq # 0)

Held == [seq : Nat, val : Values \cup {NoValue}]
Locals == [open : Nat, pending : Held, state : Held, ambiguous : BOOLEAN, failed : BOOLEAN]
Covered(c, record) == c.present /\ record.seq =< c.state.seq

LEMMA HeldStates ==
    /\ States \subseteq Held
    /\ \A e \in Items : State(e.seq, e.val) \in Held /\ e.seq \in Nat
<1>1. \A s \in States : s \in Held
  <2>1. \A s \in States : State(s.seq, s.val) \in Held
    BY ItemTypes DEF Held, State
  <2>. QED  BY <2>1, ItemTypes
<1>2. \A e \in Items : State(e.seq, e.val) \in Held /\ e.seq \in Nat
  BY JournalAssumption DEF Items, Held, State
<1>. QED  BY <1>1, <1>2

\* What a turn of the loop does with a record of each type.
LEMMA TurnOfLoop ==
    ASSUME NEW c \in Checkpoints, NEW loop \in Locals, NEW e \in Items,
           e.type \in {"begin", "commit", "checkpoint"}
    PROVE  LET turned == LoopBody(c, loop, e)
               begun == loop.open # 0
           IN  /\ turned \in Locals
               /\ loop.failed \/ Covered(c, e) => turned = loop
               /\ ~loop.failed /\ ~Covered(c, e) =>
                     /\ e.type = "checkpoint" =>
                           /\ turned.open = 0 /\ turned.state = State(e.seq, e.val)
                           /\ turned.ambiguous = (loop.ambiguous \/ begun) /\ ~turned.failed
                     /\ e.type = "begin" =>
                           /\ turned.open = e.seq /\ turned.pending = State(e.seq, e.val)
                           /\ turned.state = loop.state
                           /\ turned.ambiguous = (loop.ambiguous \/ begun) /\ ~turned.failed
                     /\ e.type = "commit" /\ loop.open = e.seq =>
                           /\ turned.open = 0 /\ turned.state = loop.pending
                           /\ turned.ambiguous = loop.ambiguous /\ ~turned.failed
<1>. DEFINE turned == LoopBody(c, loop, e)
            begun == loop.open # 0
            doubt == loop.ambiguous \/ begun
            new == State(e.seq, e.val)
<1>0. /\ loop.open \in Nat /\ loop.pending \in Held /\ loop.state \in Held
      /\ loop.ambiguous \in BOOLEAN /\ loop.failed \in BOOLEAN
      /\ new \in Held /\ e.seq \in Nat /\ doubt \in BOOLEAN
  BY HeldStates DEF Locals
<1>1. CASE loop.failed \/ Covered(c, e)
  <2>1. turned = loop
    BY <1>1 DEF LoopBody, Covered
  <2>. QED  BY <1>1, <2>1
<1>2. CASE ~loop.failed /\ ~Covered(c, e) /\ e.type = "checkpoint"
  <2>1. turned = [loop EXCEPT !.ambiguous = doubt, !.open = 0, !.state = new]
    BY <1>2 DEF LoopBody, Covered
  <2>. HIDE DEF doubt, new, turned
  <2>2. turned \in Locals /\ turned.open = 0 /\ turned.state = new /\ turned.ambiguous = doubt
        /\ turned.failed = loop.failed
    BY <1>0, <2>1 DEF Locals
  <2>. QED  BY <1>2, <2>2 DEF doubt, new, turned
<1>3. CASE ~loop.failed /\ ~Covered(c, e) /\ e.type = "begin"
  <2>1. turned = [loop EXCEPT !.ambiguous = doubt, !.open = e.seq, !.pending = new]
    BY <1>3 DEF LoopBody, Covered
  <2>. HIDE DEF doubt, new, turned
  <2>2. turned \in Locals /\ turned.open = e.seq /\ turned.pending = new
        /\ turned.state = loop.state /\ turned.ambiguous = doubt /\ turned.failed = loop.failed
    BY <1>0, <2>1 DEF Locals
  <2>. QED  BY <1>3, <2>2 DEF doubt, new, turned
<1>4. CASE ~loop.failed /\ ~Covered(c, e) /\ e.type = "commit" /\ loop.open = e.seq
  <2>1. turned = [loop EXCEPT !.state = loop.pending, !.open = 0]
    BY <1>4 DEF LoopBody, Covered
  <2>. HIDE DEF turned
  <2>2. turned \in Locals /\ turned.open = 0 /\ turned.state = loop.pending
        /\ turned.ambiguous = loop.ambiguous /\ turned.failed = loop.failed
    BY <1>0, <2>1 DEF Locals
  <2>. QED  BY <1>4, <2>2 DEF turned
<1>5. CASE ~loop.failed /\ ~Covered(c, e) /\ e.type = "commit" /\ loop.open # e.seq
  <2>1. turned = [loop EXCEPT !.failed = TRUE]
    BY <1>5 DEF LoopBody, Covered
  <2>. HIDE DEF turned
  <2>2. turned \in Locals
    BY <1>0, <2>1 DEF Locals
  <2>. QED  BY <1>5, <2>2 DEF turned
<1>. QED  BY <1>1, <1>2, <1>3, <1>4, <1>5

\* The loop goes over the records behind the header one by one.
LEMMA LoopRuns ==
    ASSUME NEW p \in Seq(Items), NEW c \in Checkpoints, p # << >>, Formed(p), Intact(p)
    PROVE  \E h : /\ h[0] = Start(c) /\ Loop(p, c) = h[Len(p) - 1]
                  /\ \A k \in 1 .. Len(p) - 1 : h[k] = LoopBody(c, h[k - 1], p[k + 1])
<1>. DEFINE n == Len(p) - 1
            S == 1 .. n
            Turn(s, g) == LoopBody(c, g[s \ {Max(s)}], Tail(p)[Max(s)])
            pick == [s \in SUBSET S |-> Max(s)]
            step == [a \in S \X Locals |-> LoopBody(c, a[2], p[a[1] + 1])]
            f == CHOOSE f : f = [s \in SUBSET S |-> IF s = {} THEN Start(c) ELSE Turn(s, f)]
<1>1. /\ DOMAIN p = 1 .. n + 1 /\ n \in Nat /\ Len(Tail(p)) = n /\ DOMAIN Tail(p) = S
      /\ \A i \in S : Tail(p)[i] = p[i + 1] /\ i + 1 \in 2 .. Len(p) /\ i + 1 \in DOMAIN p
  <2>1. Len(p) \in Nat /\ Len(p) > 0 /\ DOMAIN p = 1 .. Len(p)
    BY EmptySeq, Beginning DEF Positions
  <2>2. /\ Tail(p) \in Seq(Items) /\ Len(Tail(p)) = Len(p) - 1
        /\ \A i \in 1 .. Len(Tail(p)) : Tail(p)[i] = p[i + 1]
    BY HeadTailProperties
  <2>3. DOMAIN Tail(p) = 1 .. Len(Tail(p))
    BY <2>2, Beginning DEF Positions
  <2>. QED  BY <2>1, <2>2, <2>3
<1>2. Loop(p, c) = f[S]
  BY <1>1 DEF Loop, FoldLeft, MapThenFoldSet
<1>3. \A i \in S : p[i + 1] \in Items /\ p[i + 1].type \in {"begin", "commit", "checkpoint"}
  <2>1. \A i \in DOMAIN p : p[i] \in Items /\ p[i].type # "torn"
    <3>1. \A i \in DOMAIN p : p[i] \in Items
      BY Beginning DEF Positions
    <3>. QED  BY <3>1 DEF Intact
  <2>2. \A e \in Items : e.type \in {"header", "torn", "begin", "commit", "checkpoint"}
    BY DEF Items
  <2>3. \A i \in 2 .. Len(p) : p[i].type # "header"
    BY DEF Formed
  <2>4. \A i \in DOMAIN p : i \in 2 .. Len(p) =>
           p[i] \in Items /\ p[i].type \in {"begin", "commit", "checkpoint"}
    BY <2>1, <2>2, <2>3
  <2>5. \A i \in S : i + 1 \in DOMAIN p /\ i + 1 \in 2 .. Len(p)
    BY <1>1
  <2>. HIDE DEF S, n
  <2>. QED  BY <2>4, <2>5
<1>4. \A s \in SUBSET S : s # {} => pick[s] \in s /\ pick[s] = Max(s)
  <2>1. IsFiniteSet(S) /\ S \subseteq Nat
    BY SMTT(30), <1>1, FS_Interval
  <2>2. \A s \in SUBSET S : IsFiniteSet(s) /\ s \subseteq Nat
    <3>. HIDE DEF S
    <3>. QED  BY <2>1, FS_Subset
  <2>3. \A s \in SUBSET S : s # {} => Max(s) \in s
    BY <2>2, MaxIsOne
  <2>. HIDE DEF S
  <2>. QED  BY <2>3
<1>5. step \in [S \X Locals -> Locals]
  <2>1. \A i \in S : \A loop \in Locals : LoopBody(c, loop, p[i + 1]) \in Locals
    BY <1>3, TurnOfLoop
  <2>. HIDE DEF S, Locals
  <2>. QED  BY <2>1
<1>6. Start(c) \in Locals
  <2>1. Initial \in Held /\ c.state \in Held
    BY HeldStates, ItemTypes
  <2>. QED  BY <2>1 DEF Start, Locals
<1>7. IsFiniteSet(S)
  BY <1>1, FS_Interval
<1>. HIDE DEF step, pick
<1>8. PICK g \in [SUBSET S -> Locals] : FoldsBy(g, S, pick, step, Start(c))
  <2>. HIDE DEF S
  <2>. QED  BY <1>4, <1>5, <1>6, <1>7, FoldExists
<1>9. ASSUME NEW s \in SUBSET S, s # {}
      PROVE  step[<<pick[s], g[s \ {pick[s]}]>>] = Turn(s, g)
  <2>1. pick[s] = Max(s) /\ Max(s) \in S /\ s \ {Max(s)} \in SUBSET S
    BY <1>4, <1>9
  <2>2. g[s \ {Max(s)}] \in Locals
    BY <1>8, <2>1
  <2>3. step[<<Max(s), g[s \ {Max(s)}]>>] = LoopBody(c, g[s \ {Max(s)}], p[Max(s) + 1])
    BY <2>1, <2>2 DEF step
  <2>. QED  BY <1>1, <2>1, <2>3
<1>10. g = [s \in SUBSET S |-> IF s = {} THEN Start(c) ELSE Turn(s, g)]
  <2>. HIDE DEF Turn, S
  <2>. QED  BY <1>8, <1>9 DEF FoldsBy
<1>11. f = [s \in SUBSET S |-> IF s = {} THEN Start(c) ELSE Turn(s, f)]
  BY <1>10
<1>. HIDE DEF f
<1>. DEFINE h == [k \in 0 .. n |-> f[1 .. k]]
<1>12. h[0] = Start(c) /\ Loop(p, c) = h[n]
  <2>1. 1 .. 0 = {} /\ 0 \in 0 .. n /\ n \in 0 .. n
    BY <1>1
  <2>2. f[{}] = Start(c)
    BY <1>11
  <2>. QED  BY <1>2, <2>1, <2>2
<1>13. ASSUME NEW k \in S  PROVE h[k] = LoopBody(c, h[k - 1], p[k + 1])
  <2>1. /\ 1 .. k \in SUBSET S /\ 1 .. k # {} /\ k - 1 \in 0 .. n /\ k \in 0 .. n
        /\ (1 .. k) \ {k} = 1 .. k - 1
    <3>1. \A m \in Nat : \A i \in 1 .. m : /\ 1 .. i \subseteq 1 .. m /\ i \in 1 .. i
                                          /\ i - 1 \in 0 .. m /\ i \in 0 .. m
      OBVIOUS
    <3>2. \A i \in Nat : (1 .. i) \ {i} = 1 .. i - 1
      OBVIOUS
    <3>. QED  BY <1>1, <3>1, <3>2
  <2>2. Max(1 .. k) = k
    <3>1. IsFiniteSet(1 .. k) /\ 1 .. k \subseteq Nat /\ k \in 1 .. k
      BY <1>1, FS_Interval
    <3>2. Max(1 .. k) \in 1 .. k /\ \A i \in 1 .. k : Max(1 .. k) >= i
      BY <2>1, <3>1, MaxIsOne
    <3>. QED  BY <3>1, <3>2
  <2>3. f[1 .. k] = Turn(1 .. k, f)
    BY <1>11, <2>1
  <2>4. f[1 .. k] = LoopBody(c, f[1 .. k - 1], Tail(p)[k])
    BY <2>1, <2>2, <2>3
  <2>. QED  BY <1>1, <2>1, <2>4
<1>. QED  BY <1>12, <1>13

\* Of records in order, what follows a live one is live.
LEMMA LiveGoesOn ==
    ASSUME NEW p \in Seq(Items), NEW c \in Checkpoints, InOrder(p),
           NEW i \in Live(p, c), NEW k \in 2 .. Len(p), i =< k
    PROVE  k \in Live(p, c) /\ ~Covered(c, p[k])
<1>1. DOMAIN p = 1 .. Len(p) /\ Len(p) \in Nat /\ i \in 2 .. Len(p)
  BY Beginning DEF Positions, Live
<1>2. i \in DOMAIN p /\ k \in DOMAIN p
  BY <1>1
<1>3. p[i].seq =< p[k].seq
  BY <1>2 DEF InOrder
<1>4. p[i].seq \in Nat /\ p[k].seq \in Nat /\ c.state.seq \in Nat
  BY <1>1, <1>2, ItemTypes
<1>5. ~(c.present /\ p[i].seq =< c.state.seq)
  BY DEF Live
<1>6. ~(c.present /\ p[k].seq =< c.state.seq)
  BY <1>3, <1>4, <1>5
<1>. QED  BY <1>6 DEF Live, Covered

\* What the locals of the loop say of the first k records.
Opened(p, c, k) == k \in Live(p, c) /\ p[k].type = "begin"
Forsaken(p, c, i) == Opened(p, c, i) /\ p[i + 1].type # "commit"
Reaches(p, c, k, s) ==
    /\ (\A i \in Installing(p, c) : k < i) => s = c.state
    /\ \A i \in Installing(p, c) :
          i =< k /\ (\A m \in Installing(p, c) : m =< k => m =< i) => s = StateAt(p, i)
Tracks(p, c, k, loop) ==
    /\ loop \in Locals /\ ~loop.failed
    /\ loop.open = IF Opened(p, c, k) THEN p[k].seq ELSE 0
    /\ Opened(p, c, k) => loop.pending = State(p[k].seq, p[k].val)
    /\ loop.ambiguous <=> \E i \in 1 .. k - 1 : Forsaken(p, c, i)
    /\ Reaches(p, c, k, loop.state)

LEMMA LoopTracks ==
    ASSUME NEW p \in Seq(Items), NEW c \in Checkpoints,
           Paired(p), InOrder(p), Formed(p), Intact(p), p # << >>, p[1] = Header,
           NEW k \in 1 .. Len(p) - 1, NEW loop, Tracks(p, c, k, loop)
    PROVE  Tracks(p, c, k + 1, LoopBody(c, loop, p[k + 1]))
<1>. DEFINE e == p[k + 1]
            turned == LoopBody(c, loop, e)
            Reads == {"begin", "commit", "checkpoint"}
<1>0. /\ Len(p) \in Nat /\ DOMAIN p = 1 .. Len(p) /\ k \in Nat /\ k + 1 \in Nat /\ k + 1 - 1 = k
      /\ k \in 1 .. k /\ k \in 1 .. Len(p) /\ k + 1 \in 2 .. Len(p) /\ k + 1 \in DOMAIN p /\ k < k + 1
      /\ \A i \in Nat : (i =< k + 1 <=> i =< k \/ i = k + 1) /\ (k < i <=> ~(i =< k))
                        /\ (k + 1 < i <=> ~(i =< k + 1))
      /\ \A i : i \in 1 .. k <=> i \in 1 .. k - 1 \/ i = k
  BY Beginning DEF Positions
<1>1. e \in Items /\ e.type \in Reads /\ (e.type = "begin" => e.seq # 0)
  <2>1. e \in Items /\ e.type # "torn"
    BY <1>0 DEF Intact
  <2>2. e.type # "header" /\ (e.type = "begin" => e.seq # 0)
    BY <1>0 DEF Formed
  <2>3. e.type \in {"header", "torn", "begin", "commit", "checkpoint"}
    BY <2>1 DEF Items
  <2>. QED  BY <2>1, <2>2, <2>3
<1>2. loop \in Locals /\ ~loop.failed
  BY DEF Tracks
<1>3. \A i \in Live(p, c) : i \in Nat /\ i \in 2 .. Len(p)
  BY <1>0 DEF Live
<1>4. k + 1 \in Live(p, c) <=> ~Covered(c, e)
  BY <1>0 DEF Live, Covered
<1>5. \A i \in Installing(p, c) : i \in Live(p, c) /\ p[i].type \in {"commit", "checkpoint"}
  BY DEF Installing
\* A Begin left open is forsaken by whatever follows it but a Commit.
<1>6. Opened(p, c, k) <=> loop.open # 0
  <2>1. Opened(p, c, k) => k \in 2 .. Len(p) /\ p[k].type = "begin"
    BY <1>3 DEF Opened
  <2>2. Opened(p, c, k) => p[k].seq # 0
    BY <2>1 DEF Formed
  <2>. QED  BY <2>2 DEF Tracks
<1>7. turned \in Locals
  BY <1>1, <1>2, TurnOfLoop
<1>. DEFINE Follows(t) ==
                /\ t \in Locals /\ ~t.failed
                /\ \/ ~Opened(p, c, k + 1) /\ t.open = 0
                   \/ Opened(p, c, k + 1) /\ t.open = e.seq /\ t.pending = State(e.seq, e.val)
                /\ t.ambiguous <=> \E i \in 1 .. k : Forsaken(p, c, i)
                /\ Reaches(p, c, k + 1, t.state)
<1>12. Follows(turned) => Tracks(p, c, k + 1, turned)
  <2>. HIDE DEF turned
  <2>. QED  BY <1>0 DEF Tracks
<1>8. CASE Covered(c, e)
  <2>1. turned = loop
    BY <1>1, <1>2, <1>8, TurnOfLoop
  <2>2. \A i \in Live(p, c) : ~(i =< k + 1)
    BY <1>0, <1>8, LiveGoesOn
  <2>3. ~Opened(p, c, k) /\ ~Opened(p, c, k + 1)
    BY <1>0, <1>3, <2>2 DEF Opened
  <2>4. \A i \in 1 .. k : ~Forsaken(p, c, i)
    BY <1>0, <1>3, <2>2 DEF Forsaken, Opened
  <2>5. ~loop.ambiguous
    <3>1. \A i \in 1 .. k - 1 : ~Forsaken(p, c, i)
      BY <1>0, <2>4
    <3>. QED  BY <3>1 DEF Tracks
  <2>6. loop.state = c.state /\ \A i \in Installing(p, c) : ~(i =< k + 1)
    <3>1. \A i \in Installing(p, c) : ~(i =< k + 1) /\ k < i
      BY <1>0, <1>3, <1>5, <2>2
    <3>. QED  BY <3>1 DEF Tracks, Reaches
  <2>7. loop.open = 0
    BY <1>6, <2>3
  <2>8. Reaches(p, c, k + 1, loop.state)
    BY <2>6 DEF Reaches
  <2>9. Follows(loop)
    BY <1>2, <2>3, <2>4, <2>5, <2>7, <2>8
  <2>. HIDE DEF Follows
  <2>. QED  BY <1>12, <2>1, <2>9
<1>9. CASE ~Covered(c, e) /\ e.type = "checkpoint"
  <2>1. /\ turned.open = 0 /\ turned.state = State(e.seq, e.val)
        /\ turned.ambiguous = (loop.ambiguous \/ loop.open # 0) /\ ~turned.failed
    BY <1>1, <1>2, <1>9, TurnOfLoop
  <2>2. ~Opened(p, c, k + 1)
    BY <1>9 DEF Opened
  <2>3. turned.ambiguous <=> \E i \in 1 .. k : Forsaken(p, c, i)
    <3>1. Forsaken(p, c, k) <=> Opened(p, c, k)
      BY <1>9 DEF Forsaken
    <3>2. loop.ambiguous <=> \E i \in 1 .. k - 1 : Forsaken(p, c, i)
      BY DEF Tracks
    <3>. QED  BY <1>0, <1>6, <2>1, <3>1, <3>2
  <2>4. k + 1 \in Installing(p, c)
    BY <1>4, <1>9 DEF Installing
  <2>5. StateAt(p, k + 1) = State(e.seq, e.val)
    BY <1>9 DEF StateAt, From
  <2>6. \A i \in Installing(p, c) :
           i =< k + 1 /\ (\A m \in Installing(p, c) : m =< k + 1 => m =< i) => i = k + 1
    BY <1>0, <1>3, <1>5, <2>4
  <2>7. Reaches(p, c, k + 1, turned.state)
    <3>. HIDE DEF turned
    <3>. QED  BY <1>0, <2>1, <2>2, <2>3, <2>4, <2>5, <2>6 DEF Reaches
  <2>8. Follows(turned)
    BY <1>7, <2>1, <2>2, <2>3, <2>7
  <2>. HIDE DEF Follows
  <2>. QED  BY <1>12, <2>8
<1>10. CASE ~Covered(c, e) /\ e.type = "begin"
  <2>1. /\ turned.open = e.seq /\ turned.pending = State(e.seq, e.val) /\ turned.state = loop.state
        /\ turned.ambiguous = (loop.ambiguous \/ loop.open # 0) /\ ~turned.failed
    BY <1>1, <1>2, <1>10, TurnOfLoop
  <2>2. Opened(p, c, k + 1)
    BY <1>4, <1>10 DEF Opened
  <2>3. turned.ambiguous <=> \E i \in 1 .. k : Forsaken(p, c, i)
    <3>1. Forsaken(p, c, k) <=> Opened(p, c, k)
      BY <1>10 DEF Forsaken
    <3>2. loop.ambiguous <=> \E i \in 1 .. k - 1 : Forsaken(p, c, i)
      BY DEF Tracks
    <3>. QED  BY <1>0, <1>6, <2>1, <3>1, <3>2
  <2>4. k + 1 \notin Installing(p, c)
    BY <1>10 DEF Installing
  <2>5. Reaches(p, c, k + 1, turned.state)
    <3>1. \A i \in Installing(p, c) : i \in Nat /\ (i =< k + 1 <=> i =< k) /\ (k + 1 < i <=> k < i)
      BY <1>0, <1>3, <1>5, <2>4
    <3>. HIDE DEF turned
    <3>. QED  BY <2>1, <3>1 DEF Tracks, Reaches
  <2>6. Follows(turned)
    BY <1>7, <2>1, <2>2, <2>3, <2>5
  <2>. HIDE DEF Follows
  <2>. QED  BY <1>12, <2>6
<1>11. CASE ~Covered(c, e) /\ e.type = "commit"
  <2>1. k + 1 \in Live(p, c)
    BY <1>4, <1>11
  <2>2. p[k].type = "begin" /\ p[k].seq = e.seq /\ k \in 2 .. Len(p)
    <3>1. p[k + 1 - 1].type = "begin" /\ p[k + 1 - 1].seq = e.seq /\ k + 1 - 1 \in 2 .. Len(p)
      BY <1>11, <2>1, PairsCloses
    <3>. QED  BY <1>0, <3>1
  <2>3. Opened(p, c, k)
    BY <1>11, <2>2 DEF Opened, Live, Covered
  <2>4. loop.open = e.seq /\ loop.pending = State(p[k].seq, p[k].val)
    BY <2>2, <2>3 DEF Tracks
  <2>5. /\ turned.open = 0 /\ turned.state = State(p[k].seq, p[k].val)
        /\ turned.ambiguous = loop.ambiguous /\ ~turned.failed
    BY <1>1, <1>2, <1>11, <2>4, TurnOfLoop
  <2>6. ~Opened(p, c, k + 1)
    BY <1>11 DEF Opened
  <2>7. turned.ambiguous <=> \E i \in 1 .. k : Forsaken(p, c, i)
    <3>1. ~Forsaken(p, c, k)
      BY <1>11 DEF Forsaken
    <3>2. loop.ambiguous <=> \E i \in 1 .. k - 1 : Forsaken(p, c, i)
      BY DEF Tracks
    <3>. QED  BY <1>0, <2>5, <3>1, <3>2
  <2>8. k + 1 \in Installing(p, c)
    BY <1>11, <2>1 DEF Installing
  <2>9. StateAt(p, k + 1) = State(p[k].seq, p[k].val)
    BY <1>0, <1>11 DEF StateAt, From
  <2>10. \A i \in Installing(p, c) :
           i =< k + 1 /\ (\A m \in Installing(p, c) : m =< k + 1 => m =< i) => i = k + 1
    BY <1>0, <1>3, <1>5, <2>8
  <2>11. Reaches(p, c, k + 1, turned.state)
    <3>. HIDE DEF turned
    <3>. QED  BY <1>0, <2>5, <2>8, <2>9, <2>10 DEF Reaches
  <2>12. Follows(turned)
    BY <1>7, <2>5, <2>6, <2>7, <2>11
  <2>. HIDE DEF Follows
  <2>. QED  BY <1>12, <2>12
<1>. QED  BY <1>1, <1>8, <1>9, <1>10, <1>11

\* Of records in order the closed form of the doubt is a Begin that is forsaken or last.
LEMMA DoubtIsForsaken ==
    ASSUME NEW p \in Seq(Items), NEW c \in Checkpoints, InOrder(p), p # << >>
    PROVE  Ambiguous(p, c) <=> \/ \E i \in 1 .. Len(p) - 1 : Forsaken(p, c, i)
                               \/ Opened(p, c, Len(p))
<1>0. /\ Len(p) \in Nat /\ Len(p) > 0 /\ DOMAIN p = 1 .. Len(p)
      /\ \A i \in Live(p, c) : i \in 2 .. Len(p) /\ i \in Nat
  BY EmptySeq, Beginning DEF Positions, Live
<1>1. Following(p, c, Len(p)) = {}
  BY <1>0 DEF Following
<1>2. ASSUME NEW i \in Live(p, c), i # Len(p)
      PROVE  i \in 1 .. Len(p) - 1 /\ Following(p, c, i) = {i + 1}
  <2>1. i \in 1 .. Len(p) - 1 /\ i + 1 \in 2 .. Len(p) /\ i =< i + 1 /\ i < i + 1
    BY <1>0, <1>2
  <2>2. i + 1 \in Live(p, c)
    BY <2>1, LiveGoesOn
  <2>3. \A m \in Live(p, c) : i < m => i + 1 =< m
    <3>1. \A m \in Nat : i < m => i + 1 =< m
      BY <1>0
    <3>. QED  BY <1>0, <3>1
  <2>4. i + 1 \in Following(p, c, i)
    BY <2>1, <2>2, <2>3 DEF Following
  <2>5. \A m \in Following(p, c, i) : m = i + 1
    <3>1. \A m \in Following(p, c, i) : m \in Live(p, c) /\ i < m /\ m =< i + 1
      BY <2>1, <2>2 DEF Following
    <3>2. \A m \in Nat : i + 1 =< m /\ m =< i + 1 => m = i + 1
      BY <1>0
    <3>. QED  BY <1>0, <2>3, <3>1, <3>2
  <2>. QED  BY <2>1, <2>4, <2>5
<1>3. \A i \in 1 .. Len(p) - 1 : i # Len(p)
  <2>1. \A n \in Nat : \A i \in 1 .. n - 1 : i # n
    OBVIOUS
  <2>. QED  BY <1>0, <2>1
<1>4. ASSUME Ambiguous(p, c)
      PROVE  \/ \E i \in 1 .. Len(p) - 1 : Forsaken(p, c, i)
             \/ Opened(p, c, Len(p))
  <2>1. PICK i \in Live(p, c) : p[i].type = "begin"
                               /\ \A m \in Following(p, c, i) : p[m].type # "commit"
    BY <1>4 DEF Ambiguous
  <2>2. CASE i = Len(p)
    BY <2>1, <2>2 DEF Opened
  <2>3. CASE i # Len(p)
    BY <1>2, <2>1, <2>3 DEF Forsaken, Opened
  <2>. QED  BY <2>2, <2>3
<1>5. ASSUME NEW i \in 1 .. Len(p) - 1, Forsaken(p, c, i)  PROVE Ambiguous(p, c)
  <2>1. i \in Live(p, c) /\ p[i].type = "begin" /\ p[i + 1].type # "commit"
    BY <1>5 DEF Forsaken, Opened
  <2>2. Following(p, c, i) = {i + 1}
    BY <1>2, <1>3, <2>1
  <2>. QED  BY <2>1, <2>2 DEF Ambiguous
<1>6. ASSUME Opened(p, c, Len(p))  PROVE Ambiguous(p, c)
  BY <1>1, <1>6 DEF Opened, Ambiguous
<1>. QED  BY <1>4, <1>5, <1>6

\* The loop recovers and doubts what the closed form says, and refuses nothing.
LEMMA LoopIsReplay ==
    ASSUME NEW p \in Seq(Items), NEW c \in Checkpoints,
           Paired(p), InOrder(p), Formed(p), Intact(p), p # << >>, p[1] = Header
    PROVE  /\ ~Loop(p, c).failed /\ Loop(p, c).state = Replayed(p, c)
           /\ (Loop(p, c).ambiguous \/ Loop(p, c).open # 0) <=> Ambiguous(p, c)
<1>. DEFINE last == Len(p)
<1>0. /\ last \in Nat /\ last > 0 /\ DOMAIN p = 1 .. last /\ last \in 1 .. last
      /\ \A i \in Live(p, c) : i \in 2 .. last /\ i \in Nat
  BY EmptySeq, Beginning DEF Positions, Live
<1>. HIDE DEF last
<1>1. PICK h : /\ h[0] = Start(c) /\ Loop(p, c) = h[last - 1]
               /\ \A k \in 1 .. last - 1 : h[k] = LoopBody(c, h[k - 1], p[k + 1])
  BY LoopRuns DEF last
<1>2. Tracks(p, c, 1, h[0])
  <2>1. \A i \in Installing(p, c) : 1 < i
    BY <1>0 DEF Installing
  <2>2. Start(c) \in Locals
    <3>1. Initial \in Held /\ c.state \in Held
      BY HeldStates, ItemTypes
    <3>. QED  BY <3>1 DEF Start, Locals
  <2>3. ~Opened(p, c, 1)
    BY <1>0 DEF Opened
  <2>4. Reaches(p, c, 1, c.state)
    BY <1>0, <2>1 DEF Reaches, Installing
  <2>5. /\ Start(c).open = 0 /\ Start(c).state = c.state /\ ~Start(c).ambiguous /\ ~Start(c).failed
    BY DEF Start
  <2>. QED  BY <1>1, <2>2, <2>3, <2>4, <2>5 DEF Tracks
<1>. DEFINE Good == {k \in Nat : k =< last - 1 => Tracks(p, c, k + 1, h[k])}
<1>3. 0 \in Good
  BY <1>2
<1>4. ASSUME NEW k \in Nat, k \in Good  PROVE  k + 1 \in Good
  <2>1. SUFFICES ASSUME k + 1 =< last - 1  PROVE Tracks(p, c, k + 1 + 1, h[k + 1])
    OBVIOUS
  <2>2. k =< last - 1 /\ k + 1 \in 1 .. last - 1 /\ k + 1 - 1 = k
    BY <1>0, <2>1
  <2>3. Tracks(p, c, k + 1, h[k])
    BY <1>4, <2>2
  <2>4. h[k + 1] = LoopBody(c, h[k], p[k + 1 + 1])
    BY <1>1, <2>2
  <2>. QED  BY <2>2, <2>3, <2>4, LoopTracks DEF last
<1>5. Tracks(p, c, last, Loop(p, c))
  <2>1. Nat \subseteq Good
    <3>. HIDE DEF Good
    <3>. QED  BY <1>3, <1>4, CountingUp
  <2>2. last - 1 \in Nat /\ last - 1 + 1 = last /\ last - 1 =< last - 1
    BY <1>0
  <2>3. Tracks(p, c, last - 1 + 1, h[last - 1])
    BY <2>1, <2>2
  <2>. QED  BY <1>1, <2>2, <2>3
<1>6. Loop(p, c).state = Replayed(p, c)
  <2>1. \A i \in Installing(p, c) : i =< last /\ ~(last < i)
    BY <1>0 DEF Installing
  <2>2. Readable(p)
    BY DEF Readable
  <2>3. CASE Installing(p, c) = {}
    BY <1>5, <2>2, <2>3, ReplayEnds DEF Tracks, Reaches
  <2>4. CASE Installing(p, c) # {}
    <3>1. PICK i \in Installing(p, c) : \A k \in Installing(p, c) : k =< i
      BY <2>2, <2>4, ReplayEnds
    <3>2. Replayed(p, c) = StateAt(p, i)
      BY <2>2, <3>1, ReplayEnds
    <3>. QED  BY <1>5, <2>1, <3>1, <3>2 DEF Tracks, Reaches
  <2>. QED  BY <2>3, <2>4
<1>7. Loop(p, c).open # 0 <=> Opened(p, c, last)
  <2>1. Opened(p, c, last) => last \in 2 .. Len(p) /\ p[last].type = "begin"
    BY <1>0 DEF Opened, last
  <2>2. Opened(p, c, last) => p[last].seq # 0
    BY <2>1 DEF Formed
  <2>. QED  BY <1>5, <2>2 DEF Tracks
<1>8. Loop(p, c).ambiguous <=> \E i \in 1 .. last - 1 : Forsaken(p, c, i)
  BY <1>5 DEF Tracks
<1>. QED  BY <1>5, <1>6, <1>7, <1>8, DoubtIsForsaken DEF Tracks, last

-----------------------------------------------------------------------------
(* The files hold no record the loop does not know. *)

FilesFormed == Formed(disk) /\ Formed(page)

LEMMA FormedShorter ==
    ASSUME NEW p \in Seq(Items), Formed(p), NEW k \in 0 .. Len(p)
    PROVE  Formed(SubSeq(p, 1, k))
<1>1. Len(SubSeq(p, 1, k)) = k /\ \A i \in 1 .. k : SubSeq(p, 1, k)[i] = p[i]
  BY Beginning
<1>2. Len(p) \in Nat /\ \A i \in 2 .. k : i \in 1 .. k /\ i \in 2 .. Len(p)
  BY Beginning
<1>. QED  BY <1>1, <1>2 DEF Formed

LEMMA FormedLonger ==
    ASSUME NEW p \in Seq(Items), Formed(p), NEW e \in Items,
           p = << >> \/ (e.type # "header" /\ (e.type = "begin" => e.seq # 0))
    PROVE  Formed(Append(p, e))
<1>1. /\ Len(Append(p, e)) = Len(p) + 1 /\ Append(p, e)[Len(p) + 1] = e /\ Len(p) \in Nat
      /\ \A i \in 1 .. Len(p) : Append(p, e)[i] = p[i]
  BY Longer
<1>2. CASE p = << >>
  BY <1>1, <1>2, EmptySeq DEF Formed
<1>3. CASE e.type # "header" /\ (e.type = "begin" => e.seq # 0)
  <2>1. \A i \in 2 .. Len(p) + 1 : i = Len(p) + 1 \/ (i \in 1 .. Len(p) /\ i \in 2 .. Len(p))
    BY <1>1
  <2>. QED  BY <1>1, <1>3, <2>1 DEF Formed
<1>. QED  BY <1>2, <1>3

LEMMA FormedKept ==
    ASSUME NEW p \in Seq(Items), Formed(p), NEW k \in 0 .. Len(p), NEW j \in Keeps(p, k)
    PROVE  Formed(j)
<1>1. SubSeq(p, 1, k) \in Seq(Items) /\ Formed(SubSeq(p, 1, k))
  BY Beginning, FormedShorter
<1>2. Formed(Append(SubSeq(p, 1, k), Torn))
  BY <1>1, RecordTypes, FormedLonger
<1>. QED  BY <1>1, <1>2 DEF Keeps

LEMMA FormedAfterCrash ==
    ASSUME TypeOK, FilesFormed, NEW j \in ContentsAfterCrash
    PROVE  Formed(j)
<1>1. \A k \in kept .. Len(page) : k \in 0 .. Len(page)
  BY Beginning DEF TypeOK
<1>2. \A k \in kept .. Len(page) : \A i \in Keeps(page, k) : Formed(i)
  BY <1>1, FormedKept DEF FilesFormed, TypeOK
<1>. QED  BY <1>2 DEF ContentsAfterCrash, FilesFormed

LEMMA ScannedFormed ==
    ASSUME NEW j \in Seq(Items), TornLast(j), Formed(j)
    PROVE  Formed(ValidPrefix(j)) /\ Len(ValidPrefix(j)) \in 0 .. Len(j)
           /\ ValidPrefix(j) = SubSeq(j, 1, Len(ValidPrefix(j)))
<1>1. Len(j) \in Nat /\ \A k \in 0 .. Len(j) : Len(SubSeq(j, 1, k)) = k
  BY Beginning
<1>2. ScanEnd(j) \in 0 .. Len(j)
  <2>1. \A n \in Nat : n \in 0 .. n /\ (n > 0 => n - 1 \in 0 .. n)
    OBVIOUS
  <2>. QED  BY <1>1, <2>1, ScanStops
<1>. QED  BY <1>1, <1>2, FormedShorter DEF ValidPrefix

LEMMA FormedStep ==
    ASSUME ~ShortWrites, StoreFits, FilesFormed, [Next]_vars  PROVE FilesFormed'
<1>0. TypeOK /\ disk \in Seq(Items) /\ page \in Seq(Items) /\ TornLast(page)
      /\ state_ \in States /\ next \in States
  BY DEF StoreFits, FilesFit, TypeOK
<1>1. ASSUME NEW e \in Items, page' = Append(page, e), UNCHANGED disk,
             page = << >> \/ (e.type # "header" /\ (e.type = "begin" => e.seq # 0))
      PROVE  FilesFormed'
  BY <1>0, <1>1, FormedLonger DEF FilesFormed
<1>2. ASSUME NEW n \in 0 .. Len(page), Truncate(n)  PROVE FilesFormed'
  BY <1>0, <1>2, FormedShorter DEF FilesFormed, Truncate
<1>3. UNCHANGED <<disk, page>> => FilesFormed'
  BY DEF FilesFormed
<1>4. Sync => FilesFormed'
  BY DEF FilesFormed, Sync
<1>5. CASE Open
  <2>1. PICK r \in Recoveries(page, ckptPage) :
           /\ Usable(r)
           /\ \/ page = << >> /\ Write(Header)
              \/ Truncate(Len(r.journal))
              \/ NoFileOp
    BY <1>5 DEF Open
  <2>2. r.journal = ValidPrefix(page)
    BY <2>1, OpensSoundly
  <2>3. Len(ValidPrefix(page)) \in 0 .. Len(page)
    BY <1>0, ScannedFormed DEF FilesFormed
  <2>. QED  BY <1>1, <1>2, <1>3, <2>1, <2>2, <2>3, RecordTypes DEF Write, NoFileOp
<1>6. CASE OpenSync \/ CommitSync \/ CompactSync
  BY <1>4, <1>6 DEF OpenSync, CommitSync, CompactSync
<1>7. ASSUME NEW v \in Values, CommitBegin(v)  PROVE FilesFormed'
  <2>1. page' = Append(page, Begin(next')) /\ UNCHANGED disk /\ next' = State(state_.seq + 1, v)
    BY <1>7 DEF CommitBegin, Write
  <2>2. next' \in States /\ next'.seq # 0
    <3>1. TypeOK'
      BY <1>7, TypesKept DEF Next
    <3>2. state_.seq \in Nat
      BY <1>0, ItemTypes
    <3>. QED  BY <2>1, <3>1, <3>2 DEF TypeOK, State
  <2>. QED  BY <1>1, <2>1, <2>2, RecordTypes
<1>8. CASE CommitRecord
  BY <1>0, <1>1, <1>8, RecordTypes DEF CommitRecord, Write
<1>9. CASE CompactRecord
  BY <1>0, <1>1, <1>9, RecordTypes DEF CompactRecord, Write
<1>10. CASE CompactTruncate
  <2>1. 0 \in 0 .. Len(page)
    BY <1>0, Beginning
  <2>. QED  BY <1>2, <1>10, <2>1 DEF CompactTruncate
<1>11. CASE CompactHeader
  <2>1. page = << >>
    BY <1>11 DEF CompactHeader, StoreFits, PlaceFits
  <2>. QED  BY <1>1, <1>11, <2>1, RecordTypes DEF CompactHeader
<1>12. CASE \/ OpenRefused \/ OpenFail \/ Close \/ Compact \/ ReplaceCheckpoint \/ SyncDirectory
            \/ Fail \/ UNCHANGED vars
  BY <1>3, <1>12 DEF OpenRefused, OpenFail, Close, Compact, ReplaceCheckpoint, SyncDirectory,
                     Fail, files, vars, NoFileOp
<1>13. CASE Kill
  <2>1. PICK k \in flushed .. Len(page) : page' \in Keeps(page, k)
    BY <1>13 DEF Kill, JournalsAfterKill
  <2>2. k \in 0 .. Len(page)
    BY <1>0, <2>1, Beginning DEF TypeOK
  <2>3. Formed(page')
    BY <1>0, <2>1, <2>2, FormedKept DEF FilesFormed
  <2>. QED  BY <1>13, <2>3 DEF Kill, FilesFormed
<1>14. CASE Crash
  <2>1. PICK j \in ContentsAfterCrash : disk' = j /\ page' = j
    BY <1>14 DEF Crash, Leaves
  <2>. QED  BY <1>0, <2>1, FormedAfterCrash DEF FilesFormed
<1>15. CASE CrashLosesJournal
  <2>1. disk' = << >> /\ page' = << >>
    BY <1>15 DEF CrashLosesJournal, Leaves
  <2>. QED  BY <2>1 DEF FilesFormed, Formed
<1>. QED
  BY <1>5, <1>6, <1>7, <1>8, <1>9, <1>10, <1>11, <1>12, <1>13, <1>14, <1>15 DEF Next

-----------------------------------------------------------------------------
(* The theorems. *)

\* The inductive invariant: everything a crash can leave in the journal is in order,
\* paired and replays to a state in doubt, the store is never behind it, and what a
\* checkpoint holds, if the journal is lost with its name, is not ahead of what is
\* confirmed or in doubt.
THEOREM StoreInvariance ==
    ASSUME ~ShortWrites  PROVE  Spec => [](StoreFits /\ CheckpointsKnown)
<1>1. Init => StoreFits /\ CheckpointsKnown
  BY StoreBegins DEF Init, CheckpointsKnown, CheckpointsAfterCrash, Doubt, Absent
<1>2. StoreFits /\ CheckpointsKnown /\ [Next]_vars => StoreFits' /\ CheckpointsKnown'
  BY StoreStep, CheckpointsStayKnown
<1>. QED  BY <1>1, <1>2, PTL DEF Spec

\* Every variable of the store keeps its type, at any number of commits and failures
\* the constants allow.
THEOREM StoreTypes == ASSUME ~ShortWrites  PROVE  Spec => []TypeOK
<1>1. StoreFits => TypeOK
  BY DEF StoreFits
<1>. QED  BY <1>1, StoreInvariance, PTL

\* Whatever a crash leaves, a recovery returns the last state commit() made durable
\* or one whose commit() was running or had failed; only if a journal whose name was
\* never synced is gone, it returns the checkpoint, with nothing newer.
THEOREM NothingIsLost == ASSUME ~ShortWrites  PROVE  Spec => []NothingConfirmedIsLost
<1>1. StoreFits /\ CheckpointsKnown => NothingConfirmedIsLost
  <2>1. SUFFICES ASSUME StoreFits, CheckpointsKnown,
                        NEW j \in JournalsAfterCrash, NEW c \in CheckpointsAfterCrash,
                        NEW r \in Recoveries(j, c), Usable(r)
        PROVE  \/ r.state \in {confirmed} \cup inflight
               \/ /\ j = << >> /\ entry # "synced"
                  /\ r.state = c.state /\ c.state.seq =< confirmed.seq
    BY DEF NothingConfirmedIsLost
  <2>2. CASE j \in ContentsAfterCrash
    <3>1. /\ j \in Seq(Items) /\ TornLast(j) /\ ValidPrefix(j) \in Left /\ c \in Checkpoints
      BY <2>1, <2>2, StandsSo DEF StoreFits, TypeOK, CheckpointsAfterCrash
    <3>2. Readable(ValidPrefix(j)) /\ r.state = Replayed(ValidPrefix(j), c)
      BY <2>1, <3>1, UsableRecovery
    <3>. QED  BY <2>1, <3>1, <3>2 DEF StoreFits, RecordsFit, Accounted, Doubt
  <2>3. CASE j \notin ContentsAfterCrash
    <3>1. j = << >> /\ entry # "synced"
      BY <2>1, <2>3 DEF JournalsAfterCrash
    <3>2. r.state = c.state
      BY <2>1, <3>1 DEF Recoveries, Recovery
    <3>. QED  BY <2>1, <3>1, <3>2 DEF CheckpointsKnown, Doubt
  <2>. QED  BY <2>2, <2>3
<1>. QED  BY <1>1, StoreInvariance, PTL

\* No recovery meets a Commit that does not close the transaction before it.
THEOREM CommitsMatch == ASSUME ~ShortWrites  PROVE  Spec => []CommitRecordsMatch
<1>1. StoreFits => CommitRecordsMatch
  <2>1. SUFFICES ASSUME StoreFits,
                        NEW j \in JournalsAfterCrash, NEW c \in CheckpointsAfterCrash,
                        j # << >>, j[1] = Header
        PROVE  ~Mismatched(ValidPrefix(j), c)
    BY DEF CommitRecordsMatch
  <2>2. /\ j \in Seq(Items) /\ TornLast(j) /\ ValidPrefix(j) \in Left /\ c \in Checkpoints
        /\ Left \subseteq Seq(Items)
    BY <2>1, StandsSo DEF StoreFits, TypeOK, CheckpointsAfterCrash, JournalsAfterCrash
  <2>3. Readable(ValidPrefix(j))
    BY <2>1, <2>2, HeaderIsKept
  <2>4. Paired(ValidPrefix(j))
    BY <2>1, <2>2, <2>3 DEF StoreFits, RecordsFit, Accounted
  <2>. QED  BY <2>2, <2>3, <2>4, NothingMismatches
<1>. QED  BY <1>1, StoreInvariance, PTL

\* The durable state's sequence number goes back with a journal whose name was never
\* synced and in no other way, across failures and crashes.
THEOREM SequenceAdvances == ASSUME ~ShortWrites  PROVE  Spec => SequenceNeverGoesBack
<1>1. StoreFits /\ [Next]_vars
        => [confirmed'.seq >= confirmed.seq \/ (entry # "synced" /\ entry' = "absent")]_vars
  <2>1. SUFFICES ASSUME StoreFits, Next
        PROVE  confirmed'.seq >= confirmed.seq \/ (entry # "synced" /\ entry' = "absent")
    OBVIOUS
  <2>2. CASE CrashLosesJournal
    BY <2>2 DEF CrashLosesJournal
  <2>3. CASE ~CrashLosesJournal
    <3>1. confirmed \in Doubt
      BY DEF Doubt
    <3>2. confirmed' \in Doubt
      BY <2>1, <2>3, <3>1, Settles
    <3>. QED  BY <2>1, <3>1, <3>2, StandsSo
  <2>. QED  BY <2>2, <2>3
<1>. QED  BY <1>1, StoreInvariance, PTL DEF Spec, SequenceNeverGoesBack

\* The store implements the register: a commit confirms the write it started, and a
\* recovery returns the confirmed value or one in doubt; before the journal's name is
\* synced, a crash may take the register back to an older write.
THEOREM StoreImplementsRegister == ASSUME ~ShortWrites  PROVE  Spec => StoreIsRegister
<1>. DEFINE up == pc \notin {"down", "refused", "opening"}
            anchored == entry = "synced"
<1>1. Init => Register!Init
  BY DEF Init, Register!Init
<1>2. StoreFits /\ CheckpointsKnown /\ [Next]_vars => [Register!Next]_(Register!registerVars)
  <2>1. SUFFICES ASSUME StoreFits, CheckpointsKnown, Next
        PROVE  Register!Next \/ UNCHANGED Register!registerVars
    BY DEF vars, Register!registerVars
  <2>2. CASE Open
    <3>1. \/ confirmed' \in {confirmed} \cup inflight /\ inflight' = {}
          \/ confirmed' = confirmed /\ inflight' = inflight
      <4>1. ~(\E v \in Values : CommitBegin(v)) /\ ~CrashLosesJournal
        BY <2>2 DEF Open, CommitBegin, CrashLosesJournal
      <4>. QED  BY <2>1, <4>1, Settles DEF Doubt
    <3>2. ~up /\ UNCHANGED anchored
      BY <2>2 DEF Open
    <3>3. Register!Recover
      BY <3>1, <3>2 DEF Register!Recover
    <3>. QED  BY <3>3 DEF Register!Next
  <2>3. CASE OpenSync
    <3>1. /\ \/ confirmed' \in {confirmed} \cup inflight /\ inflight' = {}
             \/ confirmed' = confirmed /\ inflight' = inflight
          /\ ~up /\ UNCHANGED anchored
      BY <2>1, <2>3 DEF OpenSync, IsOpen, StoreFits, StateFits, Established, InDoubt, Doubt,
                        directory
    <3>2. Register!Recover
      BY <3>1 DEF Register!Recover
    <3>. QED  BY <3>2 DEF Register!Next
  <2>4. ASSUME NEW v \in Values, CommitBegin(v)  PROVE  Register!Next
    <3>1. /\ up /\ up' /\ inflight' = inflight \cup {next'} /\ confirmed' = confirmed
          /\ UNCHANGED anchored
      BY <2>4 DEF CommitBegin, directory
    <3>2. next' \in States
      <4>1. state_ \in States /\ state_.seq < MaxSequence
        BY <2>1, <2>4 DEF CommitBegin, StoreFits, TypeOK
      <4>2. state_.seq + 1 \in 1 .. MaxSequence
        BY <4>1, ItemTypes, JournalAssumption
      <4>. QED  BY <2>4, <4>2 DEF CommitBegin, States, State
    <3>3. Register!Start(next')
      BY <3>1 DEF Register!Start
    <3>. QED  BY <3>2, <3>3 DEF Register!Next
  <2>5. CASE CommitSync
    <3>1. up /\ up' /\ confirmed' \in inflight /\ inflight' = {} /\ UNCHANGED anchored
      <4>1. next \in inflight
        BY <2>1, <2>5, CommitStands DEF CommitSync
      <4>. QED  BY <2>5, <4>1 DEF CommitSync, Established, directory
    <3>2. Register!Confirm
      BY <3>1 DEF Register!Confirm
    <3>. QED  BY <3>2 DEF Register!Next
  <2>6. CASE SyncDirectory
    <3>1. up' = up /\ confirmed' = confirmed /\ inflight' = inflight /\ anchored'
      BY <2>6 DEF SyncDirectory, history
    <3>2. Register!Anchor
      BY <3>1 DEF Register!Anchor
    <3>. QED  BY <3>2 DEF Register!Next
  <2>7. CASE Close \/ Kill \/ Crash
    <3>1. /\ ~up' /\ confirmed' = confirmed /\ inflight' = inflight
          /\ anchored' \/ UNCHANGED anchored
      BY <2>7 DEF Close, Kill, Crash, Leaves, history, directory
    <3>2. Register!Stop
      BY <3>1 DEF Register!Stop
    <3>. QED  BY <3>2 DEF Register!Next
  <2>8. CASE CrashLosesJournal
    <3>1. PICK c \in CheckpointsAfterCrash : Leaves(<< >>, c) /\ Established(c.state)
      BY <2>8 DEF CrashLosesJournal
    <3>2. c.state \in States /\ confirmed \in States
      BY <2>1, ItemTypes DEF StoreFits, TypeOK, CheckpointsAfterCrash
    <3>3. c.state \in {confirmed} \cup inflight \/ c.state.seq =< confirmed.seq
      BY <2>1 DEF CheckpointsKnown, Doubt
    <3>4. confirmed.seq =< confirmed.seq
      BY <3>2, ItemTypes
    <3>5. confirmed' \in inflight \cup {s \in States : [t \in States |-> t.seq][s]
                                                         =< [t \in States |-> t.seq][confirmed]}
      BY <3>1, <3>2, <3>3, <3>4 DEF Established
    <3>6. ~anchored /\ ~anchored' /\ ~up' /\ inflight' = {}
      BY <2>8, <3>1 DEF CrashLosesJournal, Leaves, Established
    <3>7. Register!Lose
      BY <3>5, <3>6 DEF Register!Lose
    <3>. QED  BY <3>7 DEF Register!Next
  <2>9. CASE \/ OpenRefused \/ OpenFail \/ CommitRecord \/ Compact \/ ReplaceCheckpoint
             \/ CompactTruncate \/ CompactHeader \/ CompactRecord \/ CompactSync \/ Fail
    <3>1. up' = up /\ confirmed' = confirmed /\ inflight' = inflight /\ anchored' = anchored
      BY <2>9 DEF OpenRefused, OpenFail, CommitRecord, Compact, ReplaceCheckpoint,
                  CompactTruncate, CompactHeader, CompactRecord, CompactSync, Fail,
                  history, files, directory
    <3>. QED  BY <3>1 DEF Register!registerVars
  <2>. QED  BY <2>1, <2>2, <2>3, <2>4, <2>5, <2>6, <2>7, <2>8, <2>9 DEF Next
<1>. QED  BY <1>1, <1>2, StoreInvariance, PTL
          DEF Spec, StoreIsRegister, Register!Spec

\* On every journal and checkpoint a crash can leave, the loop of replay() refuses,
\* recovers and doubts what the closed form says, which the other theorems are about.
THEOREM LoopIsClosedForm == ASSUME ~ShortWrites  PROVE  Spec => []LoopAgrees
<1>1. Init => FilesFormed
  BY EmptySeq DEF Init, FilesFormed, Formed
<1>2. StoreFits /\ FilesFormed /\ [Next]_vars => FilesFormed'
  BY FormedStep
<1>3. StoreFits /\ FilesFormed => LoopAgrees
  <2>. SUFFICES ASSUME StoreFits, FilesFormed,
                       NEW j \in JournalsAfterCrash, NEW c \in CheckpointsAfterCrash,
                       j # << >>, j[1] = Header
                PROVE  LET valid == ValidPrefix(j)
                           loop == Loop(valid, c)
                           left == loop.ambiguous \/ loop.open # 0
                       IN  /\ loop.failed <=> Mismatched(valid, c)
                           /\ ~loop.failed => /\ loop.state = Replayed(valid, c)
                                              /\ left <=> Ambiguous(valid, c)
    BY DEF LoopAgrees
  <2>. DEFINE valid == ValidPrefix(j)
  <2>1. /\ j \in Seq(Items) /\ TornLast(j) /\ valid \in Left /\ c \in Checkpoints
        /\ j \in ContentsAfterCrash
    BY StandsSo DEF StoreFits, TypeOK, CheckpointsAfterCrash, JournalsAfterCrash
  <2>2. valid \in Seq(Items) /\ Intact(valid) /\ Formed(valid)
    BY <2>1, ScanStops, FormedAfterCrash, ScannedFormed DEF StoreFits
  <2>3. Readable(valid) /\ Paired(valid) /\ InOrder(valid)
    BY <2>1, HeaderIsKept DEF StoreFits, RecordsFit, Accounted
  <2>4. ~Mismatched(valid, c)
    BY <2>1, <2>2, <2>3, NothingMismatches
  <2>5. valid # << >> /\ valid[1] = Header
    <3>1. Len(j) \in Nat /\ Len(j) > 0
      BY <2>1, EmptySeq, Beginning
    <3>2. valid # << >>
      <4>1. CASE Intact(j)
        BY <2>1, <4>1, ScanStops
      <4>2. CASE ~Intact(j)
        <5>1. j[Len(j)].type = "torn" /\ ScanEnd(j) = Len(j) - 1
          BY <2>1, <4>2, ScanStops
        <5>2. Len(j) - 1 \in 0 .. Len(j) /\ Len(j) - 1 # 0
          BY <3>1, <5>1 DEF Header, Item
        <5>3. Len(valid) = Len(j) - 1
          BY <2>1, <5>1, <5>2, Beginning DEF ValidPrefix
        <5>. QED  BY <5>2, <5>3, EmptySeq
      <4>. QED  BY <4>1, <4>2
    <3>. QED  BY <2>3, <3>2 DEF Readable
  <2>. HIDE DEF valid
  <2>6. /\ ~Loop(valid, c).failed /\ Loop(valid, c).state = Replayed(valid, c)
        /\ (Loop(valid, c).ambiguous \/ Loop(valid, c).open # 0) <=> Ambiguous(valid, c)
    BY <2>1, <2>2, <2>3, <2>5, LoopIsReplay
  <2>. QED  BY <2>4, <2>6, Zenon DEF valid
<1>. QED  BY <1>1, <1>2, <1>3, StoreInvariance, PTL DEF Spec
=============================================================================
