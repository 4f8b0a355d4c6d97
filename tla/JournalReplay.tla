--------------------------- MODULE JournalReplay ---------------------------
(***************************************************************************)
(* The replay loop of PodStore::replay(), record by record.  Journal states*)
(* the same in closed form; PodStore checks that they agree on every       *)
(* journal the store can leave behind.                                     *)
(***************************************************************************)
EXTENDS Journal, SequencesExt

\* The locals of the loop: the open transaction and its payload, the state so
\* far, whether a transaction was left open, whether a Commit did not match.
Start(c) == [open |-> 0, pending |-> Initial, state |-> c.state,
             ambiguous |-> FALSE, failed |-> FALSE]

\* Mutant: a Begin inside an open transaction is not remembered as ambiguous.
ForgetOpenTransaction(c, loop, record) ==
    IF loop.failed \/ (c.present /\ record.seq =< c.state.seq) THEN loop
    ELSE CASE record.type = "checkpoint" ->
                [loop EXCEPT !.open = 0, !.state = State(record.seq, record.val)]
           [] record.type = "begin" ->
                [loop EXCEPT !.open = record.seq, !.pending = State(record.seq, record.val)]
           [] record.type = "commit" /\ loop.open = record.seq ->
                [loop EXCEPT !.state = loop.pending, !.open = 0]
           [] record.type = "commit" /\ loop.open # record.seq ->
                [loop EXCEPT !.failed = TRUE]

\* One turn of the loop.
LoopBody(c, loop, record) ==
    IF loop.failed \/ (c.present /\ record.seq =< c.state.seq) THEN loop
    ELSE CASE record.type = "checkpoint" ->
                [loop EXCEPT !.ambiguous = @ \/ loop.open # 0, !.open = 0,
                             !.state = State(record.seq, record.val)]
           [] record.type = "begin" ->
                [loop EXCEPT !.ambiguous = @ \/ loop.open # 0, !.open = record.seq,
                             !.pending = State(record.seq, record.val)]
           [] record.type = "commit" /\ loop.open = record.seq ->
                [loop EXCEPT !.state = loop.pending, !.open = 0]
           [] record.type = "commit" /\ loop.open # record.seq ->
                [loop EXCEPT !.failed = TRUE]

Loop(j, c) == FoldLeft(LAMBDA loop, record : LoopBody(c, loop, record), Start(c), Tail(j))
=============================================================================
