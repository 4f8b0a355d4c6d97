------------------------- MODULE EventDispatchProofs -------------------------
(***************************************************************************)
(* Proofs about EventDispatch, for any threads, any depth of callbacks and *)
(* any bound of the queue: types, no event left behind, no event told      *)
(* twice, and no thread that waits for a mutex it holds.                   *)
(***************************************************************************)
EXTENDS EventDispatch, SequenceTheorems, TLAPS

Frames == [op : Operations, call : 1 .. MaxCalls, pc : PcValues,
           own : Seq(Events), batch : Seq(Events)]

\* The frames of the stacks keep their types, and one that delivers has a batch.
StackTyped ==
    /\ stack \in [Threads -> Seq(Frames)]
    /\ \A t \in Threads : \A i \in DOMAIN stack[t] :
          stack[t][i].pc = "deliver" => stack[t][i].batch # << >>

Typed == TypeOK /\ StackTyped

\* Every call has a number of its own, and an event the number of its call.
Numbered ==
    /\ \A event \in Range(heard) \cup Range(pending_) : event.call =< calls
    /\ \A t \in Threads : \A i \in DOMAIN stack[t] :
          /\ stack[t][i].call =< calls
          /\ \A event \in Range(stack[t][i].batch) : event.call =< calls
          /\ \A event \in Range(stack[t][i].own) : event.call = stack[t][i].call
          /\ \A u \in Threads : \A j \in DOMAIN stack[u] :
                stack[t][i].call = stack[u][j].call => t = u /\ i = j

\* No event of a call that waits for the mutex is anywhere, and the events it has
\* still to publish are in no queue and no batch.
Unpublished ==
    \A t \in Threads : \A i \in DOMAIN stack[t] :
        /\ IsInjective(stack[t][i].own)
        /\ \A event \in Range(heard) \cup Range(pending_) :
              /\ event \notin Range(stack[t][i].own)
              /\ stack[t][i].pc = "lock" => event.call # stack[t][i].call
        /\ \A u \in Threads : \A j \in DOMAIN stack[u] :
              \A event \in Range(stack[u][j].batch) :
                  /\ event \notin Range(stack[t][i].own)
                  /\ stack[t][i].pc = "lock" => event.call # stack[t][i].call

\* An event is in one place of the queue, the batches and what was told.
InOnePlace ==
    /\ IsInjective(heard) /\ IsInjective(pending_)
    /\ \A event \in Range(heard) : event \notin Range(pending_)
    /\ \A t \in Threads : \A i \in DOMAIN stack[t] :
          /\ IsInjective(stack[t][i].batch)
          /\ \A event \in Range(stack[t][i].batch) :
                /\ event \notin Range(heard) /\ event \notin Range(pending_)
                /\ \A u \in Threads : \A j \in DOMAIN stack[u] :
                      event \in Range(stack[u][j].batch) => t = u /\ i = j

Once == Numbered /\ Unpublished /\ InOnePlace

\* Only a close() that found the pod open keeps the mutex, and by then it is closed.
ClosedWhileHeld ==
    write_mutex_ \in Threads =>
        /\ ~open_ /\ stack[write_mutex_] # << >>
        /\ stack[write_mutex_][1].pc \in {"dispatch", "deliver", "called back"}

-----------------------------------------------------------------------------
(* The operations on stacks and queues. *)

\* Goto() replaces the innermost call of a thread and nothing else.
LEMMA GotoFrames ==
    ASSUME NEW S, stack \in [Threads -> Seq(S)],
           NEW t \in Threads, stack[t] # << >>, NEW f \in S, Goto(t, f)
    PROVE  /\ stack' \in [Threads -> Seq(S)]
           /\ \A u \in Threads :
                 /\ DOMAIN stack'[u] = DOMAIN stack[u] /\ 1 \in DOMAIN stack[t]
                 /\ stack'[u] # << >> <=> stack[u] # << >>
                 /\ \A i \in DOMAIN stack[u] :
                       stack'[u][i] = IF u = t /\ i = 1 THEN f ELSE stack[u][i]
<1>1. stack' = [stack EXCEPT ![t] = <<f>> \o Tail(stack[t])]
  BY DEF Goto
<1>. DEFINE rest == Tail(stack[t])
            new  == <<f>> \o rest
<1>2. /\ rest \in Seq(S) /\ Len(rest) = Len(stack[t]) - 1
      /\ \A i \in 1 .. Len(rest) : rest[i] = stack[t][i + 1]
      /\ Len(stack[t]) \in Nat \ {0}
  BY HeadTailProperties, EmptySeq
<1>3. /\ <<f>> \in Seq(S) /\ Len(<<f>>) = 1 /\ <<f>>[1] = f
  OBVIOUS
<1>4. /\ new \in Seq(S) /\ Len(new) = Len(stack[t])
      /\ \A i \in 1 .. Len(new) : new[i] = IF i = 1 THEN f ELSE stack[t][i]
  <2>. HIDE DEF rest
  <2>1. /\ new \in Seq(S) /\ Len(new) = 1 + Len(rest)
        /\ \A i \in 1 .. 1 + Len(rest) : new[i] = IF i =< 1 THEN <<f>>[i] ELSE rest[i - 1]
    BY <1>2, <1>3, ConcatProperties
  <2>. HIDE DEF new
  <2>. QED  BY <1>2, <1>3, <2>1
<1>5. stack'[t] = new /\ \A u \in Threads : u # t => stack'[u] = stack[u]
  BY <1>1
<1>. HIDE DEF new
<1>6. stack' \in [Threads -> Seq(S)]
  BY <1>1, <1>4, <1>5 DEF new
<1>7. DOMAIN new = 1 .. Len(new) /\ \A u \in Threads : DOMAIN stack[u] = 1 .. Len(stack[u])
  BY <1>4, LenProperties
<1>8. new # << >>
  BY <1>2, <1>4, EmptySeq
<1>. QED  BY <1>2, <1>4, <1>5, <1>6, <1>7, <1>8

\* A call that returns uncovers the one it was made from.
LEMMA ReturnFrames ==
    ASSUME NEW S, stack \in [Threads -> Seq(S)],
           NEW t \in Threads, stack[t] # << >>, Return(t)
    PROVE  /\ stack' \in [Threads -> Seq(S)]
           /\ \A i \in DOMAIN stack'[t] :
                 i + 1 \in DOMAIN stack[t] /\ stack'[t][i] = stack[t][i + 1]
           /\ \A i \in DOMAIN stack[t] : i = 1 \/ i - 1 \in DOMAIN stack'[t]
           /\ \A u \in Threads : u # t => stack'[u] = stack[u]
<1>1. stack' = [stack EXCEPT ![t] = Tail(stack[t])]
  BY DEF Return
<1>2. /\ Tail(stack[t]) \in Seq(S) /\ Len(Tail(stack[t])) = Len(stack[t]) - 1
      /\ \A i \in 1 .. Len(Tail(stack[t])) : Tail(stack[t])[i] = stack[t][i + 1]
      /\ Len(stack[t]) \in Nat \ {0}
  BY HeadTailProperties, EmptySeq
<1>3. stack'[t] = Tail(stack[t]) /\ stack' \in [Threads -> Seq(S)]
  BY <1>1, <1>2
<1>4. DOMAIN stack[t] = 1 .. Len(stack[t]) /\ DOMAIN stack'[t] = 1 .. Len(stack'[t])
  BY <1>3, LenProperties
<1>. QED  BY <1>1, <1>2, <1>3, <1>4

\* A call covers the one it is made from.
LEMMA CallFrames ==
    ASSUME NEW S, stack \in [Threads -> Seq(S)],
           NEW t \in Threads, NEW f \in S, stack' = [stack EXCEPT ![t] = <<f>> \o @]
    PROVE  /\ stack' \in [Threads -> Seq(S)]
           /\ 1 \in DOMAIN stack'[t] /\ stack'[t][1] = f /\ stack'[t] # << >>
           /\ \A i \in DOMAIN stack'[t] :
                 i # 1 => i - 1 \in DOMAIN stack[t] /\ stack'[t][i] = stack[t][i - 1]
           /\ \A i \in DOMAIN stack[t] :
                 i + 1 \in DOMAIN stack'[t] /\ stack'[t][i + 1] = stack[t][i]
           /\ \A u \in Threads : u # t => stack'[u] = stack[u]
<1>. DEFINE old == stack[t]
            new == <<f>> \o old
<1>1. /\ <<f>> \in Seq(S) /\ Len(<<f>>) = 1 /\ <<f>>[1] = f /\ old \in Seq(S)
      /\ Len(old) \in Nat
  BY LenProperties
<1>2. /\ new \in Seq(S) /\ Len(new) = 1 + Len(old)
      /\ \A i \in 1 .. 1 + Len(old) : new[i] = IF i =< 1 THEN <<f>>[i] ELSE old[i - 1]
  <2>. HIDE DEF old
  <2>. QED  BY <1>1, ConcatProperties
<1>3. stack'[t] = new /\ \A u \in Threads : u # t => stack'[u] = stack[u]
  OBVIOUS
<1>. HIDE DEF new
<1>4. stack' \in [Threads -> Seq(S)]
  BY <1>2 DEF new
<1>5. DOMAIN new = 1 .. Len(new) /\ DOMAIN old = 1 .. Len(old)
  BY <1>1, <1>2, LenProperties
<1>6. new # << >>
  BY <1>1, <1>2, EmptySeq
<1>. QED  BY <1>1, <1>2, <1>3, <1>4, <1>5, <1>6

\* What Append and Tail hold, and the empty queue.
LEMMA QueueRanges ==
    ASSUME NEW S, NEW s \in Seq(S)
    PROVE  /\ \A e \in S : /\ Append(s, e) \in Seq(S) /\ Range(Append(s, e)) = Range(s) \cup {e}
                           /\ IsInjective(s) /\ e \notin Range(s) => IsInjective(Append(s, e))
           /\ s # << >> => /\ s[1] \in S /\ Tail(s) \in Seq(S)
                           /\ Range(s) = {s[1]} \cup Range(Tail(s))
                           /\ IsInjective(s) => IsInjective(Tail(s)) /\ s[1] \notin Range(Tail(s))
<1>1. ASSUME NEW e \in S
      PROVE  /\ Append(s, e) \in Seq(S) /\ Range(Append(s, e)) = Range(s) \cup {e}
             /\ IsInjective(s) /\ e \notin Range(s) => IsInjective(Append(s, e))
  <2>1. /\ Append(s, e) \in Seq(S) /\ Len(Append(s, e)) = Len(s) + 1
        /\ \A i \in 1 .. Len(s) : Append(s, e)[i] = s[i]
        /\ Append(s, e)[Len(s) + 1] = e /\ Len(s) \in Nat
    BY AppendProperties, LenProperties
  <2>2. DOMAIN Append(s, e) = 1 .. Len(s) + 1 /\ DOMAIN s = 1 .. Len(s)
    BY <2>1, LenProperties
  <2>. QED  BY <2>1, <2>2 DEF Range, IsInjective
<1>2. ASSUME s # << >>
      PROVE  /\ s[1] \in S /\ Tail(s) \in Seq(S)
             /\ Range(s) = {s[1]} \cup Range(Tail(s))
             /\ IsInjective(s) => IsInjective(Tail(s)) /\ s[1] \notin Range(Tail(s))
  <2>1. /\ Tail(s) \in Seq(S) /\ Len(Tail(s)) = Len(s) - 1 /\ Len(s) \in Nat \ {0}
        /\ \A i \in 1 .. Len(Tail(s)) : Tail(s)[i] = s[i + 1]
    BY <1>2, HeadTailProperties, EmptySeq
  <2>2. DOMAIN s = 1 .. Len(s) /\ DOMAIN Tail(s) = 1 .. Len(s) - 1 /\ s[1] \in S
    BY <2>1, LenProperties, ElementOfSeq
  <2>3. \A i \in 1 .. Len(s) : i = 1 \/ (i - 1 \in 1 .. Len(s) - 1 /\ Tail(s)[i - 1] = s[i])
    BY <2>1
  <2>4. Range(s) \subseteq {s[1]} \cup Range(Tail(s))
    <3>1. ASSUME NEW i \in DOMAIN s
          PROVE  s[i] = s[1] \/ \E j \in DOMAIN Tail(s) : s[i] = Tail(s)[j]
      <4>1. i = 1 \/ (i - 1 \in DOMAIN Tail(s) /\ s[i] = Tail(s)[i - 1])
        BY <2>2, <2>3
      <4>. QED  BY <4>1
    <3>. QED  BY <3>1 DEF Range
  <2>5. \A i \in 1 .. Len(s) - 1 : i + 1 \in 1 .. Len(s) /\ i + 1 # 1 /\ Tail(s)[i] = s[i + 1]
    BY <2>1
  <2>6. {s[1]} \cup Range(Tail(s)) \subseteq Range(s)
    <3>1. 1 \in 1 .. Len(s)
      BY <2>1
    <3>. QED  BY <2>2, <2>5, <3>1 DEF Range
  <2>7. ASSUME IsInjective(s)  PROVE  IsInjective(Tail(s)) /\ s[1] \notin Range(Tail(s))
    <3>1. \A i, j \in 1 .. Len(s) : s[i] = s[j] => i = j
      BY <2>2, <2>7 DEF IsInjective
    <3>2. \A i, j \in 1 .. Len(s) - 1 : Tail(s)[i] = Tail(s)[j] => i = j
      <4>. TAKE i, j \in 1 .. Len(s) - 1
      <4>. HAVE Tail(s)[i] = Tail(s)[j]
      <4>1. i + 1 = j + 1
        BY <2>5, <3>1
      <4>. QED  BY <4>1
    <3>3. \A i \in 1 .. Len(s) - 1 : Tail(s)[i] # s[1]
      BY <2>1, <2>5, <3>1
    <3>. QED  BY <2>2, <3>2, <3>3 DEF Range, IsInjective
  <2>. QED  BY <2>2, <2>1, <2>4, <2>6, <2>7
<1>. QED  BY <1>1, <1>2

LEMMA EmptyQueue == Range(<< >>) = {} /\ IsInjective(<< >>)
BY DEF Range, IsInjective

\* publish() adds its event at the end of the queue, or drops it.
LEMMA QueuedEvent ==
    ASSUME pending_ \in Seq(Events), Len(pending_) =< MaxPending, NEW e \in Events
    PROVE  /\ Queued(e) \in Seq(Events) /\ Len(Queued(e)) =< MaxPending
           /\ Range(pending_) \subseteq Range(Queued(e))
           /\ Range(Queued(e)) \subseteq Range(pending_) \cup {e}
           /\ IsInjective(pending_) /\ e \notin Range(pending_) => IsInjective(Queued(e))
<1>1. /\ Append(pending_, e) \in Seq(Events)
      /\ Range(Append(pending_, e)) = Range(pending_) \cup {e}
      /\ IsInjective(pending_) /\ e \notin Range(pending_) => IsInjective(Append(pending_, e))
  BY QueueRanges
<1>2. Len(Append(pending_, e)) = Len(pending_) + 1 /\ Len(pending_) \in Nat
  BY AppendProperties, LenProperties
<1>3. CASE Len(pending_) < MaxPending
  BY <1>1, <1>2, <1>3, DispatchAssumption DEF Queued
<1>4. CASE ~(Len(pending_) < MaxPending)
  BY <1>4 DEF Queued
<1>. QED  BY <1>3, <1>4

\* The events a call is to publish carry its number and differ.
LEMMA OwnEvents ==
    ASSUME NEW op \in Operations \ {"close"}, NEW call \in 1 .. MaxCalls,
           NEW n \in 0 .. EventsPerCall
    PROVE  /\ [i \in 1 .. n |-> Event(op, call, i)] \in Seq(Events)
           /\ IsInjective([i \in 1 .. n |-> Event(op, call, i)])
           /\ \A e \in Range([i \in 1 .. n |-> Event(op, call, i)]) : e.call = call
<1>1. n \in Nat /\ \A i \in 1 .. n : Event(op, call, i) \in Events
  BY DispatchAssumption DEF Event, Events
<1>2. [i \in 1 .. n |-> Event(op, call, i)] \in [1 .. n -> Events]
  BY <1>1
<1>3. [i \in 1 .. n |-> Event(op, call, i)] \in Seq(Events)
  BY <1>1, <1>2, SeqDef
<1>4. \A i \in 1 .. n : Event(op, call, i).call = call /\ Event(op, call, i).n = i
  BY DEF Event
<1>5. IsInjective([i \in 1 .. n |-> Event(op, call, i)])
  BY <1>4 DEF IsInjective
<1>6. \A e \in Range([i \in 1 .. n |-> Event(op, call, i)]) : e.call = call
  BY <1>4 DEF Range
<1>. QED  BY <1>3, <1>5, <1>6

\* What Typed says of the stacks, by frame.
LEMMA FramesTyped ==
    /\ stack \in [Threads -> Seq(Frames)] =>
          \A t \in Threads : /\ \A i \in DOMAIN stack[t] : stack[t][i] \in Frames
                             /\ stack[t] # << >> => 1 \in DOMAIN stack[t]
    /\ stack' \in [Threads -> Seq(Frames)] =>
          \A t \in Threads : /\ \A i \in DOMAIN stack'[t] : stack'[t][i] \in Frames
                             /\ stack'[t] # << >> => 1 \in DOMAIN stack'[t]
<1>1. ASSUME NEW s \in Seq(Frames)
      PROVE  (\A i \in DOMAIN s : s[i] \in Frames) /\ (s # << >> => 1 \in DOMAIN s)
  BY LenProperties, ElementOfSeq, EmptySeq
<1>2. ASSUME stack \in [Threads -> Seq(Frames)], NEW t \in Threads
      PROVE  stack[t] \in Seq(Frames)
  BY <1>2
<1>3. ASSUME stack' \in [Threads -> Seq(Frames)], NEW t \in Threads
      PROVE  stack'[t] \in Seq(Frames)
  BY <1>3
<1>. QED  BY <1>1, <1>2, <1>3

-----------------------------------------------------------------------------
(* What the steps of a call make of its frame. *)

LEMMA NewFrame ==
    ASSUME calls \in 0 .. MaxCalls, calls < MaxCalls, NEW op \in Operations
    PROVE  /\ Frame(op) \in Frames /\ Frame(op).pc = "lock" /\ Frame(op).call = calls + 1
           /\ Frame(op).own = << >> /\ Frame(op).batch = << >>
<1>1. calls + 1 \in 1 .. MaxCalls /\ << >> \in Seq(Events)
  BY EmptySeq, DispatchAssumption
<1>2. ASSUME NEW call \in 1 .. MaxCalls, NEW none \in Seq(Events)
      PROVE  [op |-> op, call |-> call, pc |-> "lock", own |-> none, batch |-> none] \in Frames
  BY DEF Frames, PcValues
<1>3. Frame(op) \in Frames
  BY <1>1, <1>2 DEF Frame
<1>. QED  BY <1>3 DEF Frame

\* A call that entered has the event of open(), or goes on to publish its own, ...
LEMMA Entered ==
    ASSUME StackTyped, NEW t \in Threads, NEW op, Enters(t, op)
    PROVE  /\ stack[t] # << >> /\ 1 \in DOMAIN stack[t] /\ stack[t][1] \in Frames
           /\ stack[t][1].pc = "lock" /\ stack[t][1].op = op
  BY FramesTyped DEF StackTyped, Enters, At

LEMMA Recovered ==
    ASSUME StackTyped, NEW t \in Threads, Enters(t, "open")
    PROVE  /\ Event("open", stack[t][1].call, 1) \in Events
           /\ Event("open", stack[t][1].call, 1).op = "open"
           /\ Event("open", stack[t][1].call, 1).call = stack[t][1].call
  BY Entered, DispatchAssumption DEF Event, Events, Frames, Operations

LEMMA Publishing ==
    ASSUME StackTyped, NEW t \in Threads, Enters(t, "apply") \/ Enters(t, "change"),
           NEW n \in 0 .. EventsPerCall, Publishes(t, n)
    PROVE  \E f \in Frames :
              /\ Goto(t, f)
              /\ f.pc = "publish" /\ f.call = stack[t][1].call /\ f.batch = stack[t][1].batch
              /\ IsInjective(f.own) /\ \A event \in Range(f.own) : event.call = f.call
<1>. DEFINE own == [i \in 1 .. n |-> Event(stack[t][1].op, stack[t][1].call, i)]
            f   == [stack[t][1] EXCEPT !.pc = "publish", !.own = own]
<1>1. stack[t][1] \in Frames /\ stack[t][1].op \in Operations \ {"close"}
  BY Entered DEF Operations
<1>2. /\ own \in Seq(Events) /\ IsInjective(own)
      /\ \A event \in Range(own) : event.call = stack[t][1].call
  BY <1>1, OwnEvents DEF Frames
<1>3. Goto(t, f)
  BY DEF Publishes
<1>. HIDE DEF own
<1>4. /\ f \in Frames /\ f.pc = "publish" /\ f.call = stack[t][1].call
      /\ f.batch = stack[t][1].batch /\ f.own = own
  BY <1>1, <1>2 DEF Frames, PcValues
<1>. HIDE DEF f
<1>. QED  BY <1>2, <1>3, <1>4

\* ... or dispatches at once, as close() does.
LEMMA Closing ==
    ASSUME StackTyped, NEW t \in Threads, Close(t), ~(Return(t) /\ UNCHANGED write_mutex_)
    PROVE  \E f \in Frames :
              /\ Goto(t, f) /\ f.pc = "dispatch"
              /\ f.call = stack[t][1].call /\ f.own = stack[t][1].own
              /\ f.batch = stack[t][1].batch
<1>1. stack[t][1] \in Frames /\ Goto(t, [stack[t][1] EXCEPT !.pc = "dispatch"])
  BY Entered DEF Close
<1>. DEFINE f == [stack[t][1] EXCEPT !.pc = "dispatch"]
<1>2. /\ f \in Frames /\ f.pc = "dispatch" /\ f.call = stack[t][1].call
      /\ f.own = stack[t][1].own /\ f.batch = stack[t][1].batch /\ Goto(t, f)
  BY <1>1 DEF Frames, PcValues
<1>. HIDE DEF f
<1>. QED  BY <1>2

\* A publishing call queues its next event, or is done with them.
LEMMA PublishesNext ==
    ASSUME StackTyped, NEW t \in Threads, Publish(t)
    PROVE  /\ stack[t] # << >> /\ 1 \in DOMAIN stack[t] /\ stack[t][1] \in Frames
           /\ stack[t][1].pc = "publish"
           /\ \E f \in Frames :
              /\ Goto(t, f)
              /\ f.call = stack[t][1].call /\ f.batch = stack[t][1].batch
              /\ \/ /\ f.pc = "dispatch" /\ f.own = stack[t][1].own /\ UNCHANGED pending_
                 \/ /\ f.pc = "publish" /\ stack[t][1].own # << >>
                    /\ f.own = Tail(stack[t][1].own)
                    /\ pending_' = Queued(stack[t][1].own[1])
<1>1. /\ stack[t] # << >> /\ 1 \in DOMAIN stack[t] /\ stack[t][1] \in Frames
      /\ stack[t][1].pc = "publish" /\ stack[t][1].own \in Seq(Events)
  BY FramesTyped DEF StackTyped, Publish, At, Frames
<1>2. CASE stack[t][1].own = << >>
  <2>1. Goto(t, [stack[t][1] EXCEPT !.pc = "dispatch"]) /\ UNCHANGED pending_
    BY <1>2 DEF Publish
  <2>. DEFINE f == [stack[t][1] EXCEPT !.pc = "dispatch"]
  <2>2. /\ f \in Frames /\ f.pc = "dispatch" /\ f.call = stack[t][1].call
        /\ f.own = stack[t][1].own /\ f.batch = stack[t][1].batch
    BY <1>1 DEF Frames, PcValues
  <2>. HIDE DEF f
  <2>. QED  BY <1>1, <2>1, <2>2 DEF f
<1>3. CASE stack[t][1].own # << >>
  <2>. DEFINE rest == Tail(stack[t][1].own)
              f    == [stack[t][1] EXCEPT !.own = rest]
  <2>1. rest \in Seq(Events)
    BY <1>1, <1>3, QueueRanges
  <2>2. Goto(t, f) /\ pending_' = Queued(stack[t][1].own[1])
    BY <1>3 DEF Publish
  <2>. HIDE DEF rest
  <2>3. /\ f \in Frames /\ f.call = stack[t][1].call /\ f.batch = stack[t][1].batch
        /\ f.pc = "publish" /\ f.own = rest
    BY <1>1, <2>1 DEF Frames
  <2>. HIDE DEF f
  <2>. QED  BY <1>1, <1>3, <2>2, <2>3 DEF rest
<1>. QED  BY <1>2, <1>3

\* A dispatching call takes the queue for its batch, ...
LEMMA TakesBatch ==
    ASSUME StackTyped, pending_ \in Seq(Events), NEW t \in Threads, TakeBatch(t)
    PROVE  /\ stack[t] # << >> /\ 1 \in DOMAIN stack[t] /\ stack[t][1] \in Frames
           /\ stack[t][1].pc = "dispatch"
           /\ UNCHANGED stack \/ \E f \in Frames :
                 /\ Goto(t, f)
                 /\ f.pc = "deliver" /\ f.call = stack[t][1].call /\ f.own = stack[t][1].own
                 /\ f.batch = pending_
<1>1. /\ stack[t] # << >> /\ 1 \in DOMAIN stack[t] /\ stack[t][1] \in Frames
      /\ stack[t][1].pc = "dispatch"
  BY FramesTyped DEF StackTyped, TakeBatch, At
<1>2. CASE observed
  <2>1. Goto(t, [stack[t][1] EXCEPT !.pc = "deliver", !.batch = pending_])
    BY <1>2 DEF TakeBatch
  <2>. DEFINE f == [stack[t][1] EXCEPT !.pc = "deliver", !.batch = pending_]
  <2>2. /\ f \in Frames /\ f.pc = "deliver" /\ f.call = stack[t][1].call
        /\ f.own = stack[t][1].own /\ f.batch = pending_
    BY <1>1 DEF Frames, PcValues
  <2>. HIDE DEF f
  <2>. QED  BY <1>1, <2>1, <2>2 DEF f
<1>. QED  BY <1>1, <1>2 DEF TakeBatch

\* ... tells its events one by one, ...
LEMMA DeliversNext ==
    ASSUME StackTyped, NEW t \in Threads, Deliver(t)
    PROVE  /\ stack[t] # << >> /\ 1 \in DOMAIN stack[t] /\ stack[t][1] \in Frames
           /\ stack[t][1].pc = "deliver" /\ stack[t][1].batch # << >>
           /\ \E f \in Frames :
              /\ Goto(t, f)
              /\ f.pc = "called back" /\ f.call = stack[t][1].call /\ f.own = stack[t][1].own
              /\ f.batch = Tail(stack[t][1].batch)
<1>1. /\ stack[t] # << >> /\ 1 \in DOMAIN stack[t] /\ stack[t][1] \in Frames
      /\ stack[t][1].pc = "deliver" /\ stack[t][1].batch # << >>
      /\ stack[t][1].batch \in Seq(Events)
  BY FramesTyped DEF StackTyped, Deliver, At, Frames
<1>. DEFINE rest == Tail(stack[t][1].batch)
            f    == [stack[t][1] EXCEPT !.pc = "called back", !.batch = rest]
<1>2. rest \in Seq(Events)
  BY <1>1, QueueRanges
<1>3. Goto(t, f)
  BY DEF Deliver
<1>. HIDE DEF rest
<1>4. /\ f \in Frames /\ f.call = stack[t][1].call /\ f.own = stack[t][1].own
      /\ f.pc = "called back" /\ f.batch = rest
  BY <1>1, <1>2 DEF Frames, PcValues
<1>. HIDE DEF f
<1>. QED  BY <1>1, <1>3, <1>4 DEF rest

\* ... and goes on when the observer returns.
LEMMA HeedsObserver ==
    ASSUME StackTyped, NEW t \in Threads, Heeded(t)
    PROVE  /\ stack[t] # << >> /\ 1 \in DOMAIN stack[t] /\ stack[t][1] \in Frames
           /\ stack[t][1].pc = "called back"
           /\ \E f \in Frames :
              /\ Goto(t, f)
              /\ f.pc \in {"dispatch", "deliver"} /\ (f.pc = "deliver" => f.batch # << >>)
              /\ f.call = stack[t][1].call /\ f.own = stack[t][1].own
              /\ f.batch = stack[t][1].batch
<1>1. /\ stack[t] # << >> /\ 1 \in DOMAIN stack[t] /\ stack[t][1] \in Frames
      /\ stack[t][1].pc = "called back"
  BY FramesTyped DEF StackTyped, Heeded, At
<1>. DEFINE f == [stack[t][1] EXCEPT !.pc = IF stack[t][1].batch = << >> THEN "dispatch"
                                                                        ELSE "deliver"]
<1>2. /\ f \in Frames /\ f.pc \in {"dispatch", "deliver"} /\ (f.pc = "deliver" => f.batch # << >>)
      /\ f.call = stack[t][1].call /\ f.own = stack[t][1].own /\ f.batch = stack[t][1].batch
  BY <1>1 DEF Frames, PcValues
<1>3. Goto(t, f)
  BY DEF Heeded
<1>. HIDE DEF f
<1>. QED  BY <1>1, <1>2, <1>3

-----------------------------------------------------------------------------
(* Types. *)

LEMMA GotoTyped ==
    ASSUME StackTyped, NEW t \in Threads, stack[t] # << >>,
           NEW f \in Frames, f.pc = "deliver" => f.batch # << >>, Goto(t, f)
    PROVE  StackTyped'
<1>1. stack \in [Threads -> Seq(Frames)]
  BY DEF StackTyped
<1>2. /\ stack' \in [Threads -> Seq(Frames)]
      /\ \A u \in Threads : /\ DOMAIN stack'[u] = DOMAIN stack[u]
                            /\ \A i \in DOMAIN stack[u] :
                                  stack'[u][i] = IF u = t /\ i = 1 THEN f ELSE stack[u][i]
  BY <1>1, GotoFrames
<1>3. ASSUME NEW u \in Threads, NEW i \in DOMAIN stack'[u], stack'[u][i].pc = "deliver"
      PROVE  stack'[u][i].batch # << >>
  BY <1>2, <1>3 DEF StackTyped
<1>. QED  BY <1>2, <1>3 DEF StackTyped

LEMMA ReturnTyped ==
    ASSUME StackTyped, NEW t \in Threads, stack[t] # << >>, Return(t)
    PROVE  StackTyped'
<1>1. stack \in [Threads -> Seq(Frames)]
  BY DEF StackTyped
<1>2. stack' \in [Threads -> Seq(Frames)]
  BY <1>1, ReturnFrames
<1>3. ASSUME NEW u \in Threads, NEW i \in DOMAIN stack'[u], stack'[u][i].pc = "deliver"
      PROVE  stack'[u][i].batch # << >>
  <2>1. CASE u = t
    BY <1>1, <1>3, <2>1, ReturnFrames DEF StackTyped
  <2>2. CASE u # t
    BY <1>1, <1>3, <2>2, ReturnFrames DEF StackTyped
  <2>. QED  BY <2>1, <2>2
<1>. QED  BY <1>2, <1>3 DEF StackTyped


LEMMA TypedStep == Typed /\ [Next]_vars => Typed'
<1>. SUFFICES ASSUME Typed, [Next]_vars  PROVE Typed'
  OBVIOUS
<1>1. /\ StackTyped
      /\ open_ \in BOOLEAN /\ observed \in BOOLEAN /\ calls \in 0 .. MaxCalls
      /\ write_mutex_ \in Threads \cup {NoThread}
      /\ pending_ \in Seq(Events) /\ Len(pending_) =< MaxPending
      /\ heard \in Seq(Events)
  BY DEF Typed, TypeOK
<1>. DEFINE Plain == /\ open_ \in BOOLEAN /\ observed \in BOOLEAN /\ calls \in 0 .. MaxCalls
                     /\ write_mutex_ \in Threads \cup {NoThread}
                     /\ pending_ \in Seq(Events) /\ Len(pending_) =< MaxPending
                     /\ heard \in Seq(Events)
<1>2. SUFFICES Plain' /\ StackTyped'
  <2>1. ASSUME StackTyped'
        PROVE  \A t \in Threads : \A i \in DOMAIN stack'[t] : stack'[t][i] \in Frames
    BY <2>1, FramesTyped DEF StackTyped
  <2>. QED  BY <2>1 DEF Typed, TypeOK, Frames
<1>3. CASE UNCHANGED vars
  BY <1>1, <1>3 DEF vars, StackTyped
<1>4. CASE Subscribe
  BY <1>1, <1>4 DEF Subscribe, StackTyped
<1>5. ASSUME NEW t \in Threads, Call(t)  PROVE Plain' /\ StackTyped'
  <2>1. PICK op \in Operations : stack' = [stack EXCEPT ![t] = <<Frame(op)>> \o @]
    BY <1>5 DEF Call
  <2>2. calls < MaxCalls /\ calls' = calls + 1
    BY <1>5 DEF Call
  <2>3. Frame(op) \in Frames /\ Frame(op).pc # "deliver"
    BY <1>1, <2>2, NewFrame
  <2>4. stack \in [Threads -> Seq(Frames)]
    BY <1>1 DEF StackTyped
  <2>5. stack' \in [Threads -> Seq(Frames)]
    BY <2>1, <2>3, <2>4, CallFrames
  <2>6. ASSUME NEW u \in Threads, NEW i \in DOMAIN stack'[u], stack'[u][i].pc = "deliver"
        PROVE  stack'[u][i].batch # << >>
    <3>1. CASE u = t
      BY <1>1, <2>1, <2>3, <2>4, <2>6, <3>1, CallFrames DEF StackTyped
    <3>2. CASE u # t
      BY <1>1, <2>1, <2>3, <2>4, <2>6, <3>2, CallFrames DEF StackTyped
    <3>. QED  BY <3>1, <3>2
  <2>7. calls' \in 0 .. MaxCalls
    BY <1>1, <2>2, DispatchAssumption
  <2>8. UNCHANGED <<open_, write_mutex_, pending_, observed, heard>>
    BY <1>5 DEF Call
  <2>. QED  BY <1>1, <2>5, <2>6, <2>7, <2>8 DEF StackTyped
<1>6. ASSUME NEW t \in Threads, Open(t)  PROVE Plain' /\ StackTyped'
  <2>1. StackTyped'
    BY <1>1, <1>6, Entered, ReturnTyped DEF Open
  <2>2. pending_' \in Seq(Events) /\ Len(pending_') =< MaxPending
    BY <1>1, <1>6, Recovered, QueuedEvent DEF Open
  <2>3. open_' \in BOOLEAN /\ UNCHANGED <<write_mutex_, observed, heard, calls>>
    BY <1>1, <1>6 DEF Open
  <2>. QED  BY <1>1, <2>1, <2>2, <2>3
<1>7. ASSUME NEW t \in Threads, Apply(t) \/ Change(t)  PROVE Plain' /\ StackTyped'
  <2>1. StackTyped'
    <3>1. (Enters(t, "apply") \/ Enters(t, "change")) /\ stack[t] # << >>
      BY <1>1, <1>7, Entered DEF Apply, Change
    <3>2. Return(t) \/ \E n \in 0 .. EventsPerCall : Publishes(t, n)
      BY <1>7 DEF Apply, Change
    <3>3. CASE Return(t)
      BY <1>1, <3>1, <3>3, ReturnTyped
    <3>4. CASE \E n \in 0 .. EventsPerCall : Publishes(t, n)
      BY <1>1, <3>1, <3>4, Publishing, GotoTyped
    <3>. QED  BY <3>2, <3>3, <3>4
  <2>2. UNCHANGED <<open_, write_mutex_, pending_, observed, heard, calls>>
    BY <1>7 DEF Apply, Change
  <2>. QED  BY <1>1, <2>1, <2>2
<1>8. ASSUME NEW t \in Threads, Close(t)  PROVE Plain' /\ StackTyped'
  <2>1. stack[t] # << >>
    BY <1>1, <1>8, Entered DEF Close
  <2>2. CASE Return(t)
    BY <1>1, <1>8, <2>1, <2>2, ReturnTyped DEF Close
  <2>3. CASE ~Return(t)
    <3>1. StackTyped'
      BY <1>1, <1>8, <2>1, <2>3, Closing, GotoTyped
    <3>. QED  BY <1>1, <1>8, <3>1 DEF Close
  <2>. QED  BY <2>2, <2>3
<1>9. ASSUME NEW t \in Threads, Publish(t)  PROVE Plain' /\ StackTyped'
  <2>1. StackTyped'
    BY <1>1, <1>9, PublishesNext, GotoTyped
  <2>2. pending_' \in Seq(Events) /\ Len(pending_') =< MaxPending
    <3>1. stack[t][1].own # << >> => stack[t][1].own[1] \in Events
      BY <1>1, <1>9, PublishesNext, QueueRanges DEF Frames
    <3>. QED  BY <1>1, <1>9, <3>1, PublishesNext, QueuedEvent
  <2>3. UNCHANGED <<open_, write_mutex_, observed, heard, calls>>
    BY <1>9 DEF Publish
  <2>. QED  BY <1>1, <2>1, <2>2, <2>3
<1>10. ASSUME NEW t \in Threads, TakeBatch(t)  PROVE Plain' /\ StackTyped'
  <2>1. pending_ # << >>
    BY <1>10 DEF TakeBatch
  <2>2. StackTyped'
    <3>1. CASE UNCHANGED stack
      BY <1>1, <3>1 DEF StackTyped
    <3>2. CASE ~UNCHANGED stack
      BY <1>1, <1>10, <2>1, <3>2, TakesBatch, GotoTyped
    <3>. QED  BY <3>1, <3>2
  <2>3. pending_' \in Seq(Events) /\ Len(pending_') =< MaxPending
    <3>1. Len(<< >>) = 0 /\ << >> \in Seq(Events)
      BY EmptySeq
    <3>. QED  BY <1>10, <3>1, DispatchAssumption DEF TakeBatch
  <2>. QED  BY <1>1, <1>10, <2>2, <2>3 DEF TakeBatch
<1>11. ASSUME NEW t \in Threads, Deliver(t)  PROVE Plain' /\ StackTyped'
  <2>1. StackTyped'
    BY <1>1, <1>11, DeliversNext, GotoTyped
  <2>2. heard' \in Seq(Events)
    <3>1. stack[t][1].batch \in Seq(Events) /\ stack[t][1].batch # << >>
      BY <1>1, <1>11, DeliversNext DEF Frames
    <3>2. stack[t][1].batch[1] \in Events
      BY <3>1, QueueRanges
    <3>. QED  BY <1>1, <1>11, <3>2, QueueRanges DEF Deliver
  <2>. QED  BY <1>1, <1>11, <2>1, <2>2 DEF Deliver
<1>12. ASSUME NEW t \in Threads, Heeded(t)  PROVE Plain' /\ StackTyped'
  <2>1. StackTyped'
    BY <1>1, <1>12, HeedsObserver, GotoTyped
  <2>. QED  BY <1>1, <1>12, <2>1 DEF Heeded
<1>13. ASSUME NEW t \in Threads, Dispatched(t)  PROVE Plain' /\ StackTyped'
  <2>1. stack[t] # << >> /\ StackTyped'
    BY <1>1, <1>13, ReturnTyped DEF Dispatched, At
  <2>. QED  BY <1>1, <1>13, <2>1 DEF Dispatched
<1>. HIDE DEF Plain
<1>. QED
  BY <1>3, <1>4, <1>5, <1>6, <1>7, <1>8, <1>9, <1>10, <1>11, <1>12, <1>13
  DEF Next, Step, Finished

-----------------------------------------------------------------------------
(* No event is left behind, and no thread waits for a mutex it holds. *)

\* Every event in the queue but those of open() has a call that looks there again.
LEMMA StrandedStep ==
    Typed /\ NothingElseIsStranded /\ [Next]_vars => NothingElseIsStranded'
<1>. SUFFICES ASSUME Typed, NothingElseIsStranded, [Next]_vars
              PROVE  NothingElseIsStranded'
  OBVIOUS
<1>1. /\ StackTyped /\ stack \in [Threads -> Seq(Frames)]
      /\ \A t \in Threads : stack[t] # << >> => stack[t][1] \in Frames /\ 1 \in DOMAIN stack[t]
      /\ pending_ \in Seq(Events) /\ Len(pending_) =< MaxPending
  BY FramesTyped DEF Typed, StackTyped, TypeOK
<1>. DEFINE Awaited == \E t \in Threads : \E i \in DOMAIN stack[t] : stack[t][i].pc # "lock"
<1>2. ASSUME UNCHANGED <<stack, pending_>>  PROVE NothingElseIsStranded'
  BY <1>2 DEF NothingElseIsStranded
\* A step that only queues events of open() needs a call that looked there to stay.
<1>3. ASSUME \A event \in Range(pending_') : event \in Range(pending_) \/ event.op = "open",
             Awaited => Awaited'
      PROVE  NothingElseIsStranded'
  BY <1>3 DEF NothingElseIsStranded
<1>4. ASSUME NEW t \in Threads, stack[t] # << >>, NEW f, Goto(t, f), f.pc # "lock", f \in Frames
      PROVE  NothingElseIsStranded'
  <2>1. 1 \in DOMAIN stack'[t] /\ stack'[t][1] = f
    BY <1>1, <1>4, GotoFrames
  <2>. QED  BY <1>4, <2>1 DEF NothingElseIsStranded
<1>5. ASSUME NEW t \in Threads, stack[t] # << >>, stack[t][1].pc = "lock", Return(t)
      PROVE  Awaited => Awaited'
  <2>. SUFFICES ASSUME NEW u \in Threads, NEW i \in DOMAIN stack[u], stack[u][i].pc # "lock"
                PROVE  Awaited'
    OBVIOUS
  <2>1. CASE u = t
    <3>1. i - 1 \in DOMAIN stack'[t] /\ stack'[t][i - 1] = stack[t][(i - 1) + 1]
      BY <1>1, <1>5, <2>1, ReturnFrames
    <3>2. i \in Nat
      BY <1>1, <2>1, LenProperties
    <3>. QED  BY <2>1, <3>1, <3>2
  <2>2. CASE u # t
    BY <1>1, <1>5, <2>2, ReturnFrames
  <2>. QED  BY <2>1, <2>2
<1>6. ASSUME NEW t \in Threads, Call(t)  PROVE NothingElseIsStranded'
  <2>1. PICK op \in Operations : stack' = [stack EXCEPT ![t] = <<Frame(op)>> \o @]
    BY <1>6 DEF Call
  <2>2. Frame(op) \in Frames
    BY <1>6, NewFrame DEF Call, Typed, TypeOK
  <2>3. ASSUME NEW u \in Threads, NEW i \in DOMAIN stack[u], stack[u][i].pc # "lock"
        PROVE  Awaited'
    <3>1. CASE u = t
      <4>1. i + 1 \in DOMAIN stack'[t] /\ stack'[t][i + 1] = stack[t][i]
        BY <1>1, <2>1, <2>2, <3>1, CallFrames
      <4>. QED  BY <2>3, <3>1, <4>1
    <3>2. CASE u # t
      <4>1. stack'[u] = stack[u]
        BY <1>1, <2>1, <2>2, <3>2, CallFrames
      <4>. QED  BY <2>3, <4>1
    <3>. QED  BY <3>1, <3>2
  <2>. QED  BY <1>3, <1>6, <2>3 DEF Call
<1>7. ASSUME NEW t \in Threads, Open(t)  PROVE NothingElseIsStranded'
  <2>1. stack[t] # << >> /\ stack[t][1].pc = "lock" /\ Return(t) /\ stack[t][1] \in Frames
    BY <1>1, <1>7 DEF Open, Enters, At
  <2>2. Awaited => Awaited'
    BY <1>5, <2>1
  <2>3. CASE pending_' = Queued(Event("open", stack[t][1].call, 1))
    BY <1>1, <1>3, <1>7, <2>2, <2>3, Recovered, QueuedEvent DEF Open
  <2>4. CASE UNCHANGED pending_
    BY <1>3, <2>2, <2>4
  <2>. QED  BY <1>7, <2>3, <2>4 DEF Open
<1>8. ASSUME NEW t \in Threads, Apply(t) \/ Change(t)  PROVE NothingElseIsStranded'
  <2>1. /\ Enters(t, "apply") \/ Enters(t, "change")
        /\ Return(t) \/ \E n \in 0 .. EventsPerCall : Publishes(t, n)
        /\ UNCHANGED pending_
    BY <1>8 DEF Apply, Change
  <2>2. stack[t] # << >> /\ stack[t][1].pc = "lock"
    BY <1>1, <2>1, Entered
  <2>3. CASE Return(t)
    BY <1>3, <1>5, <2>1, <2>2, <2>3
  <2>4. CASE ~Return(t)
    BY <1>1, <1>4, <2>1, <2>2, <2>4, Publishing
  <2>. QED  BY <2>3, <2>4
<1>9. ASSUME NEW t \in Threads, Close(t)  PROVE NothingElseIsStranded'
  <2>1. stack[t] # << >> /\ stack[t][1].pc = "lock" /\ UNCHANGED pending_
    BY <1>1, <1>9, Entered DEF Close
  <2>2. CASE Return(t)
    BY <1>3, <1>5, <2>1, <2>2
  <2>3. CASE ~Return(t)
    BY <1>1, <1>4, <1>9, <2>1, <2>3, Closing
  <2>. QED  BY <2>2, <2>3
<1>10. ASSUME NEW t \in Threads, Publish(t) \/ Deliver(t) \/ Heeded(t)
       PROVE  NothingElseIsStranded'
  BY <1>1, <1>4, <1>10, PublishesNext, DeliversNext, HeedsObserver
<1>11. ASSUME NEW t \in Threads, TakeBatch(t) \/ Dispatched(t)  PROVE NothingElseIsStranded'
  <2>1. pending_' = << >>
    BY <1>11 DEF TakeBatch, Dispatched
  <2>2. Range(pending_') = {}
    BY <2>1, EmptyQueue
  <2>. QED  BY <2>2 DEF NothingElseIsStranded
<1>. QED
  BY <1>2, <1>6, <1>7, <1>8, <1>9, <1>10, <1>11 DEF Next, Step, Subscribe, Finished, vars

\* Only close() keeps the mutex, and its thread makes no call before it is closed.
LEMMA HeldStep ==
    ASSUME ~CallsWhenClosed, Typed, ClosedWhileHeld, [Next]_vars
    PROVE  ClosedWhileHeld'
<1>1. StackTyped /\ stack \in [Threads -> Seq(Frames)] /\ pending_ \in Seq(Events)
  BY DEF Typed, StackTyped, TypeOK
<1>2. CASE UNCHANGED <<open_, write_mutex_, stack>>
  BY <1>2 DEF ClosedWhileHeld
\* The holder's own call goes on, or another thread does.
<1>3. ASSUME NEW t \in Threads, stack[t] # << >>, NEW f \in Frames, Goto(t, f),
             UNCHANGED <<open_, write_mutex_>>,
             t = write_mutex_ => f.pc \in {"dispatch", "deliver", "called back"}
      PROVE  ClosedWhileHeld'
  <2>1. \A u \in Threads : u # t => stack'[u] = stack[u]
    BY <1>1, <1>3 DEF Goto
  <2>2. Goto(t, f) /\ f \in Frames /\ stack[t] # << >>
    BY <1>3
  <2>3. stack'[t] # << >> /\ stack'[t][1] = f
    BY <1>1, <2>2, GotoFrames
  <2>. QED  BY <1>3, <2>1, <2>3 DEF ClosedWhileHeld
<1>4. ASSUME NEW t \in Threads, Call(t)  PROVE ClosedWhileHeld'
  <2>1. t # write_mutex_
    BY <1>4 DEF Call, At, ClosedWhileHeld
  <2>2. \A u \in Threads : u # t => stack'[u] = stack[u]
    BY <1>1, <1>4 DEF Call
  <2>. QED  BY <1>4, <2>1, <2>2 DEF Call, ClosedWhileHeld
<1>5. ASSUME NEW t \in Threads, Open(t) \/ Apply(t) \/ Change(t)  PROVE ClosedWhileHeld'
  BY <1>5, DispatchAssumption DEF Open, Apply, Change, Enters, ClosedWhileHeld
<1>6. ASSUME NEW t \in Threads, Close(t)  PROVE ClosedWhileHeld'
  <2>1. CASE UNCHANGED write_mutex_
    BY <1>6, <2>1, DispatchAssumption DEF Close, Enters, ClosedWhileHeld
  <2>2. CASE ~UNCHANGED write_mutex_
    <3>1. write_mutex_' = t /\ ~open_'
      BY <1>6, <2>2 DEF Close
    <3>2. \E f \in Frames : Goto(t, f) /\ f.pc = "dispatch"
      BY <1>1, <1>6, <2>2, Closing
    <3>3. stack'[t] # << >> /\ stack'[t][1].pc = "dispatch"
      BY <1>1, <1>6, <3>2, Entered, GotoFrames DEF Close
    <3>. QED  BY <3>1, <3>3 DEF ClosedWhileHeld
  <2>. QED  BY <2>1, <2>2
<1>7. ASSUME NEW t \in Threads, Publish(t)  PROVE ClosedWhileHeld'
  <2>1. t # write_mutex_ /\ UNCHANGED <<open_, write_mutex_>>
    BY <1>7 DEF Publish, At, ClosedWhileHeld
  <2>. QED  BY <1>1, <1>3, <1>7, <2>1, PublishesNext
<1>8. ASSUME NEW t \in Threads, TakeBatch(t)  PROVE ClosedWhileHeld'
  <2>1. UNCHANGED <<open_, write_mutex_>>
    BY <1>8 DEF TakeBatch
  <2>. QED  BY <1>1, <1>2, <1>3, <1>8, <2>1, TakesBatch
<1>9. ASSUME NEW t \in Threads, Deliver(t)  PROVE ClosedWhileHeld'
  <2>1. UNCHANGED <<open_, write_mutex_>>
    BY <1>9 DEF Deliver
  <2>. QED  BY <1>1, <1>3, <1>9, <2>1, DeliversNext
<1>10. ASSUME NEW t \in Threads, Heeded(t)  PROVE ClosedWhileHeld'
  <2>1. UNCHANGED <<open_, write_mutex_>>
    BY <1>10 DEF Heeded
  <2>. QED  BY <1>1, <1>3, <1>10, <2>1, HeedsObserver
<1>11. ASSUME NEW t \in Threads, Dispatched(t)  PROVE ClosedWhileHeld'
  <2>1. \A u \in Threads : u # t => stack'[u] = stack[u]
    BY <1>1, <1>11 DEF Dispatched, Return
  <2>. QED  BY <1>11, <2>1, DispatchAssumption DEF Dispatched, ClosedWhileHeld
<1>. QED
  BY <1>2, <1>4, <1>5, <1>6, <1>7, <1>8, <1>9, <1>10, <1>11
  DEF Next, Step, Subscribe, Finished, vars

-----------------------------------------------------------------------------
(* No event is told twice. *)

\* No two batches hold the same event.
LEMMA OneBatchHoldsIt ==
    ASSUME InOnePlace
    PROVE  \A u, v \in Threads :
              \A i \in DOMAIN stack[u], j \in DOMAIN stack[v] : \A event :
              event \in Range(stack[u][i].batch) /\ event \in Range(stack[v][j].batch)
              => u = v /\ i = j
BY DEF InOnePlace

\* One call goes on as f and the others stay; they hold none of the events in S.
GoesOnAs(t, f) ==
    \A u \in Threads : /\ DOMAIN stack'[u] = DOMAIN stack[u]
                       /\ \A i \in DOMAIN stack[u] :
                             stack'[u][i] = IF u = t /\ i = 1 THEN f ELSE stack[u][i]
OthersHoldNone(t, S) ==
    \A u \in Threads : \A i \in DOMAIN stack[u] : u # t \/ i # 1 =>
        \A event \in S : event \notin Range(stack[u][i].batch)

\* Batches stay apart when a call gets one that no other call holds any of.
LEMMA BatchesStayApart ==
    ASSUME InOnePlace, NEW t \in Threads, NEW f, GoesOnAs(t, f),
           OthersHoldNone(t, Range(f.batch)),
           NEW u \in Threads, NEW i \in DOMAIN stack[u],
           NEW v \in Threads, NEW j \in DOMAIN stack[v], NEW event,
           event \in Range(stack'[u][i].batch), event \in Range(stack'[v][j].batch)
    PROVE  u = v /\ i = j
<1>1. CASE ~(u = t /\ i = 1) /\ ~(v = t /\ j = 1)
  <2>1. stack'[u][i] = stack[u][i] /\ stack'[v][j] = stack[v][j]
    BY <1>1 DEF GoesOnAs
  <2>. QED  BY <2>1, OneBatchHoldsIt
<1>2. CASE u = t /\ i = 1 /\ ~(v = t /\ j = 1)
  <2>1. stack'[u][i] = f /\ stack'[v][j] = stack[v][j]
    BY <1>2 DEF GoesOnAs
  <2>. QED  BY <1>2, <2>1 DEF OthersHoldNone
<1>3. CASE ~(u = t /\ i = 1) /\ v = t /\ j = 1
  <2>1. stack'[u][i] = stack[u][i] /\ stack'[v][j] = f
    BY <1>3 DEF GoesOnAs
  <2>. QED  BY <1>3, <2>1 DEF OthersHoldNone
<1>. QED  BY <1>1, <1>2, <1>3

\* So an event stays in one place, when the queue and the observer get none either.
LEMMA PlacesStayApart ==
    ASSUME InOnePlace, NEW t \in Threads, NEW f, GoesOnAs(t, f),
           OthersHoldNone(t, Range(f.batch)), OthersHoldNone(t, Range(heard')),
           OthersHoldNone(t, Range(pending_')),
           IsInjective(f.batch), IsInjective(heard'), IsInjective(pending_'),
           \A event \in Range(heard') : event \notin Range(pending_'),
           \A event \in Range(f.batch) : event \notin Range(heard') \cup Range(pending_')
    PROVE  InOnePlace'
<1>1. ASSUME NEW u \in Threads, NEW i \in DOMAIN stack'[u]
      PROVE  /\ i \in DOMAIN stack[u] /\ IsInjective(stack'[u][i].batch)
             /\ \A event \in Range(stack'[u][i].batch) :
                   event \notin Range(heard') /\ event \notin Range(pending_')
  <2>1. i \in DOMAIN stack[u]
    BY <1>1 DEF GoesOnAs
  <2>2. CASE u = t /\ i = 1
    <3>1. stack'[u][i] = f
      BY <2>1, <2>2 DEF GoesOnAs
    <3>. QED  BY <2>1, <3>1
  <2>3. CASE ~(u = t /\ i = 1)
    <3>1. stack'[u][i] = stack[u][i]
      BY <2>1, <2>3 DEF GoesOnAs
    <3>2. IsInjective(stack[u][i].batch)
      BY <2>1 DEF InOnePlace
    <3>. QED  BY <2>1, <2>3, <3>1, <3>2 DEF OthersHoldNone
  <2>. QED  BY <2>2, <2>3
<1>2. ASSUME NEW u \in Threads, NEW i \in DOMAIN stack'[u],
             NEW v \in Threads, NEW j \in DOMAIN stack'[v],
             NEW event \in Range(stack'[u][i].batch), event \in Range(stack'[v][j].batch)
      PROVE  u = v /\ i = j
  <2>1. i \in DOMAIN stack[u] /\ j \in DOMAIN stack[v]
    BY <1>1
  <2>. QED  BY <1>2, <2>1, BatchesStayApart
<1>. QED  BY <1>1, <1>2 DEF InOnePlace

\* A call that goes on passes events from its own to the queue, from the queue to
\* its batch and from there to the observer, and keeps none of those it passed on.
LEMMA GoingOnOnce ==
    ASSUME Typed, Once, UNCHANGED calls,
           NEW t \in Threads, stack[t] # << >>, NEW f \in Frames, Goto(t, f),
           f.call = stack[t][1].call, f.pc # "lock",
           IsInjective(f.own), IsInjective(f.batch), IsInjective(heard'), IsInjective(pending_'),
           \A event \in Range(f.own) :
               /\ event.call = f.call
               /\ event \in Range(stack[t][1].own) \/ stack[t][1].pc = "lock",
           \A event \in Range(heard') \cup Range(pending_') \cup Range(f.batch) :
               \/ event \in Range(heard) \cup Range(pending_) \cup Range(stack[t][1].batch)
               \/ event \in Range(stack[t][1].own) \ Range(f.own),
           \A event \in Range(heard') : event \notin Range(pending_'),
           \A event \in Range(f.batch) : event \notin Range(heard') \cup Range(pending_')
    PROVE  Once'
<1>1. stack \in [Threads -> Seq(Frames)] /\ 1 \in DOMAIN stack[t]
  BY FramesTyped DEF Typed, StackTyped
<1>2. \A u \in Threads : /\ DOMAIN stack'[u] = DOMAIN stack[u]
                         /\ \A i \in DOMAIN stack[u] :
                               stack'[u][i] = IF u = t /\ i = 1 THEN f ELSE stack[u][i]
  BY <1>1, GotoFrames
<1>. DEFINE frame == stack[t][1]
            Released(event) ==
                event \in Range(heard) \cup Range(pending_) \cup Range(frame.batch)
\* What another call holds is neither in what was released nor in what t publishes.
<1>3. ASSUME NEW u \in Threads, NEW i \in DOMAIN stack[u], u # t \/ i # 1
      PROVE  /\ stack[u][i].call # frame.call
             /\ \A event : Released(event) \/ event \in Range(frame.own) =>
                   /\ event \notin Range(stack[u][i].batch)
                   /\ event \notin Range(stack[u][i].own)
                   /\ stack[u][i].pc = "lock" => event.call # stack[u][i].call
             /\ \A event \in Range(stack[u][i].batch) :
                   /\ event \notin Range(frame.own)
                   /\ frame.pc = "lock" => event.call # frame.call
  <2>1. stack[u][i].call # frame.call
    BY <1>1, <1>3 DEF Once, Numbered
  <2>2. ASSUME NEW event, Released(event)
        PROVE  /\ event \notin Range(stack[u][i].batch)
               /\ event \notin Range(stack[u][i].own)
               /\ stack[u][i].pc = "lock" => event.call # stack[u][i].call
    <3>1. event \notin Range(stack[u][i].batch)
      <4>1. CASE event \in Range(heard) \cup Range(pending_)
        BY <4>1 DEF Once, InOnePlace
      <4>2. CASE event \in Range(stack[t][1].batch)
        <5>1. \A v \in Threads : \A j \in DOMAIN stack[v] :
                 event \in Range(stack[v][j].batch) => t = v /\ 1 = j
          BY <1>1, <4>2 DEF Once, InOnePlace
        <5>. QED  BY <1>3, <5>1
      <4>. QED  BY <2>2, <4>1, <4>2
    <3>2. /\ event \notin Range(stack[u][i].own)
          /\ stack[u][i].pc = "lock" => event.call # stack[u][i].call
      BY <1>1, <2>2 DEF Once, Unpublished
    <3>. QED  BY <3>1, <3>2
  <2>3. ASSUME NEW event \in Range(frame.own)
        PROVE  /\ event \notin Range(stack[u][i].batch)
               /\ event \notin Range(stack[u][i].own)
               /\ event.call # stack[u][i].call
    <3>1. event.call = frame.call
      BY <1>1 DEF Once, Numbered
    <3>2. \A e \in Range(stack[u][i].own) : e.call = stack[u][i].call
      BY DEF Once, Numbered
    <3>3. event \notin Range(stack[u][i].batch)
      BY <1>1 DEF Once, Unpublished
    <3>. QED  BY <2>1, <3>1, <3>2, <3>3
  <2>4. \A event \in Range(stack[u][i].batch) : /\ event \notin Range(frame.own)
                                               /\ frame.pc = "lock" => event.call # frame.call
    BY <1>1 DEF Once, Unpublished
  <2>. QED  BY <2>1, <2>2, <2>3, <2>4
\* What was released is not among what t is still to publish.
<1>4. \A event : Released(event) =>
          event \notin Range(frame.own) /\ (frame.pc = "lock" => event.call # frame.call)
  BY <1>1 DEF Once, Unpublished
<1>5. \A event \in Range(heard') \cup Range(pending_') \cup Range(f.batch) :
          event \notin Range(f.own) /\ (Released(event) \/ event \in Range(frame.own))
  BY <1>4
<1>6. Numbered'
  <2>1. \A event \in Range(heard') \cup Range(pending_') \cup Range(f.batch) :
            event.call =< calls
    <3>1. \A event \in Range(frame.own) : event.call =< calls
      BY <1>1 DEF Once, Numbered
    <3>2. \A event : Released(event) => event.call =< calls
      BY <1>1 DEF Once, Numbered
    <3>. QED  BY <1>5, <3>1, <3>2
  <2>2. ASSUME NEW u \in Threads, NEW i \in DOMAIN stack'[u]
        PROVE  /\ stack'[u][i].call = stack[u][i].call /\ stack'[u][i].call =< calls
               /\ \A event \in Range(stack'[u][i].batch) : event.call =< calls
               /\ \A event \in Range(stack'[u][i].own) : event.call = stack'[u][i].call
    <3>1. CASE u = t /\ i = 1
      BY <1>1, <1>2, <2>1, <3>1 DEF Once, Numbered
    <3>2. CASE ~(u = t /\ i = 1)
      BY <1>1, <1>2, <3>2 DEF Once, Numbered
    <3>. QED  BY <3>1, <3>2
  <2>3. ASSUME NEW u \in Threads, NEW i \in DOMAIN stack'[u],
               NEW v \in Threads, NEW j \in DOMAIN stack'[v],
               stack'[u][i].call = stack'[v][j].call
        PROVE  u = v /\ i = j
    BY <1>2, <2>2, <2>3 DEF Once, Numbered
  <2>. QED  BY <2>1, <2>2, <2>3 DEF Numbered
<1>7. Unpublished'
  <2>1. ASSUME NEW u \in Threads, NEW i \in DOMAIN stack'[u]
        PROVE  /\ IsInjective(stack'[u][i].own)
               /\ \A event \in Range(heard') \cup Range(pending_') \cup Range(f.batch) :
                     /\ event \notin Range(stack'[u][i].own)
                     /\ stack'[u][i].pc = "lock" => event.call # stack'[u][i].call
    <3>1. CASE u = t /\ i = 1
      BY <1>1, <1>2, <1>5, <3>1
    <3>2. CASE ~(u = t /\ i = 1)
      <4>1. i \in DOMAIN stack[u] /\ stack'[u][i] = stack[u][i]
        BY <1>2, <3>2
      <4>2. IsInjective(stack[u][i].own)
        BY <4>1 DEF Once, Unpublished
      <4>. QED  BY <1>3, <1>5, <3>2, <4>1, <4>2
    <3>. QED  BY <3>1, <3>2
  <2>2. ASSUME NEW u \in Threads, NEW i \in DOMAIN stack'[u],
               NEW v \in Threads, NEW j \in DOMAIN stack'[v],
               NEW event \in Range(stack'[v][j].batch)
        PROVE  /\ event \notin Range(stack'[u][i].own)
               /\ stack'[u][i].pc = "lock" => event.call # stack'[u][i].call
    <3>1. CASE v = t /\ j = 1
      BY <1>1, <1>2, <2>1, <3>1
    <3>2. CASE ~(v = t /\ j = 1) /\ u = t /\ i = 1
      BY <1>1, <1>2, <1>3, <3>2
    <3>3. CASE ~(v = t /\ j = 1) /\ ~(u = t /\ i = 1)
      <4>1. /\ i \in DOMAIN stack[u] /\ stack'[u][i] = stack[u][i]
            /\ j \in DOMAIN stack[v] /\ stack'[v][j] = stack[v][j]
        BY <1>2, <3>3
      <4>. QED  BY <4>1 DEF Once, Unpublished
    <3>. QED  BY <3>1, <3>2, <3>3
  <2>. QED  BY <2>1, <2>2 DEF Unpublished
<1>8. InOnePlace'
  <2>1. ASSUME NEW S, \A event \in S : Released(event) \/ event \in Range(frame.own)
        PROVE  OthersHoldNone(t, S)
    BY <1>3, <2>1 DEF OthersHoldNone
  <2>2. /\ OthersHoldNone(t, Range(f.batch)) /\ OthersHoldNone(t, Range(heard'))
        /\ OthersHoldNone(t, Range(pending_'))
    BY <1>5, <2>1
  <2>3. InOnePlace /\ GoesOnAs(t, f)
    BY <1>2 DEF Once, GoesOnAs
  <2>. QED  BY <2>2, <2>3, PlacesStayApart
<1>. QED  BY <1>6, <1>7, <1>8 DEF Once

\* A call that returns, and one that is made, keep the others as they were.
LEMMA ReturnOnce ==
    ASSUME Typed, Once, UNCHANGED <<heard, calls>>,
           NEW t \in Threads, stack[t] # << >>, Return(t), IsInjective(pending_'),
           \A event \in Range(pending_') :
               \/ event \in Range(pending_)
               \/ stack[t][1].pc = "lock" /\ event.call = stack[t][1].call
    PROVE  Once'
<1>1. stack \in [Threads -> Seq(Frames)] /\ 1 \in DOMAIN stack[t] /\ stack[t][1] \in Frames
  BY FramesTyped DEF Typed, StackTyped
<1>. DEFINE from(u, i) == IF u = t THEN i + 1 ELSE i
<1>2. ASSUME NEW u \in Threads, NEW i \in DOMAIN stack'[u]
      PROVE  /\ from(u, i) \in DOMAIN stack[u] /\ stack'[u][i] = stack[u][from(u, i)]
             /\ i \in Nat /\ ~(u = t /\ from(u, i) = 1)
  <2>1. stack' \in [Threads -> Seq(Frames)]
    BY <1>1, ReturnFrames
  <2>2. i \in Nat /\ i # 0
    BY <2>1, LenProperties
  <2>3. CASE u = t
    BY <1>1, <2>2, <2>3, ReturnFrames
  <2>4. CASE u # t
    BY <1>1, <2>2, <2>4, ReturnFrames
  <2>. QED  BY <2>3, <2>4
<1>3. \A u, v \in Threads : \A i \in DOMAIN stack'[u], j \in DOMAIN stack'[v] :
          u = v /\ from(u, i) = from(v, j) => i = j
  BY <1>2
<1>. HIDE DEF from
\* An event queued now was nowhere before, and no other call has its number.
<1>4. ASSUME NEW event \in Range(pending_'), event \notin Range(pending_)
      PROVE  /\ event \notin Range(heard) /\ event.call =< calls
             /\ \A u \in Threads : \A i \in DOMAIN stack[u] :
                   /\ event \notin Range(stack[u][i].batch)
                   /\ ~(u = t /\ i = 1) => /\ event.call # stack[u][i].call
                                           /\ event \notin Range(stack[u][i].own)
  <2>1. stack[t][1].pc = "lock" /\ event.call = stack[t][1].call
    BY <1>4
  <2>2. \A u \in Threads : \A i \in DOMAIN stack[u] :
            ~(u = t /\ i = 1) => /\ event.call # stack[u][i].call
                                 /\ event \notin Range(stack[u][i].own)
    BY <1>1, <2>1 DEF Once, Numbered
  <2>3. event \notin Range(heard) /\ event.call =< calls
    BY <1>1, <2>1 DEF Once, Numbered, Unpublished
  <2>4. \A u \in Threads : \A i \in DOMAIN stack[u] : event \notin Range(stack[u][i].batch)
    BY <1>1, <2>1 DEF Once, Unpublished
  <2>. QED  BY <2>2, <2>3, <2>4
<1>5. Numbered'
  <2>1. \A event \in Range(heard') \cup Range(pending_') : event.call =< calls
    BY <1>4 DEF Once, Numbered
  <2>2. ASSUME NEW u \in Threads, NEW i \in DOMAIN stack'[u]
        PROVE  /\ stack'[u][i].call =< calls
               /\ \A event \in Range(stack'[u][i].batch) : event.call =< calls
               /\ \A event \in Range(stack'[u][i].own) : event.call = stack'[u][i].call
               /\ \A v \in Threads : \A j \in DOMAIN stack'[v] :
                     stack'[u][i].call = stack'[v][j].call => u = v /\ i = j
    <3>1. from(u, i) \in DOMAIN stack[u] /\ stack'[u][i] = stack[u][from(u, i)]
      BY <1>2
    <3>2. /\ stack'[u][i].call =< calls
          /\ \A event \in Range(stack'[u][i].batch) : event.call =< calls
          /\ \A event \in Range(stack'[u][i].own) : event.call = stack'[u][i].call
      BY <3>1 DEF Once, Numbered
    <3>3. ASSUME NEW v \in Threads, NEW j \in DOMAIN stack'[v],
                 stack'[u][i].call = stack'[v][j].call
          PROVE  u = v /\ i = j
      <4>1. from(v, j) \in DOMAIN stack[v] /\ stack'[v][j] = stack[v][from(v, j)]
        BY <1>2
      <4>2. u = v /\ from(u, i) = from(v, j)
        BY <3>1, <3>3, <4>1 DEF Once, Numbered
      <4>. QED  BY <1>3, <4>2
    <3>. QED  BY <3>2, <3>3
  <2>. QED  BY <2>1, <2>2 DEF Numbered
<1>6. Unpublished'
  <2>1. ASSUME NEW u \in Threads, NEW i \in DOMAIN stack'[u]
        PROVE  /\ IsInjective(stack'[u][i].own)
               /\ \A event \in Range(heard') \cup Range(pending_') :
                     /\ event \notin Range(stack'[u][i].own)
                     /\ stack'[u][i].pc = "lock" => event.call # stack'[u][i].call
    <3>1. /\ from(u, i) \in DOMAIN stack[u] /\ stack'[u][i] = stack[u][from(u, i)]
          /\ ~(u = t /\ from(u, i) = 1)
      BY <1>2
    <3>2. \A event \in Range(heard) \cup Range(pending_) :
              /\ event \notin Range(stack'[u][i].own)
              /\ stack'[u][i].pc = "lock" => event.call # stack'[u][i].call
      BY <3>1 DEF Once, Unpublished
    <3>3. IsInjective(stack'[u][i].own)
      BY <3>1 DEF Once, Unpublished
    <3>. QED  BY <1>4, <3>1, <3>2, <3>3
  <2>2. ASSUME NEW u \in Threads, NEW i \in DOMAIN stack'[u],
               NEW v \in Threads, NEW j \in DOMAIN stack'[v],
               NEW event \in Range(stack'[v][j].batch)
        PROVE  /\ event \notin Range(stack'[u][i].own)
               /\ stack'[u][i].pc = "lock" => event.call # stack'[u][i].call
    <3>1. /\ from(u, i) \in DOMAIN stack[u] /\ stack'[u][i] = stack[u][from(u, i)]
          /\ from(v, j) \in DOMAIN stack[v] /\ stack'[v][j] = stack[v][from(v, j)]
      BY <1>2
    <3>. QED  BY <3>1 DEF Once, Unpublished
  <2>. QED  BY <2>1, <2>2 DEF Unpublished
<1>7. InOnePlace'
  <2>1. IsInjective(heard') /\ \A event \in Range(heard') : event \notin Range(pending_')
    BY <1>4 DEF Once, InOnePlace
  <2>2. ASSUME NEW u \in Threads, NEW i \in DOMAIN stack'[u]
        PROVE  /\ IsInjective(stack'[u][i].batch)
               /\ \A event \in Range(stack'[u][i].batch) :
                     event \notin Range(heard') /\ event \notin Range(pending_')
    <3>1. from(u, i) \in DOMAIN stack[u] /\ stack'[u][i] = stack[u][from(u, i)]
      BY <1>2
    <3>. QED  BY <1>4, <3>1 DEF Once, InOnePlace
  <2>3. ASSUME NEW u \in Threads, NEW i \in DOMAIN stack'[u],
               NEW v \in Threads, NEW j \in DOMAIN stack'[v],
               NEW event \in Range(stack'[u][i].batch), event \in Range(stack'[v][j].batch)
        PROVE  u = v /\ i = j
    <3>1. /\ from(u, i) \in DOMAIN stack[u] /\ stack'[u][i] = stack[u][from(u, i)]
          /\ from(v, j) \in DOMAIN stack[v] /\ stack'[v][j] = stack[v][from(v, j)]
      BY <1>2
    <3>2. u = v /\ from(u, i) = from(v, j)
      BY <2>3, <3>1 DEF Once, InOnePlace
    <3>. QED  BY <1>3, <3>2
  <2>. QED  BY <2>1, <2>2, <2>3 DEF InOnePlace
<1>. QED  BY <1>5, <1>6, <1>7 DEF Once

LEMMA CallOnce ==
    ASSUME Typed, Once, NEW t \in Threads, Call(t)
    PROVE  Once'
<1>1. stack \in [Threads -> Seq(Frames)] /\ calls \in 0 .. MaxCalls
  BY DEF Typed, StackTyped, TypeOK
<1>2. /\ calls < MaxCalls /\ calls' = calls + 1 /\ UNCHANGED <<heard, pending_>>
      /\ calls \in Nat
  <2>1. calls < MaxCalls /\ calls' = calls + 1 /\ UNCHANGED <<heard, pending_>>
    BY DEF Call
  <2>. QED  BY <1>1, <2>1, DispatchAssumption
<1>3. PICK op \in Operations : stack' = [stack EXCEPT ![t] = <<Frame(op)>> \o @]
  BY DEF Call
<1>. DEFINE new        == Frame(op)
            from(u, i) == IF u = t THEN i - 1 ELSE i
<1>4. /\ new \in Frames /\ new.call = calls + 1
      /\ Range(new.own) = {} /\ Range(new.batch) = {}
      /\ IsInjective(new.own) /\ IsInjective(new.batch)
  <2>1. /\ new \in Frames /\ new.call = calls + 1
        /\ new.own = << >> /\ new.batch = << >>
    BY <1>1, <1>2, NewFrame
  <2>. HIDE DEF new
  <2>. QED  BY <2>1, EmptyQueue
<1>. HIDE DEF new
<1>5. ASSUME NEW u \in Threads, NEW i \in DOMAIN stack'[u]
      PROVE  /\ i \in Nat
             /\ u = t /\ i = 1 => stack'[u][i] = new
             /\ ~(u = t /\ i = 1) => /\ from(u, i) \in DOMAIN stack[u]
                                     /\ stack'[u][i] = stack[u][from(u, i)]
  <2>1. stack' \in [Threads -> Seq(Frames)]
    BY <1>1, <1>3, <1>4, CallFrames DEF new
  <2>2. i \in Nat
    BY <2>1, LenProperties
  <2>3. CASE u = t
    BY <1>1, <1>3, <1>4, <2>2, <2>3, CallFrames DEF new
  <2>4. CASE u # t
    BY <1>1, <1>3, <1>4, <2>2, <2>4, CallFrames DEF new
  <2>. QED  BY <2>3, <2>4
<1>6. \A u, v \in Threads : \A i \in DOMAIN stack'[u], j \in DOMAIN stack'[v] :
          u = v /\ from(u, i) = from(v, j) => i = j
  BY <1>5
<1>. HIDE DEF from
\* The events there are carry older numbers than the new call's.
<1>. DEFINE older(n) == n =< calls' /\ n # new.call
<1>7. /\ \A event \in Range(heard) \cup Range(pending_) : older(event.call)
      /\ \A u \in Threads : \A i \in DOMAIN stack[u] :
            /\ older(stack[u][i].call)
            /\ \A event \in Range(stack[u][i].batch) : older(event.call)
  <2>1. \A event \in Range(heard) \cup Range(pending_) : event.call \in Nat /\ event.call =< calls
    <3>1. heard \in Seq(Events) /\ pending_ \in Seq(Events)
      BY DEF Typed, TypeOK
    <3>2. \A event \in Range(heard) \cup Range(pending_) : event \in Events
      BY <3>1, LenProperties, ElementOfSeq DEF Range
    <3>. QED  BY <3>2, DispatchAssumption DEF Once, Numbered, Events
  <2>2. ASSUME NEW u \in Threads, NEW i \in DOMAIN stack[u]
        PROVE  /\ stack[u][i].call \in Nat /\ stack[u][i].call =< calls
               /\ \A event \in Range(stack[u][i].batch) :
                     event.call \in Nat /\ event.call =< calls
    <3>1. stack[u][i] \in Frames
      BY <1>1, FramesTyped
    <3>2. stack[u][i].batch \in Seq(Events)
      BY <3>1 DEF Frames
    <3>3. \A event \in Range(stack[u][i].batch) : event \in Events
      BY <3>2, LenProperties, ElementOfSeq DEF Range
    <3>. QED  BY <3>1, <3>3, DispatchAssumption DEF Once, Numbered, Events, Frames
  <2>3. \A n \in Nat : n =< calls => older(n)
    BY <1>2, <1>4
  <2>. HIDE DEF older
  <2>. QED  BY <2>1, <2>2, <2>3
<1>8. Numbered'
  <2>1. ASSUME NEW u \in Threads, NEW i \in DOMAIN stack'[u]
        PROVE  /\ stack'[u][i].call =< calls'
               /\ \A event \in Range(stack'[u][i].batch) : event.call =< calls'
               /\ \A event \in Range(stack'[u][i].own) : event.call = stack'[u][i].call
    <3>1. CASE u = t /\ i = 1
      BY <1>2, <1>4, <1>5, <3>1
    <3>2. CASE ~(u = t /\ i = 1)
      BY <1>5, <1>7, <3>2 DEF Once, Numbered
    <3>. QED  BY <3>1, <3>2
  <2>2. ASSUME NEW u \in Threads, NEW i \in DOMAIN stack'[u],
               NEW v \in Threads, NEW j \in DOMAIN stack'[v],
               stack'[u][i].call = stack'[v][j].call
        PROVE  u = v /\ i = j
    <3>1. CASE ~(u = t /\ i = 1) /\ ~(v = t /\ j = 1)
      <4>1. /\ from(u, i) \in DOMAIN stack[u] /\ stack'[u][i] = stack[u][from(u, i)]
            /\ from(v, j) \in DOMAIN stack[v] /\ stack'[v][j] = stack[v][from(v, j)]
        BY <1>5, <3>1
      <4>2. u = v /\ from(u, i) = from(v, j)
        BY <2>2, <4>1 DEF Once, Numbered
      <4>. QED  BY <1>6, <4>2
    <3>2. CASE u = t /\ i = 1 /\ ~(v = t /\ j = 1)
      BY <1>5, <1>7, <2>2, <3>2
    <3>3. CASE ~(u = t /\ i = 1) /\ v = t /\ j = 1
      BY <1>5, <1>7, <2>2, <3>3
    <3>. QED  BY <3>1, <3>2, <3>3
  <2>. QED  BY <1>2, <1>7, <2>1, <2>2 DEF Numbered
<1>9. Unpublished'
  <2>1. ASSUME NEW u \in Threads, NEW i \in DOMAIN stack'[u]
        PROVE  /\ IsInjective(stack'[u][i].own)
               /\ \A event \in Range(heard) \cup Range(pending_) :
                     /\ event \notin Range(stack'[u][i].own)
                     /\ stack'[u][i].pc = "lock" => event.call # stack'[u][i].call
               /\ \A v \in Threads : \A j \in DOMAIN stack[v] :
                     \A event \in Range(stack[v][j].batch) :
                        /\ event \notin Range(stack'[u][i].own)
                        /\ stack'[u][i].pc = "lock" => event.call # stack'[u][i].call
    <3>1. CASE u = t /\ i = 1
      BY <1>4, <1>5, <1>7, <3>1
    <3>2. CASE ~(u = t /\ i = 1)
      BY <1>5, <3>2 DEF Once, Unpublished
    <3>. QED  BY <3>1, <3>2
  <2>2. ASSUME NEW v \in Threads, NEW j \in DOMAIN stack'[v]
        PROVE  \/ Range(stack'[v][j].batch) = {}
               \/ \E k \in DOMAIN stack[v] : stack'[v][j] = stack[v][k]
    BY <1>4, <1>5
  <2>. QED  BY <1>2, <2>1, <2>2 DEF Unpublished
<1>10. InOnePlace'
  <2>1. ASSUME NEW u \in Threads, NEW i \in DOMAIN stack'[u]
        PROVE  /\ IsInjective(stack'[u][i].batch)
               /\ \A event \in Range(stack'[u][i].batch) :
                     event \notin Range(heard) /\ event \notin Range(pending_)
    <3>1. CASE u = t /\ i = 1
      BY <1>4, <1>5, <3>1
    <3>2. CASE ~(u = t /\ i = 1)
      BY <1>5, <3>2 DEF Once, InOnePlace
    <3>. QED  BY <3>1, <3>2
  <2>2. ASSUME NEW u \in Threads, NEW i \in DOMAIN stack'[u],
               NEW v \in Threads, NEW j \in DOMAIN stack'[v],
               NEW event \in Range(stack'[u][i].batch), event \in Range(stack'[v][j].batch)
        PROVE  u = v /\ i = j
    <3>1. ~(u = t /\ i = 1) /\ ~(v = t /\ j = 1)
      BY <1>4, <1>5, <2>2
    <3>2. /\ from(u, i) \in DOMAIN stack[u] /\ stack'[u][i] = stack[u][from(u, i)]
          /\ from(v, j) \in DOMAIN stack[v] /\ stack'[v][j] = stack[v][from(v, j)]
      BY <1>5, <3>1
    <3>3. /\ event \in Range(stack[u][from(u, i)].batch)
          /\ event \in Range(stack[v][from(v, j)].batch)
      BY <2>2, <3>2
    <3>4. u = v /\ from(u, i) = from(v, j)
      BY <3>2, <3>3 DEF Once, InOnePlace
    <3>. QED  BY <1>6, <3>4
  <2>. QED  BY <1>2, <2>1, <2>2 DEF Once, InOnePlace
<1>. QED  BY <1>8, <1>9, <1>10 DEF Once

LEMMA OnceStep == Typed /\ Once /\ [Next]_vars => Once'
<1>. SUFFICES ASSUME Typed, Once, [Next]_vars  PROVE Once'
  OBVIOUS
<1>1. /\ StackTyped /\ stack \in [Threads -> Seq(Frames)]
      /\ pending_ \in Seq(Events) /\ Len(pending_) =< MaxPending /\ heard \in Seq(Events)
  BY DEF Typed, StackTyped, TypeOK
<1>2. CASE UNCHANGED <<stack, pending_, heard, calls>>
  BY <1>2 DEF Once, Numbered, Unpublished, InOnePlace
\* What holds of the frame that moves.
<1>3. ASSUME NEW t \in Threads, 1 \in DOMAIN stack[t], stack[t][1] \in Frames
      PROVE  /\ IsInjective(stack[t][1].own) /\ IsInjective(stack[t][1].batch)
             /\ stack[t][1].own \in Seq(Events) /\ stack[t][1].batch \in Seq(Events)
             /\ \A event \in Range(stack[t][1].own) :
                   /\ event.call = stack[t][1].call
                   /\ event \notin Range(heard) /\ event \notin Range(pending_)
                   /\ event \notin Range(stack[t][1].batch)
             /\ \A event \in Range(stack[t][1].batch) :
                   event \notin Range(heard) /\ event \notin Range(pending_)
             /\ IsInjective(heard) /\ IsInjective(pending_)
             /\ \A event \in Range(heard) : event \notin Range(pending_)
  BY <1>3 DEF Once, Numbered, Unpublished, InOnePlace, Frames
<1>4. ASSUME NEW t \in Threads, Call(t)  PROVE Once'
  BY <1>4, CallOnce
<1>5. ASSUME NEW t \in Threads, Open(t)  PROVE Once'
  <2>1. stack[t] # << >> /\ stack[t][1].pc = "lock" /\ 1 \in DOMAIN stack[t]
    BY <1>1, <1>5, Entered DEF Open
  <2>2. /\ IsInjective(pending_')
        /\ \A event \in Range(pending_') :
              event \in Range(pending_) \/ event.call = stack[t][1].call
    <3>1. CASE UNCHANGED pending_
      BY <3>1 DEF Once, InOnePlace
    <3>2. CASE ~UNCHANGED pending_
      <4>. DEFINE event == Event("open", stack[t][1].call, 1)
      <4>1. pending_' = Queued(event)
        BY <1>5, <3>2 DEF Open
      <4>2. event \in Events /\ event.call = stack[t][1].call
        BY <1>1, <1>5, Recovered DEF Open
      <4>3. event \notin Range(pending_)
        BY <2>1, <4>2 DEF Once, Unpublished
      <4>. HIDE DEF event
      <4>. QED  BY <1>1, <4>1, <4>2, <4>3, QueuedEvent DEF Once, InOnePlace
    <3>. QED  BY <3>1, <3>2
  <2>. QED  BY <1>5, <2>1, <2>2, ReturnOnce DEF Open
<1>6. ASSUME NEW t \in Threads, stack[t] # << >>, Return(t),
             UNCHANGED <<pending_, heard, calls>>
      PROVE  Once'
  BY <1>6, ReturnOnce DEF Once, InOnePlace
<1>7. ASSUME NEW t \in Threads, Apply(t) \/ Change(t)  PROVE Once'
  <2>1. /\ Enters(t, "apply") \/ Enters(t, "change")
        /\ Return(t) \/ \E n \in 0 .. EventsPerCall : Publishes(t, n)
        /\ UNCHANGED <<pending_, heard, calls>>
    BY <1>7 DEF Apply, Change
  <2>2. /\ stack[t] # << >> /\ stack[t][1].pc = "lock" /\ 1 \in DOMAIN stack[t]
        /\ stack[t][1] \in Frames
    BY <1>1, <2>1, Entered
  <2>3. CASE Return(t)
    BY <1>6, <2>1, <2>2, <2>3
  <2>4. CASE ~Return(t)
    <3>1. PICK f \in Frames :
             /\ Goto(t, f)
             /\ f.pc = "publish" /\ f.call = stack[t][1].call /\ f.batch = stack[t][1].batch
             /\ IsInjective(f.own) /\ \A event \in Range(f.own) : event.call = f.call
      BY <1>1, <2>1, <2>4, Publishing
    <3>. QED  BY <1>3, <2>1, <2>2, <3>1, GoingOnOnce
  <2>. QED  BY <2>3, <2>4
<1>8. ASSUME NEW t \in Threads, stack[t] # << >>, 1 \in DOMAIN stack[t], stack[t][1] \in Frames,
             NEW f \in Frames, Goto(t, f), f.pc # "lock", f.call = stack[t][1].call,
             f.own = stack[t][1].own, f.batch = stack[t][1].batch,
             UNCHANGED <<pending_, heard, calls>>
      PROVE  Once'
  BY <1>3, <1>8, GoingOnOnce
<1>9. ASSUME NEW t \in Threads, Close(t)  PROVE Once'
  <2>1. /\ stack[t] # << >> /\ 1 \in DOMAIN stack[t] /\ stack[t][1] \in Frames
        /\ UNCHANGED <<pending_, heard, calls>>
    BY <1>1, <1>9, Entered DEF Close
  <2>2. CASE Return(t)
    BY <1>6, <2>1, <2>2
  <2>3. CASE ~Return(t)
    BY <1>1, <1>8, <1>9, <2>1, <2>3, Closing
  <2>. QED  BY <2>2, <2>3
<1>10. ASSUME NEW t \in Threads, Publish(t)  PROVE Once'
  <2>1. /\ stack[t] # << >> /\ 1 \in DOMAIN stack[t] /\ stack[t][1] \in Frames
        /\ UNCHANGED <<heard, calls>>
    BY <1>1, <1>10, PublishesNext DEF Publish
  <2>. DEFINE own == stack[t][1].own
  <2>2. PICK f \in Frames :
           /\ Goto(t, f) /\ f.pc # "lock"
           /\ f.call = stack[t][1].call /\ f.batch = stack[t][1].batch
           /\ \/ f.own = own /\ UNCHANGED pending_
              \/ own # << >> /\ f.own = Tail(own) /\ pending_' = Queued(own[1])
    BY <1>1, <1>10, PublishesNext
  <2>3. CASE f.own = own /\ UNCHANGED pending_
    BY <1>8, <2>1, <2>2, <2>3
  <2>4. CASE own # << >> /\ f.own = Tail(own) /\ pending_' = Queued(own[1])
    <3>1. own \in Seq(Events) /\ IsInjective(own)
      BY <1>3, <2>1
    <3>2. /\ own[1] \in Events /\ Range(own) = {own[1]} \cup Range(f.own)
          /\ IsInjective(f.own) /\ own[1] \notin Range(f.own)
      BY <2>4, <3>1, QueueRanges
    <3>3. own[1] \notin Range(pending_) /\ own[1] \notin Range(heard)
      BY <1>3, <2>1, <3>2
    <3>4. /\ Range(pending_') \subseteq Range(pending_) \cup {own[1]}
          /\ IsInjective(pending_')
      BY <1>1, <1>3, <2>1, <2>4, <3>2, <3>3, QueuedEvent
    <3>. HIDE DEF own
    <3>5. /\ IsInjective(f.batch) /\ IsInjective(heard')
          /\ \A event \in Range(own) : /\ event.call = f.call
                                       /\ event \notin Range(f.batch) /\ event \notin Range(heard)
          /\ \A event \in Range(heard) : event \notin Range(pending_)
          /\ \A event \in Range(f.batch) :
                event \notin Range(heard) /\ event \notin Range(pending_)
      BY <1>3, <2>1, <2>2 DEF own
    <3>6. /\ \A event \in Range(heard') : event \notin Range(pending_')
          /\ \A event \in Range(f.batch) : event \notin Range(heard') \cup Range(pending_')
          /\ \A event \in Range(heard') \cup Range(pending_') \cup Range(f.batch) :
                \/ event \in Range(heard) \cup Range(pending_) \cup Range(f.batch)
                \/ event \in Range(own) \ Range(f.own)
      BY <2>1, <3>2, <3>4, <3>5
    <3>. QED  BY <2>1, <2>2, <3>2, <3>4, <3>5, <3>6, GoingOnOnce DEF own
  <2>. QED  BY <2>2, <2>3, <2>4
<1>11. ASSUME NEW t \in Threads, TakeBatch(t)  PROVE Once'
  <2>1. /\ stack[t] # << >> /\ 1 \in DOMAIN stack[t] /\ stack[t][1] \in Frames
        /\ stack[t][1].pc # "lock" /\ UNCHANGED <<heard, calls>>
    BY <1>1, <1>11, TakesBatch DEF TakeBatch
  <2>2. Range(pending_') = {} /\ IsInjective(pending_')
    BY <1>11, EmptyQueue DEF TakeBatch
  <2>3. CASE UNCHANGED stack
    BY <2>1, <2>2, <2>3 DEF Once, Numbered, Unpublished, InOnePlace
  <2>4. CASE ~UNCHANGED stack
    <3>1. PICK f \in Frames :
             /\ Goto(t, f)
             /\ f.pc = "deliver" /\ f.call = stack[t][1].call /\ f.own = stack[t][1].own
             /\ f.batch = pending_
      BY <1>1, <1>11, <2>4, TakesBatch
    <3>. QED  BY <1>3, <2>1, <2>2, <3>1, GoingOnOnce
  <2>. QED  BY <2>3, <2>4
<1>12. ASSUME NEW t \in Threads, Deliver(t)  PROVE Once'
  <2>. DEFINE batch == stack[t][1].batch
  <2>1. /\ stack[t] # << >> /\ 1 \in DOMAIN stack[t] /\ stack[t][1] \in Frames
        /\ batch # << >>
    BY <1>1, <1>12, DeliversNext
  <2>2. heard' = Append(heard, batch[1]) /\ UNCHANGED <<pending_, calls>>
    BY <1>12 DEF Deliver
  <2>3. PICK f \in Frames :
           /\ Goto(t, f) /\ f.pc # "lock"
           /\ f.call = stack[t][1].call /\ f.own = stack[t][1].own /\ f.batch = Tail(batch)
    BY <1>1, <1>12, DeliversNext
  <2>4. batch \in Seq(Events) /\ IsInjective(batch)
    BY <1>3, <2>1
  <2>5. /\ batch[1] \in Events /\ Range(batch) = {batch[1]} \cup Range(f.batch)
        /\ IsInjective(f.batch) /\ batch[1] \notin Range(f.batch)
    BY <2>1, <2>3, <2>4, QueueRanges
  <2>6. batch[1] \notin Range(pending_) /\ batch[1] \notin Range(heard)
    BY <1>3, <2>1, <2>5
  <2>7. Range(heard') = Range(heard) \cup {batch[1]} /\ IsInjective(heard')
    BY <1>1, <1>3, <2>1, <2>2, <2>5, <2>6, QueueRanges
  <2>8. /\ IsInjective(f.own) /\ IsInjective(pending_')
        /\ \A event \in Range(f.own) : /\ event.call = f.call
                                       /\ event \in Range(stack[t][1].own)
        /\ \A event \in Range(heard) : event \notin Range(pending_)
        /\ \A event \in Range(batch) : event \notin Range(heard) /\ event \notin Range(pending_)
    BY <1>3, <2>1, <2>2, <2>3
  <2>. HIDE DEF batch
  <2>9. /\ \A event \in Range(heard') : event \notin Range(pending_')
        /\ \A event \in Range(f.batch) : event \notin Range(heard') \cup Range(pending_')
        /\ \A event \in Range(heard') \cup Range(pending_') \cup Range(f.batch) :
              event \in Range(heard) \cup Range(pending_) \cup Range(batch)
    BY <2>2, <2>5, <2>6, <2>7, <2>8
  <2>. QED  BY <2>1, <2>2, <2>3, <2>5, <2>7, <2>8, <2>9, GoingOnOnce DEF batch
<1>13. ASSUME NEW t \in Threads, Heeded(t)  PROVE Once'
  <2>1. UNCHANGED <<pending_, heard, calls>>
    BY <1>13 DEF Heeded
  <2>. QED  BY <1>1, <1>8, <1>13, <2>1, HeedsObserver
<1>14. ASSUME NEW t \in Threads, Dispatched(t)  PROVE Once'
  BY <1>6, <1>14 DEF Dispatched, At
<1>. QED
  BY <1>2, <1>4, <1>5, <1>7, <1>9, <1>10, <1>11, <1>12, <1>13, <1>14
  DEF Next, Step, Subscribe, Finished, vars

-----------------------------------------------------------------------------
(* The invariant and what follows from it. *)

\* Types, what a call publishes and dispatches, and the place of each event.
THEOREM DispatchInvariance == Spec => [](Typed /\ NothingElseIsStranded /\ Once)
<1>1. Init => Typed /\ NothingElseIsStranded /\ Once
  <2>. SUFFICES ASSUME Init  PROVE Typed /\ NothingElseIsStranded /\ Once
    OBVIOUS
  <2>1. << >> \in Seq(Events) /\ << >> \in Seq(Frames) /\ Len(<< >>) = 0
    BY EmptySeq
  <2>2. /\ stack = [t \in Threads |-> << >>] /\ DOMAIN << >> = {}
        /\ Range(pending_) = {} /\ Range(heard) = {}
        /\ IsInjective(pending_) /\ IsInjective(heard)
    BY EmptyQueue DEF Init
  <2>3. StackTyped /\ \A t \in Threads : DOMAIN stack[t] = {}
    <3>1. stack \in [Threads -> Seq(Frames)]
      BY <2>1, <2>2
    <3>2. \A t \in Threads : DOMAIN stack[t] = {}
      BY <2>2
    <3>. QED  BY <3>1, <3>2 DEF StackTyped
  <2>4. /\ pending_ \in Seq(Events) /\ Len(pending_) =< MaxPending /\ heard \in Seq(Events)
    BY <2>1, DispatchAssumption DEF Init
  <2>5. TypeOK
    <3>1. 0 \in 0 .. MaxCalls
      BY DispatchAssumption
    <3>2. /\ open_ \in BOOLEAN /\ observed \in BOOLEAN /\ calls \in 0 .. MaxCalls
          /\ write_mutex_ \in Threads \cup {NoThread}
      BY <3>1 DEF Init
    <3>. QED  BY <2>3, <2>4, <3>2 DEF TypeOK
  <2>. QED
    BY <2>2, <2>3, <2>5
    DEF Typed, NothingElseIsStranded, Once, Numbered, Unpublished, InOnePlace
<1>. QED  BY <1>1, TypedStep, StrandedStep, OnceStep, PTL DEF Spec

\* Every variable keeps its type; in particular the queue keeps within its bound.
THEOREM DispatchTypes == Spec => []TypeOK
<1>1. Typed => TypeOK
  BY DEF Typed
<1>. QED  BY <1>1, DispatchInvariance, PTL

\* An event in the queue has a call that will still look there, unless open()
\* queued it, whoever takes it and however the calls return.
THEOREM NoneIsStranded == Spec => []NothingElseIsStranded
BY DispatchInvariance, PTL

\* The observer is told an event at most once, however threads and callbacks
\* interleave in dispatch().
THEOREM ToldOnce == Spec => []HeardOnce
<1>1. Once => HeardOnce
  BY DEF Once, InOnePlace, HeardOnce
<1>. QED  BY <1>1, DispatchInvariance, PTL

\* An observer that asks is_open() before it calls back never waits for the mutex
\* that its own thread's close() holds.
THEOREM CallbacksDoNotDeadlock ==
    ASSUME ~CallsWhenClosed  PROVE Spec => []ObserverMayCallBack
<1>1. Init => ClosedWhileHeld
  BY DispatchAssumption DEF Init, ClosedWhileHeld
<1>2. Typed /\ ClosedWhileHeld /\ [Next]_vars => ClosedWhileHeld'
  BY HeldStep
<1>3. ClosedWhileHeld => ObserverMayCallBack
  BY DEF ClosedWhileHeld, ObserverMayCallBack, At
<1>4. Typed /\ NothingElseIsStranded /\ Once => Typed
  OBVIOUS
<1>. QED  BY <1>1, <1>2, <1>3, <1>4, DispatchInvariance, PTL DEF Spec
=============================================================================
