--------------------------- MODULE EventDispatch ---------------------------
(***************************************************************************)
(* The events of a pod controller (src/control/controller.cpp): calls of   *)
(* several threads queue events, and whoever calls dispatch() delivers to  *)
(* the observers what is queued then, on its own thread.  An observer may  *)
(* call back into the controller, so a thread has a stack of calls.  What  *)
(* a call does to the pod is left to PodController; of write_mutex_ only   *)
(* close(), which dispatches while it holds it, keeps it over a step here. *)
(***************************************************************************)
EXTENDS Naturals, Sequences, SequencesExt

CONSTANTS
    Threads,
    NoThread,
    MaxPending,        \* the bound of the event queue
    EventsPerCall,     \* events a call publishes at most
    MaxDepth,          \* bounds of the model: nested calls of a thread, calls
    MaxCalls,
    CallsWhenClosed    \* do observers call back without asking is_open() first?

ASSUME DispatchAssumption ==
    /\ NoThread \notin Threads
    /\ MaxPending \in Nat /\ EventsPerCall \in Nat \ {0}
    /\ MaxDepth \in Nat /\ MaxCalls \in Nat
    /\ CallsWhenClosed \in BOOLEAN

VARIABLES
    open_,
    write_mutex_,      \* the thread whose close() holds it, or NoThread
    pending_,
    observed,          \* is an observer subscribed?
    stack,             \* the calls each thread is in, the innermost first
    heard,             \* what the observer was told, in order
    calls              \* calls made so far

vars == <<open_, write_mutex_, pending_, observed, stack, heard, calls>>

Operations == {"open", "close", "apply", "change"}

\* The events of call number n; a call is "open", "apply" or "change", which
\* stands for every other mutation.
Event(op, call, n) == [op |-> op, call |-> call, n |-> n]
Events == [op : Operations \ {"close"}, call : 1 .. MaxCalls, n : 1 .. EventsPerCall]

\* A call: what it still has to publish, and the batch it is delivering.
Frame(op) == [op |-> op, call |-> calls + 1, pc |-> "lock", own |-> << >>, batch |-> << >>]

At(t, pc) == stack[t] # << >> /\ stack[t][1].pc = pc
Goto(t, frame) == stack' = [stack EXCEPT ![t] = <<frame>> \o Tail(@)]
Return(t) == stack' = [stack EXCEPT ![t] = Tail(@)]

\* Mutant: the queue has no bound.
QueuedUnbounded(event) == Append(pending_, event)

\* publish(): an event that finds the queue full is dropped.
Queued(event) == IF Len(pending_) < MaxPending THEN Append(pending_, event) ELSE pending_

-----------------------------------------------------------------------------
Init ==
    /\ open_ = FALSE /\ write_mutex_ = NoThread
    /\ pending_ = << >> /\ observed = FALSE /\ heard = << >>
    /\ stack = [t \in Threads |-> << >>] /\ calls = 0

\* A thread calls the controller, or an observer calls it from a callback.
Call(t) ==
    /\ calls < MaxCalls /\ calls' = calls + 1
    /\ \/ stack[t] = << >>
       \/ /\ At(t, "called back") /\ Len(stack[t]) < MaxDepth
          /\ open_ \/ CallsWhenClosed
    /\ \E op \in Operations : stack' = [stack EXCEPT ![t] = <<Frame(op)>> \o @]
    /\ UNCHANGED <<open_, write_mutex_, pending_, observed, heard>>

\* subscribe().
Subscribe ==
    /\ ~observed
    /\ observed' = TRUE
    /\ UNCHANGED <<open_, write_mutex_, pending_, stack, heard, calls>>

\* The call gets write_mutex_.
Enters(t, op) == At(t, "lock") /\ stack[t][1].op = op /\ write_mutex_ = NoThread

\* open(): refused or failed, or it publishes Recovered and returns.
Open(t) ==
    /\ Enters(t, "open")
    /\ \/ UNCHANGED <<open_, pending_>>
       \/ ~open_ /\ open_' = TRUE /\ pending_' = Queued(Event("open", stack[t][1].call, 1))
    /\ Return(t)
    /\ UNCHANGED <<write_mutex_, observed, heard, calls>>

\* The events call t is in publishes once it has released write_mutex_.
Publishes(t, n) ==
    LET frame == stack[t][1]
    IN  Goto(t, [frame EXCEPT !.pc = "publish",
                              !.own = [i \in 1 .. n |-> Event(frame.op, frame.call, i)]])

\* Mutant: apply() publishes and dispatches before it releases write_mutex_.
ApplyUnderLock(t) ==
    /\ Enters(t, "apply")
    /\ \E n \in 0 .. EventsPerCall : (n > 0 => open_) /\ Publishes(t, n)
    /\ write_mutex_' = t
    /\ UNCHANGED <<open_, pending_, observed, heard, calls>>

\* apply() dispatches whether it succeeded or not.
Apply(t) ==
    /\ Enters(t, "apply")
    /\ \E n \in 0 .. EventsPerCall : (n > 0 => open_) /\ Publishes(t, n)
    /\ UNCHANGED <<open_, write_mutex_, pending_, observed, heard, calls>>

\* The other mutations return at once when they fail.
Change(t) ==
    /\ Enters(t, "change")
    /\ \/ Return(t)
       \/ open_ /\ \E n \in 1 .. EventsPerCall : Publishes(t, n)
    /\ UNCHANGED <<open_, write_mutex_, pending_, observed, heard, calls>>

\* close(): nothing to do, the store fails to close, or dispatch() under the mutex.
Close(t) ==
    /\ Enters(t, "close")
    /\ open_' = FALSE
    /\ \/ Return(t) /\ UNCHANGED write_mutex_
       \/ /\ open_
          /\ write_mutex_' = t
          /\ Goto(t, [stack[t][1] EXCEPT !.pc = "dispatch"])
    /\ UNCHANGED <<pending_, observed, heard, calls>>

\* Mutant: the call returns as soon as its events are queued.
PublishOnly(t) ==
    /\ At(t, "publish")
    /\ LET frame == stack[t][1]
       IN  IF frame.own = << >>
           THEN Return(t) /\ UNCHANGED pending_
           ELSE /\ pending_' = Queued(frame.own[1])
                /\ Goto(t, [frame EXCEPT !.own = Tail(@)])
    /\ UNCHANGED <<open_, write_mutex_, observed, heard, calls>>

\* publish() each event of the call, then dispatch().
Publish(t) ==
    /\ At(t, "publish")
    /\ LET frame == stack[t][1]
       IN  IF frame.own = << >>
           THEN Goto(t, [frame EXCEPT !.pc = "dispatch"]) /\ UNCHANGED pending_
           ELSE /\ pending_' = Queued(frame.own[1])
                /\ Goto(t, [frame EXCEPT !.own = Tail(@)])
    /\ UNCHANGED <<open_, write_mutex_, observed, heard, calls>>

\* Mutant: the batch is copied out of the queue and not swapped with it.
CopyBatch(t) ==
    /\ At(t, "dispatch") /\ pending_ # << >>
    /\ Goto(t, [stack[t][1] EXCEPT !.pc = "deliver", !.batch = pending_])
    /\ UNCHANGED <<open_, write_mutex_, pending_, observed, heard, calls>>

\* dispatch() takes everything queued; without an observer the batch is dropped.
TakeBatch(t) ==
    /\ At(t, "dispatch") /\ pending_ # << >>
    /\ pending_' = << >>
    /\ IF observed
       THEN Goto(t, [stack[t][1] EXCEPT !.pc = "deliver", !.batch = pending_])
       ELSE UNCHANGED stack
    /\ UNCHANGED <<open_, write_mutex_, observed, heard, calls>>

\* The observer is called with the next event of the batch, ...
Deliver(t) ==
    /\ At(t, "deliver")
    /\ heard' = Append(heard, stack[t][1].batch[1])
    /\ Goto(t, [stack[t][1] EXCEPT !.pc = "called back", !.batch = Tail(@)])
    /\ UNCHANGED <<open_, write_mutex_, pending_, observed, calls>>

\* ... and returns, or throws, which ends the call all the same.
Heeded(t) ==
    /\ At(t, "called back")
    /\ Goto(t, [stack[t][1] EXCEPT !.pc = IF stack[t][1].batch = << >> THEN "dispatch"
                                                                       ELSE "deliver"])
    /\ UNCHANGED <<open_, write_mutex_, pending_, observed, heard, calls>>

\* dispatch() finds the queue empty, and the call returns.
Dispatched(t) ==
    /\ At(t, "dispatch") /\ pending_ = << >>
    /\ write_mutex_' = IF write_mutex_ = t THEN NoThread ELSE write_mutex_
    /\ Return(t)
    /\ UNCHANGED <<open_, pending_, observed, heard, calls>>

\* Every thread returned and none will call again.
Finished ==
    /\ calls = MaxCalls /\ observed /\ \A t \in Threads : stack[t] = << >>
    /\ UNCHANGED vars

Step(t) == \/ Open(t) \/ Apply(t) \/ Change(t) \/ Close(t)
           \/ Publish(t) \/ TakeBatch(t) \/ Deliver(t) \/ Heeded(t) \/ Dispatched(t)

Next == (\E t \in Threads : Call(t) \/ Step(t)) \/ Subscribe \/ Finished

Spec == Init /\ [][Next]_vars

\* Every thread that is in a call goes on when it can.
FairSpec == Spec /\ \A t \in Threads : WF_vars(Step(t))

-----------------------------------------------------------------------------
(* Properties. *)

PcValues == {"lock", "publish", "dispatch", "deliver", "called back"}

\* Every variable keeps its type; in particular publish() keeps the queue within
\* its bound ("a runaway observer cannot grow the queue without limit",
\* controller.cpp:764).
TypeOK ==
    /\ open_ \in BOOLEAN /\ observed \in BOOLEAN /\ calls \in 0 .. MaxCalls
    /\ write_mutex_ \in Threads \cup {NoThread}
    /\ pending_ \in Seq(Events) /\ Len(pending_) =< MaxPending
    /\ heard \in Seq(Events)
    /\ \A t \in Threads : \A i \in DOMAIN stack[t] :
          stack[t][i] \in [op : Operations, call : 1 .. MaxCalls, pc : PcValues,
                           own : Seq(Events), batch : Seq(Events)]

\* "Every producer calls dispatch() after enqueuing" (controller.cpp:769-772): an
\* event in the queue has a thread that will still look there before it returns,
\* unless open() queued it, which does not dispatch.
NothingElseIsStranded ==
    \A event \in Range(pending_) : event.op # "open" =>
        \E t \in Threads : \E i \in DOMAIN stack[t] : stack[t][i].pc # "lock"

\* However threads and callbacks interleave in dispatch(), the observer is told an
\* event at most once: what was told is in no queue and no batch any more.
HeardOnce ==
    /\ IsInjective(heard)
    /\ Range(heard) \cap Range(pending_) = {}
    /\ \A t \in Threads : \A i \in DOMAIN stack[t] :
          Range(heard) \cap Range(stack[t][i].batch) = {}

\* "An observer may call back into the controller, including from the same
\* thread, without deadlocking" (controller.hpp:81-83): no thread waits for
\* write_mutex_ while it holds it.
ObserverMayCallBack == \A t \in Threads : At(t, "lock") => write_mutex_ # t

\* Every event of a mutation that is queued while an observer is subscribed is
\* told to it, whichever thread takes it.
QueuedIsHeard ==
    \A call \in 1 .. MaxCalls, n \in 1 .. EventsPerCall :
        LET In(events) == \E event \in Range(events) :
                              event.op # "open" /\ event.call = call /\ event.n = n
        IN  observed /\ In(pending_) ~> In(heard)

=============================================================================
