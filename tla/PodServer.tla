----------------------------- MODULE PodServer -----------------------------
(***************************************************************************)
(* The pod server (src/control/server.cpp): an acceptor thread queues      *)
(* connections, a pool of workers serves them, and the owner starts and    *)
(* stops it all.  Acceptor and workers wait on one condition variable.  A  *)
(* thread that found nothing to do is `dozing' while it still holds        *)
(* queue_mutex_ and `asleep' once it waits; a notification reaches only    *)
(* those asleep.  What a request does is left to PodController.            *)
(***************************************************************************)
EXTENDS Naturals, Sequences, FiniteSets

CONSTANTS
    Workers,
    Clients,           \* connections clients may open, one each
    NoClient,
    MaxPending,        \* max_pending_connections
    MaxRequests,       \* bounds of the model: requests a connection carries,
    MaxStarts          \* starts of the server

ASSUME ServerAssumption ==
    /\ NoClient \notin Clients
    /\ IsFiniteSet(Workers) /\ Workers # {} /\ MaxPending \in Nat \ {0}
    /\ MaxRequests \in Nat /\ MaxStarts \in Nat

VARIABLES
    running_, stopping_,
    listener_,         \* is the listening socket open?
    queue_,            \* accepted connections waiting for a worker
    worker,            \* where each worker thread is
    serving,           \* the connection each worker serves, or NoClient
    acceptor,          \* where the acceptor thread is
    accepted,          \* the connection it holds, or NoClient
    owner,             \* where the thread that starts and stops the server is
    outside,           \* clients that have not connected yet
    backlog,           \* clients the kernel holds for accept()
    requests,          \* how many requests each connection has carried
    starts

vars == <<running_, stopping_, listener_, queue_, worker, serving, acceptor, accepted, owner,
          outside, backlog, requests, starts>>
pool == <<worker, serving>>
door == <<acceptor, accepted>>
flags == <<running_, stopping_, listener_, owner, starts>>
clients == <<outside, backlog, requests>>

\* Nobody holds queue_mutex_: the critical sections are one step each, but for
\* the moment between finding nothing to do and waiting.
Free == acceptor # "dozing" /\ \A w \in Workers : worker[w] # "dozing"

Woken(place) == IF place = "asleep" THEN "ready" ELSE place
NotifyAll == /\ worker' = [w \in Workers |-> Woken(worker[w])]
             /\ acceptor' = Woken(acceptor)
NotifyOne == \/ \E w \in Workers : /\ worker[w] = "asleep"
                                   /\ worker' = [worker EXCEPT ![w] = "ready"]
             \/ (\A w \in Workers : worker[w] # "asleep") /\ UNCHANGED worker

-----------------------------------------------------------------------------
Init ==
    /\ running_ = FALSE /\ stopping_ = FALSE /\ listener_ = FALSE
    /\ queue_ = << >>
    /\ worker = [w \in Workers |-> "none"] /\ serving = [w \in Workers |-> NoClient]
    /\ acceptor = "none" /\ accepted = NoClient
    /\ owner = "idle" /\ starts = 0
    /\ outside = Clients /\ backlog = {} /\ requests = [c \in Clients |-> 0]

Connect(c) ==
    /\ listener_ /\ c \in outside
    /\ outside' = outside \ {c} /\ backlog' = backlog \cup {c}
    /\ UNCHANGED <<flags, queue_, pool, door, requests>>

-----------------------------------------------------------------------------
(* worker_loop() and serve(). *)

\* A connection is taken out of the queue, ...
Take(w) ==
    /\ worker[w] = "ready" /\ Free /\ queue_ # << >>
    /\ serving' = [serving EXCEPT ![w] = Head(queue_)]
    /\ queue_' = Tail(queue_)
    /\ worker' = [worker EXCEPT ![w] = "took"]
    /\ UNCHANGED <<flags, door, clients>>

\* Mutant: one waiting thread is told, which may be another worker.
TellOneTaken(w) ==
    /\ worker[w] = "took"
    /\ LET served == [worker EXCEPT ![w] = "serving"]
       IN  \/ \E v \in Workers : served[v] = "asleep" /\ worker' = [served EXCEPT ![v] = "ready"]
                                 /\ UNCHANGED acceptor
           \/ acceptor = "asleep" /\ acceptor' = "ready" /\ worker' = served
           \/ /\ acceptor # "asleep" /\ \A v \in Workers : worker[v] # "asleep"
              /\ worker' = served /\ UNCHANGED acceptor
    /\ UNCHANGED <<flags, queue_, serving, accepted, clients>>

\* ... and everyone waiting is told that there is room.
TellTaken(w) ==
    /\ worker[w] = "took"
    /\ worker' = [v \in Workers |-> IF v = w THEN "serving" ELSE Woken(worker[v])]
    /\ acceptor' = Woken(acceptor)
    /\ UNCHANGED <<flags, queue_, serving, accepted, clients>>

\* Nothing to do: wait, ...
Doze(w) ==
    /\ worker[w] = "ready" /\ Free /\ queue_ = << >> /\ ~stopping_
    /\ worker' = [worker EXCEPT ![w] = "dozing"]
    /\ UNCHANGED <<flags, queue_, serving, door, clients>>

\* ... or leave, when the server stops.
Leave(w) ==
    /\ worker[w] = "ready" /\ Free /\ queue_ = << >> /\ stopping_
    /\ worker' = [worker EXCEPT ![w] = "done"]
    /\ UNCHANGED <<flags, queue_, serving, door, clients>>

Sleep(w) ==
    /\ worker[w] = "dozing"
    /\ worker' = [worker EXCEPT ![w] = "asleep"]
    /\ UNCHANGED <<flags, queue_, serving, door, clients>>

\* A wait may end without a notification.
WakeUp(w) ==
    /\ worker[w] = "asleep"
    /\ worker' = [worker EXCEPT ![w] = "ready"]
    /\ UNCHANGED <<flags, queue_, serving, door, clients>>

\* serve() reads the next request, unless the server stops.
Read(w) ==
    /\ worker[w] = "serving" /\ ~stopping_
    /\ worker' = [worker EXCEPT ![w] = "reading"]
    /\ UNCHANGED <<flags, queue_, serving, door, clients>>

\* A request is answered; Shutdown also raises the flag.
Answer(w) ==
    LET c == serving[w] IN
    /\ worker[w] = "reading" /\ requests[c] < MaxRequests
    /\ requests' = [requests EXCEPT ![c] = @ + 1]
    /\ \/ worker' = [worker EXCEPT ![w] = "serving"] /\ UNCHANGED stopping_
       \/ worker' = [worker EXCEPT ![w] = "stopping"] /\ stopping_' = TRUE
    /\ UNCHANGED <<running_, listener_, owner, starts, queue_, serving, door, outside, backlog>>

\* serve() notifies after a Shutdown, without queue_mutex_, and returns.
TellStopping(w) ==
    /\ worker[w] = "stopping"
    /\ worker' = [v \in Workers |-> IF v = w THEN "ready" ELSE Woken(worker[v])]
    /\ acceptor' = Woken(acceptor)
    /\ serving' = [serving EXCEPT ![w] = NoClient]
    /\ UNCHANGED <<flags, queue_, accepted, clients>>

\* serve() returns: the server stops, the peer hung up, broke the protocol or
\* was silent for io_deadline.  The socket is closed.
EndService(w) ==
    /\ worker[w] = "reading" \/ (worker[w] = "serving" /\ stopping_)
    /\ worker' = [worker EXCEPT ![w] = "ready"]
    /\ serving' = [serving EXCEPT ![w] = NoClient]
    /\ UNCHANGED <<flags, queue_, door, clients>>

WorkerStep(w) == \/ Take(w) \/ TellTaken(w) \/ Doze(w) \/ Leave(w) \/ Sleep(w)
                 \/ Read(w) \/ Answer(w) \/ TellStopping(w) \/ EndService(w)

-----------------------------------------------------------------------------
(* accept_loop(). *)

Accept ==
    /\ acceptor = "polling" /\ ~stopping_
    /\ \E c \in backlog : accepted' = c /\ backlog' = backlog \ {c}
    /\ acceptor' = "ready"
    /\ UNCHANGED <<flags, queue_, pool, outside, requests>>

\* Mutants: the push tells nobody, and the bound of the queue is off by one.
PushSilently ==
    /\ acceptor = "ready" /\ Free /\ ~stopping_ /\ Len(queue_) < MaxPending
    /\ queue_' = Append(queue_, accepted)
    /\ accepted' = NoClient
    /\ acceptor' = "polling"
    /\ UNCHANGED <<flags, pool, clients>>
PushOneMore ==
    /\ acceptor = "ready" /\ Free /\ ~stopping_ /\ Len(queue_) =< MaxPending
    /\ queue_' = Append(queue_, accepted)
    /\ accepted' = NoClient
    /\ acceptor' = "pushed"
    /\ UNCHANGED <<flags, pool, clients>>

\* With a connection in hand: push it, wait for room, or drop it and leave.
Push ==
    /\ acceptor = "ready" /\ Free /\ ~stopping_ /\ Len(queue_) < MaxPending
    /\ queue_' = Append(queue_, accepted)
    /\ accepted' = NoClient
    /\ acceptor' = "pushed"
    /\ UNCHANGED <<flags, pool, clients>>

AwaitRoom ==
    /\ acceptor = "ready" /\ Free /\ ~stopping_ /\ Len(queue_) >= MaxPending
    /\ acceptor' = "dozing"
    /\ UNCHANGED <<flags, queue_, pool, accepted, clients>>

SleepForRoom ==
    /\ acceptor = "dozing"
    /\ acceptor' = "asleep"
    /\ UNCHANGED <<flags, queue_, pool, accepted, clients>>

WakeForRoom ==
    /\ acceptor = "asleep"
    /\ acceptor' = "ready"
    /\ UNCHANGED <<flags, queue_, pool, accepted, clients>>

\* One thread that waits is told: a worker, as the acceptor does not wait here.
TellPushed ==
    /\ acceptor = "pushed"
    /\ acceptor' = "polling"
    /\ NotifyOne
    /\ UNCHANGED <<flags, queue_, serving, accepted, clients>>

AcceptorLeaves ==
    /\ stopping_
    /\ acceptor = "polling" \/ (acceptor = "ready" /\ Free)
    /\ acceptor' = "done" /\ accepted' = NoClient
    /\ UNCHANGED <<flags, queue_, pool, clients>>

AcceptorStep == Accept \/ Push \/ AwaitRoom \/ SleepForRoom \/ TellPushed \/ AcceptorLeaves

-----------------------------------------------------------------------------
(* start() and stop(). *)

Start ==
    /\ owner = "idle" /\ ~running_ /\ starts < MaxStarts
    /\ starts' = starts + 1
    /\ running_' = TRUE /\ stopping_' = FALSE /\ listener_' = TRUE
    /\ worker' = [w \in Workers |-> "ready"] /\ acceptor' = "polling"
    /\ UNCHANGED <<owner, queue_, serving, accepted, clients>>

Stop ==
    /\ owner = "idle" /\ running_
    /\ stopping_' = TRUE
    /\ owner' = "notifying"
    /\ UNCHANGED <<running_, listener_, starts, queue_, pool, door, clients>>

\* queue_cv_.notify_all(), without queue_mutex_.
TellStopped ==
    /\ owner = "notifying"
    /\ NotifyAll
    /\ owner' = "joining"
    /\ UNCHANGED <<running_, stopping_, listener_, starts, queue_, serving, accepted, clients>>

\* Mutant: stop() does not join the workers.
JoinAcceptor ==
    /\ owner = "joining"
    /\ acceptor = "done"
    /\ queue_' = << >> /\ backlog' = {}
    /\ listener_' = FALSE /\ running_' = FALSE
    /\ owner' = "idle"
    /\ UNCHANGED <<stopping_, starts, pool, door, outside, requests>>

\* Every thread is joined; what is left in the queue and in the backlog is
\* closed with the listener.
Join ==
    /\ owner = "joining"
    /\ acceptor = "done" /\ \A w \in Workers : worker[w] = "done"
    /\ queue_' = << >> /\ backlog' = {}
    /\ listener_' = FALSE /\ running_' = FALSE
    /\ owner' = "idle"
    /\ UNCHANGED <<stopping_, starts, pool, door, outside, requests>>

OwnerStep == TellStopped \/ Join

\* Nothing left to start, and everything stopped.
Finished == starts = MaxStarts /\ ~running_ /\ owner = "idle" /\ UNCHANGED vars

Next ==
    \/ \E c \in Clients : Connect(c)
    \/ \E w \in Workers : WorkerStep(w) \/ WakeUp(w)
    \/ AcceptorStep \/ WakeForRoom
    \/ Start \/ Stop \/ OwnerStep
    \/ Finished

Spec == Init /\ [][Next]_vars

\* The scheduler runs every thread that can run, and queue_mutex_ is not kept for
\* ever from a thread that has something to do, however often others wake up for
\* nothing.  Nothing makes a wait end by itself, a client connect, or the owner
\* start or stop the server.
FairSpec ==
    /\ Spec
    /\ \A w \in Workers : WF_vars(WorkerStep(w)) /\ SF_vars(Take(w) \/ Leave(w))
    /\ WF_vars(AcceptorStep) /\ SF_vars(Push \/ AcceptorLeaves)
    /\ WF_vars(OwnerStep)

-----------------------------------------------------------------------------
(* Properties. *)

Places == {"none", "ready", "dozing", "asleep", "done"}

\* Every variable keeps its type; a full queue is never pushed to.
TypeOK ==
    /\ running_ \in BOOLEAN /\ stopping_ \in BOOLEAN /\ listener_ \in BOOLEAN
    /\ queue_ \in Seq(Clients) /\ Len(queue_) =< MaxPending
    /\ worker \in [Workers -> Places \cup {"took", "serving", "reading", "stopping"}]
    /\ serving \in [Workers -> Clients \cup {NoClient}]
    /\ acceptor \in Places \cup {"polling", "pushed"}
    /\ accepted \in Clients \cup {NoClient}
    /\ owner \in {"idle", "notifying", "joining"}
    /\ outside \subseteq Clients /\ backlog \subseteq Clients
    /\ requests \in [Clients -> 0 .. MaxRequests] /\ starts \in 0 .. MaxStarts

\* notify_one() after a push is enough: while a worker sleeps, every connection in
\* the queue has a worker that is up and will look, or a notification to come.
SleepersAreSpare ==
    (\E w \in Workers : worker[w] = "asleep") =>
        Len(queue_) =< Cardinality({w \in Workers : worker[w] = "ready"})
                       + (IF acceptor = "pushed" THEN 1 ELSE 0)

\* The acceptor shares its condition variable with the workers and is not left
\* asleep beside a queue with room: the worker that made room is about to tell it.
AcceptorSeesRoom ==
    acceptor = "asleep" /\ Len(queue_) < MaxPending =>
        \E w \in Workers : worker[w] = "took"

\* "The listener is closed only after every worker has been joined, so no thread can
\* observe a closed handle it is still using" (server.hpp:31-33), over restarts too.
ListenerOutlivesThreads ==
    ~listener_ => /\ acceptor \in {"none", "done"}
                  /\ \A w \in Workers : worker[w] \in {"none", "done"}

\* Every connection that was accepted is served, unless the server stops first,
\* although a worker may be busy with another for as long as that one asks.
AcceptedIsServed ==
    \A c \in Clients :
        accepted = c ~> (stopping_ \/ \E w \in Workers : serving[w] = c)

\* "Shutdown is cooperative" (server.hpp:31): stop() joins every thread and returns.
StopReturns == owner = "notifying" ~> owner = "idle"

=============================================================================
