--------------------------- MODULE PodServerProofs ---------------------------
(***************************************************************************)
(* Proofs about PodServer, for any pool of workers, any clients and any    *)
(* bound of the queue: types, no lost wake-up of a worker or of the        *)
(* acceptor, and a listener that outlives every thread that may use it.    *)
(***************************************************************************)
EXTENDS PodServer, FiniteSetTheorems, SequenceTheorems, TLAPS

\* The acceptor holds a connection while it looks for room in the queue.
AcceptorHolds == acceptor \in {"ready", "dozing", "asleep"} => accepted \in Clients

\* A worker serves a connection from the moment it took it out of the queue.
WorkersServe ==
    \A w \in Workers :
        worker[w] \in {"took", "serving", "reading", "stopping"} => serving[w] \in Clients

\* Whoever is about to wait still holds queue_mutex_, and the queue is as it was
\* when it looked: empty for a worker, full for the acceptor.
DozingSawQueue ==
    /\ \A w \in Workers : worker[w] = "dozing" => queue_ = << >>
    /\ acceptor = "dozing" => Len(queue_) >= MaxPending

Typed == TypeOK /\ AcceptorHolds /\ WorkersServe
Attentive == DozingSawQueue /\ SleepersAreSpare /\ AcceptorSeesRoom

-----------------------------------------------------------------------------
(* Types. *)

\* A notification leaves every thread at a place it can be at.
LEMMA WokenType ==
    ASSUME NEW S, "ready" \in S, NEW place \in S
    PROVE  Woken(place) \in S
BY DEF Woken

\* The types hold before the first start().
LEMMA InitTypes == Init => Typed
<1>. SUFFICES ASSUME Init PROVE Typed
  OBVIOUS
<1>1. queue_ \in Seq(Clients) /\ Len(queue_) =< MaxPending
  BY EmptySeq, ServerAssumption DEF Init
<1>2. /\ worker \in [Workers -> Places \cup {"took", "serving", "reading", "stopping"}]
      /\ serving \in [Workers -> Clients \cup {NoClient}]
  BY DEF Init, Places
<1>3. requests \in [Clients -> 0 .. MaxRequests] /\ starts \in 0 .. MaxStarts
  BY ServerAssumption DEF Init
<1>. QED  BY <1>1, <1>2, <1>3 DEF Init, Typed, TypeOK, AcceptorHolds, WorkersServe, Places

\* Every action keeps the types, and connections with the threads that hold them.
LEMMA TypesStep == Typed /\ [Next]_vars => Typed'
<1>. SUFFICES ASSUME Typed, [Next]_vars PROVE Typed'
  OBVIOUS
<1>. USE ServerAssumption DEF Typed, AcceptorHolds, WorkersServe
<1>1. ASSUME NEW c \in Clients, Connect(c) PROVE Typed'
  BY <1>1 DEF Connect, flags, pool, door, TypeOK
<1>2. ASSUME NEW w \in Workers, WorkerStep(w) \/ WakeUp(w) PROVE Typed'
  <2>1. CASE Take(w)
    <3>1. Head(queue_) \in Clients /\ Tail(queue_) \in Seq(Clients)
          /\ Len(Tail(queue_)) = Len(queue_) - 1
      BY <2>1, HeadTailProperties DEF Take, TypeOK
    <3>. QED  BY <2>1, <3>1 DEF Take, flags, door, clients, TypeOK, Places
  <2>2. CASE TellTaken(w)
    BY <2>2 DEF TellTaken, Woken, flags, clients, TypeOK, Places
  <2>3. CASE Doze(w) \/ Leave(w) \/ Sleep(w) \/ WakeUp(w) \/ Read(w)
    <3>1. /\ UNCHANGED <<flags, queue_, serving, door, clients>>
          /\ \/ \E place \in Places : worker' = [worker EXCEPT ![w] = place]
             \/ worker[w] = "serving" /\ worker' = [worker EXCEPT ![w] = "reading"]
      BY <2>3 DEF Doze, Leave, Sleep, WakeUp, Read, Places
    <3>2. worker' \in [Workers -> Places \cup {"took", "serving", "reading", "stopping"}]
      BY <3>1 DEF TypeOK
    <3>3. TypeOK' /\ AcceptorHolds'
      BY <3>1, <3>2 DEF flags, door, clients, TypeOK
    <3>4. WorkersServe'
      BY <3>1 DEF TypeOK, Places
    <3>. QED  BY <3>3, <3>4
  <2>4. CASE Answer(w)
    <3>1. requests' \in [Clients -> 0 .. MaxRequests]
      BY <2>4 DEF Answer, TypeOK
    <3>. QED  BY <2>4, <3>1 DEF Answer, door, TypeOK, Places
  <2>5. CASE TellStopping(w)
    BY <2>5 DEF TellStopping, Woken, flags, clients, TypeOK, Places
  <2>6. CASE EndService(w)
    BY <2>6 DEF EndService, flags, door, clients, TypeOK, Places
  <2>. QED  BY <1>2, <2>1, <2>2, <2>3, <2>4, <2>5, <2>6 DEF WorkerStep
<1>3. CASE AcceptorStep \/ WakeForRoom
  <2>1. CASE Accept
    BY <2>1 DEF Accept, flags, pool, TypeOK, Places
  <2>2. CASE Push
    <3>1. Append(queue_, accepted) \in Seq(Clients)
          /\ Len(Append(queue_, accepted)) = Len(queue_) + 1
      BY <2>2, AppendProperties DEF Push, TypeOK
    <3>2. Len(queue_) \in Nat
      BY LenProperties DEF TypeOK
    <3>. QED  BY <2>2, <3>1, <3>2 DEF Push, flags, pool, clients, TypeOK, Places
  <2>3. CASE AwaitRoom \/ SleepForRoom \/ WakeForRoom
    BY <2>3 DEF AwaitRoom, SleepForRoom, WakeForRoom, flags, pool, clients, TypeOK, Places
  <2>4. CASE TellPushed
    BY <2>4 DEF TellPushed, NotifyOne, flags, clients, TypeOK, Places
  <2>5. CASE AcceptorLeaves
    BY <2>5 DEF AcceptorLeaves, flags, pool, clients, TypeOK, Places
  <2>. QED  BY <1>3, <2>1, <2>2, <2>3, <2>4, <2>5 DEF AcceptorStep
<1>4. CASE Start
  <2>1. worker' \in [Workers -> Places \cup {"took", "serving", "reading", "stopping"}]
    BY <1>4 DEF Start, Places
  <2>2. starts' \in 0 .. MaxStarts
    BY <1>4 DEF Start, TypeOK
  <2>. QED  BY <1>4, <2>1, <2>2 DEF Start, clients, TypeOK, Places
<1>5. CASE Stop
  BY <1>5 DEF Stop, pool, door, clients, TypeOK
<1>6. CASE TellStopped
  BY <1>6 DEF TellStopped, NotifyAll, Woken, clients, TypeOK, Places
<1>7. CASE Join
  <2>1. queue_' \in Seq(Clients) /\ Len(queue_') =< MaxPending
    BY <1>7, EmptySeq DEF Join
  <2>. QED  BY <1>7, <2>1 DEF Join, pool, door, TypeOK
<1>8. CASE UNCHANGED vars
  BY <1>8 DEF vars, TypeOK
<1>. QED  BY <1>1, <1>2, <1>3, <1>4, <1>5, <1>6, <1>7, <1>8 DEF Next, OwnerStep, Finished

-----------------------------------------------------------------------------
(* No lost wake-up. *)

Ready == {w \in Workers : worker[w] = "ready"}
Pushed == IF acceptor = "pushed" THEN 1 ELSE 0

\* The workers that will look at the queue can be counted, and one that starts or
\* stops to be among them changes the count by one.
LEMMA ReadyCounts ==
    ASSUME Typed
    PROVE  /\ Cardinality(Ready) \in Nat /\ Cardinality(Ready') \in Nat /\ Len(queue_) \in Nat
           /\ \A w \in Workers :
                 /\ Ready' = Ready \cup {w} /\ worker[w] # "ready"
                        => Cardinality(Ready') = Cardinality(Ready) + 1
                 /\ Ready' = Ready \ {w} /\ worker[w] = "ready"
                        => Cardinality(Ready') = Cardinality(Ready) - 1
<1>1. IsFiniteSet(Ready) /\ IsFiniteSet(Ready')
  BY FS_Subset, ServerAssumption DEF Ready
<1>2. Cardinality(Ready) \in Nat /\ Cardinality(Ready') \in Nat
  BY <1>1, FS_CardinalityType
<1>3. Len(queue_) \in Nat
  BY LenProperties DEF Typed, TypeOK
<1>4. ASSUME NEW w \in Workers
      PROVE  /\ worker[w] # "ready" => Cardinality(Ready \cup {w}) = Cardinality(Ready) + 1
             /\ worker[w] = "ready" => Cardinality(Ready \ {w}) = Cardinality(Ready) - 1
  <2>1. w \in Ready <=> worker[w] = "ready"
    BY DEF Ready
  <2>. QED  BY <1>1, <2>1, FS_AddElement, FS_RemoveElement
<1>. HIDE DEF Ready
<1>. QED  BY <1>2, <1>3, <1>4

\* What SleepersAreSpare says, in these terms, before a step and after it.
LEMMA SleepersReadyPushed ==
    /\ SleepersAreSpare <=> ((\E w \in Workers : worker[w] = "asleep") =>
                                Len(queue_) =< Cardinality(Ready) + Pushed)
    /\ SleepersAreSpare' <=> ((\E w \in Workers : worker'[w] = "asleep") =>
                                Len(queue_') =< Cardinality(Ready') + Pushed')
BY DEF SleepersAreSpare, Ready, Pushed

\* The workers' steps.
LEMMA WorkerAttentive ==
    ASSUME Typed, Attentive, NEW w \in Workers, WorkerStep(w) \/ WakeUp(w)
    PROVE  Attentive'
<1>. USE SleepersReadyPushed
     DEF Typed, TypeOK, Places, Attentive, DozingSawQueue, AcceptorSeesRoom
<1>0. /\ Cardinality(Ready) \in Nat /\ Len(queue_) \in Nat
      /\ Ready' = Ready \cup {w} /\ worker[w] # "ready"
             => Cardinality(Ready') = Cardinality(Ready) + 1
      /\ Ready' = Ready \ {w} /\ worker[w] = "ready"
             => Cardinality(Ready') = Cardinality(Ready) - 1
  BY ReadyCounts
<1>1. CASE Take(w)
  <2>1. Len(queue_') = Len(queue_) - 1
    BY <1>1, HeadTailProperties DEF Take
  <2>2. /\ worker[w] = "ready" /\ worker' = [worker EXCEPT ![w] = "took"]
        /\ UNCHANGED acceptor /\ Free
    BY <1>1 DEF Take, door
  <2>3. Ready' = Ready \ {w}
    BY <2>2 DEF Ready
  <2>4. SleepersAreSpare'
    <3>1. (\E v \in Workers : worker'[v] = "asleep") => \E v \in Workers : worker[v] = "asleep"
      BY <2>2
    <3>. QED  BY <1>0, <2>1, <2>2, <2>3, <3>1 DEF Pushed
  <2>5. DozingSawQueue' /\ AcceptorSeesRoom'
    BY <2>2 DEF Free
  <2>. QED  BY <2>4, <2>5
<1>2. CASE TellTaken(w) \/ TellStopping(w)
  <2>1. /\ \A v \in Workers : /\ worker'[v] # "asleep"
                              /\ worker'[v] = "dozing" => worker[v] = "dozing"
        /\ acceptor' # "asleep" /\ (acceptor' = "dozing" => acceptor = "dozing")
        /\ UNCHANGED queue_
    BY <1>2 DEF TellTaken, TellStopping, Woken
  <2>2. ~ \E v \in Workers : worker'[v] = "asleep"
    BY <2>1
  <2>3. SleepersAreSpare'
    BY <2>2
  <2>4. AcceptorSeesRoom' /\ DozingSawQueue'
    BY <2>1
  <2>. QED  BY <2>3, <2>4
<1>3. CASE Doze(w) \/ Leave(w) \/ Sleep(w)
  <2>1. /\ queue_ = << >> /\ UNCHANGED <<queue_, acceptor>>
        /\ \A v \in Workers : worker[v] = "took" => worker'[v] = "took"
    BY <1>3 DEF Doze, Leave, Sleep, door
  <2>2. Len(queue_') = 0 /\ Cardinality(Ready') \in Nat
    BY <2>1, ReadyCounts, EmptySeq
  <2>3. SleepersAreSpare'
    BY <2>2 DEF Pushed
  <2>. QED  BY <2>1, <2>3
<1>4. CASE Read(w) \/ Answer(w)
  <2>1. /\ worker[w] \in {"serving", "reading"}
        /\ worker'[w] \in {"reading", "serving", "stopping"}
        /\ worker' = [worker EXCEPT ![w] = worker'[w]]
        /\ UNCHANGED <<queue_, acceptor>>
    BY <1>4 DEF Read, Answer, door
  <2>2. Ready' = Ready
    BY <2>1 DEF Ready
  <2>. QED  BY <2>1, <2>2 DEF Pushed
<1>5. CASE EndService(w) \/ WakeUp(w)
  <2>1. /\ worker[w] \in {"serving", "reading", "asleep"}
        /\ worker' = [worker EXCEPT ![w] = "ready"]
        /\ UNCHANGED <<queue_, acceptor>>
    BY <1>5 DEF EndService, WakeUp, door
  <2>2. Ready' = Ready \cup {w}
    BY <2>1 DEF Ready
  <2>3. SleepersAreSpare'
    <3>1. (\E v \in Workers : worker'[v] = "asleep") => \E v \in Workers : worker[v] = "asleep"
      BY <2>1
    <3>. QED  BY <1>0, <2>1, <2>2, <3>1 DEF Pushed
  <2>. QED  BY <2>1, <2>3
<1>. QED  BY <1>1, <1>2, <1>3, <1>4, <1>5 DEF WorkerStep

\* The steps of everyone else.
LEMMA OthersAttentive ==
    ASSUME Typed, Attentive,
           \/ \E c \in Clients : Connect(c)
           \/ AcceptorStep \/ WakeForRoom \/ Start \/ Stop \/ OwnerStep \/ UNCHANGED vars
    PROVE  Attentive'
<1>. USE SleepersReadyPushed, ServerAssumption
     DEF Typed, TypeOK, Places, Attentive, DozingSawQueue, AcceptorSeesRoom
<1>0. /\ Cardinality(Ready) \in Nat /\ Cardinality(Ready') \in Nat /\ Len(queue_) \in Nat
      /\ worker' = worker => Ready' = Ready
  BY ReadyCounts DEF Ready
<1>1. CASE (\E c \in Clients : Connect(c)) \/ Stop \/ UNCHANGED vars
  <2>1. UNCHANGED <<queue_, worker, acceptor>>
    BY <1>1 DEF Connect, Stop, vars, pool, door
  <2>. QED  BY <1>0, <2>1 DEF Pushed
<1>2. CASE Accept \/ AwaitRoom \/ SleepForRoom \/ WakeForRoom \/ AcceptorLeaves
  <2>1. /\ UNCHANGED <<queue_, worker>> /\ acceptor # "pushed" /\ acceptor' # "pushed"
        /\ acceptor' \in {"dozing", "asleep"} => Len(queue_) >= MaxPending
    BY <1>2 DEF Accept, AwaitRoom, SleepForRoom, WakeForRoom, AcceptorLeaves, pool
  <2>2. SleepersAreSpare'
    BY <1>0, <2>1 DEF Pushed
  <2>. QED  BY <1>0, <2>1, <2>2
<1>3. CASE Push
  <2>1. /\ accepted \in Clients /\ acceptor = "ready" /\ acceptor' = "pushed" /\ Free
        /\ queue_' = Append(queue_, accepted) /\ UNCHANGED worker
    BY <1>3 DEF Push, pool, AcceptorHolds
  <2>2. Len(queue_') = Len(queue_) + 1
    BY <2>1, AppendProperties
  <2>3. SleepersAreSpare'
    BY <1>0, <2>1, <2>2 DEF Pushed
  <2>. QED  BY <2>1, <2>3 DEF Free
<1>4. CASE TellPushed
  <2>1. acceptor = "pushed" /\ acceptor' = "polling" /\ UNCHANGED queue_
    BY <1>4 DEF TellPushed
  <2>2. SleepersAreSpare' /\ (\A v \in Workers : worker'[v] = "dozing" => worker[v] = "dozing")
    <3>1. ASSUME NEW w \in Workers, worker[w] = "asleep",
                 worker' = [worker EXCEPT ![w] = "ready"]
          PROVE  /\ SleepersAreSpare'
                 /\ \A v \in Workers : worker'[v] = "dozing" => worker[v] = "dozing"
      <4>1. Ready' = Ready \cup {w}
        BY <3>1 DEF Ready
      <4>2. Cardinality(Ready') = Cardinality(Ready) + 1
        BY <3>1, <4>1, ReadyCounts
      <4>. QED  BY <1>0, <2>1, <3>1, <4>2 DEF Pushed
    <3>2. CASE (\A w \in Workers : worker[w] # "asleep") /\ UNCHANGED worker
      BY <3>2
    <3>. QED  BY <1>4, <3>1, <3>2 DEF TellPushed, NotifyOne
  <2>. QED  BY <2>1, <2>2
<1>5. CASE Start \/ TellStopped
  <2>1. /\ \A v \in Workers : worker'[v] # "asleep"
        /\ \A v \in Workers : worker'[v] = "dozing" => worker[v] = "dozing"
        /\ acceptor' # "asleep" /\ (acceptor' = "dozing" => acceptor = "dozing")
        /\ UNCHANGED queue_
    BY <1>5 DEF Start, TellStopped, NotifyAll, Woken
  <2>2. SleepersAreSpare'
    BY <2>1
  <2>. QED  BY <2>1, <2>2
<1>6. CASE Join
  <2>1. /\ acceptor' = "done" /\ \A v \in Workers : worker'[v] = "done"
    BY <1>6 DEF Join, pool, door
  <2>2. SleepersAreSpare'
    BY <2>1
  <2>. QED  BY <2>1, <2>2
<1>. QED  BY <1>1, <1>2, <1>3, <1>4, <1>5, <1>6 DEF AcceptorStep, OwnerStep

\* Nobody waits before the first start().
LEMMA InitAttentive == Init => Attentive
BY DEF Init, Attentive, DozingSawQueue, SleepersAreSpare, AcceptorSeesRoom

-----------------------------------------------------------------------------
(* The listener. *)

\* With the listener closed there is no thread, and only start() makes any.
LEMMA ListenerStep ==
    ASSUME Typed, ListenerOutlivesThreads, [Next]_vars PROVE ListenerOutlivesThreads'
<1>. USE DEF Typed, TypeOK, Places, ListenerOutlivesThreads
<1>1. CASE \E c \in Clients : Connect(c)
  BY <1>1 DEF Connect, flags, pool, door
<1>2. ASSUME NEW w \in Workers, WorkerStep(w) \/ WakeUp(w) PROVE ListenerOutlivesThreads'
  <2>1. worker[w] \notin {"none", "done"} /\ UNCHANGED listener_
    BY <1>2 DEF WorkerStep, Take, TellTaken, Doze, Leave, Sleep, WakeUp, Read, Answer,
                TellStopping, EndService, flags
  <2>. QED  BY <2>1
<1>3. CASE AcceptorStep \/ WakeForRoom
  <2>1. acceptor \notin {"none", "done"} /\ UNCHANGED listener_
    BY <1>3 DEF AcceptorStep, Accept, Push, AwaitRoom, SleepForRoom, TellPushed, AcceptorLeaves,
                WakeForRoom, flags
  <2>. QED  BY <2>1
<1>4. CASE Start
  BY <1>4 DEF Start
<1>5. CASE Stop \/ TellStopped
  BY <1>5 DEF Stop, TellStopped, NotifyAll, Woken, pool, door
<1>6. CASE Join
  BY <1>6 DEF Join, pool, door
<1>7. CASE UNCHANGED vars
  BY <1>7 DEF vars
<1>. QED  BY <1>1, <1>2, <1>3, <1>4, <1>5, <1>6, <1>7 DEF Next, OwnerStep, Finished

-----------------------------------------------------------------------------
(* Theorems. *)

\* The invariant that carries the theorems below.
THEOREM ServerInvariance == Spec => [](Typed /\ Attentive /\ ListenerOutlivesThreads)
<1>1. Init => Typed /\ Attentive /\ ListenerOutlivesThreads
  <2>1. Init => ListenerOutlivesThreads
    BY DEF Init, ListenerOutlivesThreads
  <2>. QED  BY <2>1, InitTypes, InitAttentive
<1>2. Typed /\ Attentive /\ ListenerOutlivesThreads /\ [Next]_vars
          => (Typed /\ Attentive /\ ListenerOutlivesThreads)'
  <2>. SUFFICES ASSUME Typed, Attentive, ListenerOutlivesThreads, [Next]_vars
                PROVE  Typed' /\ Attentive' /\ ListenerOutlivesThreads'
    OBVIOUS
  <2>1. Attentive'
    BY WorkerAttentive, OthersAttentive DEF Next, Finished
  <2>. QED  BY <2>1, TypesStep, ListenerStep
<1>. QED  BY <1>1, <1>2, PTL DEF Spec

\* The server's variables have the types PodServer declares, and the queue never
\* exceeds max_pending_connections.
THEOREM ServerTypes == Spec => []TypeOK
<1>1. Typed => TypeOK
  BY DEF Typed
<1>. QED  BY <1>1, ServerInvariance, PTL

\* notify_one() after a push never leaves a connection to workers that all sleep.
THEOREM SleepersSpare == Spec => []SleepersAreSpare
<1>1. Attentive => SleepersAreSpare
  BY DEF Attentive
<1>. QED  BY <1>1, ServerInvariance, PTL

\* The acceptor never sleeps beside a queue with room that nobody tells it of.
THEOREM AcceptorSees == Spec => []AcceptorSeesRoom
<1>1. Attentive => AcceptorSeesRoom
  BY DEF Attentive
<1>. QED  BY <1>1, ServerInvariance, PTL

\* stop() closes the listener only when no thread is left, over any number of starts.
THEOREM ListenerIsLast == Spec => []ListenerOutlivesThreads
BY ServerInvariance, PTL
=============================================================================
