--------------------------- MODULE RequestsProofs ---------------------------
(***************************************************************************)
(* Proofs about Requests, for any number of connections and of calls on    *)
(* each: what a call changes, how far the answer it returns may lag behind *)
(* it, and which state that answer reports.                                *)
(***************************************************************************)
EXTENDS Requests, FiniteSetTheorems, TLAPS

\* What travels: requests one way, responses and error frames the other.
ErrorFrame == [error |-> TRUE]
RequestMessages == [call : CallNumbers, kind : Kinds]
Responses == [call : CallNumbers, kind : Kinds, ok : BOOLEAN, digest : Nat,
              retired : BOOLEAN, text : Nat]
Chunks(messages) == [part : {"head", "body"}, message : messages]
Results == [call : CallNumbers, began : Nat, missed : Nat, answer : Responses]
Effects == [times : Nat, version : Nat]

ClientPlaces == {"idle", "head", "body", "gone"}
WorkerPlaces == {"queued", "head", "payload", "state", "text", "act", "refresh", "reread",
                 "write", "closed"}

Typed ==
    /\ published \in [version : Nat, retired : BOOLEAN] /\ stopping_ \in BOOLEAN
    /\ toServer \in [Connections -> Seq(Chunks(RequestMessages))]
    /\ toClient \in [Connections -> Seq(Chunks(Responses \cup {ErrorFrame}))]
    /\ client \in [Connections -> ClientPlaces] /\ worker \in [Connections -> WorkerPlaces]
    /\ calls \in [Connections -> 0 .. MaxCalls] /\ missed \in [Connections -> Nat]
    /\ began \in [Connections -> Nat]
    /\ incoming \in [Connections -> Responses \cup {ErrorFrame, NoAnswer}]
    /\ request \in [Connections -> RequestMessages \cup {NoAnswer}]
    /\ answer \in [Connections -> Responses \cup {NoAnswer}]
    /\ result \in [Connections -> Results \cup {NoAnswer}]
    /\ effects \in [Connections -> [CallNumbers -> Effects]]

-----------------------------------------------------------------------------
(* The inductive invariant, of one connection. *)

Heads(s) == {i \in DOMAIN s : s[i].part = "head"}
Replies(s) == {i \in Heads(s) : s[i].message # ErrorFrame}

\* The responses the client may still return, and the call of the last it did.
Answers(c) == {toClient[c][i].message : i \in Replies(toClient[c])}
              \cup ({incoming[c]} \ {ErrorFrame, NoAnswer})
Last(c) == IF result[c] = NoAnswer THEN 0 ELSE result[c].answer.call

Waiting(c) == IF client[c] \in {"head", "body"} THEN 1 ELSE 0
Busy(c) == worker[c] \in {"payload", "state", "text", "act", "refresh", "reread", "write"}

\* A response tells what its call did, and is of the state that held then.
Truthful(c, response) ==
    LET mine == effects[c][response.call]
    IN  /\ response.text >= response.digest
        /\ response.ok => response.digest >= mine.version \/ response.kind = "retire"
        /\ response.kind = "retire" /\ (response.ok \/ mine.times > 0) => response.retired
        /\ response.ok /\ response.kind \in {"apply", "admin", "retire"} => mine.times = 1
        /\ ~response.ok /\ response.kind \in {"apply", "admin"} => mine.times = 0

\* Every call waits, has missed its answer or has returned one, and answers are
\* returned in the order of the calls they are for.
Counted(c) ==
    /\ missed[c] + Waiting(c) =< calls[c]
    /\ calls[c] =< missed[c] + Waiting(c) + Last(c)
    /\ client[c] = "body" <=> incoming[c] # NoAnswer
    /\ began[c] =< published.version
    /\ result[c] # NoAnswer =>
        /\ result[c].answer.call =< result[c].call /\ result[c].call =< calls[c]
        /\ result[c].call =< result[c].missed + result[c].answer.call
        /\ result[c].answer.call = result[c].call => result[c].answer.digest >= result[c].began
        /\ Truthful(c, result[c].answer)

\* Requests are under way in the order they were called, each body behind its own
\* head, which the worker may have read.
Ordered(c) ==
    LET sent == toServer[c]
    IN  /\ \A i \in DOMAIN sent : sent[i].message.call =< calls[c]
        /\ \A i, j \in DOMAIN sent :
              i < j /\ sent[j].part = "head" => sent[i].message.call < sent[j].message.call
        /\ \A i \in DOMAIN sent : sent[i].part = "body" =>
              IF i = 1 THEN worker[c] \in {"payload", "closed"}
                            /\ (worker[c] = "payload" => sent[1] = BodyOf(request[c]))
              ELSE sent[i - 1] = HeadOf(sent[i].message)

InOrder(s) ==
    \A i, j \in Replies(s) : i < j => s[i].message.call < s[j].message.call

\* The answers under way are later than what was returned, in order, and true.
Answered(c) ==
    /\ \A m \in Answers(c) :
          /\ Last(c) < m.call /\ m.call =< calls[c] /\ Truthful(c, m)
          /\ m.call = calls[c] => m.digest >= began[c]
    /\ InOrder(toClient[c])
    /\ incoming[c] \notin {ErrorFrame, NoAnswer} =>
          \A i \in Replies(toClient[c]) : incoming[c].call < toClient[c][i].message.call

\* A request is later than every answer that went out before it is served.
LaterThanAnswers(c, call) ==
    /\ Last(c) < call
    /\ \A m \in Answers(c) : m.call < call
    /\ Len(toClient[c]) =< 2 * (call - 1)

Queued(c) ==
    /\ Len(toClient[c]) =< 2 * calls[c]
    /\ \A i \in Heads(toServer[c]) :
          /\ LaterThanAnswers(c, toServer[c][i].message.call)
          /\ Busy(c) => request[c].call < toServer[c][i].message.call
    /\ Busy(c) => /\ request[c] \in RequestMessages /\ request[c].call =< calls[c]
                  /\ LaterThanAnswers(c, request[c].call)

\* The answer the worker builds, at every place of handle().
Built(c) ==
    LET it == answer[c]
    IN  /\ worker[c] \in {"text", "act", "refresh", "reread", "write"} =>
              /\ it \in Responses /\ it.call = request[c].call /\ it.kind = request[c].kind
              /\ it.digest =< published.version
              /\ it.call = calls[c] => it.digest >= began[c]
        /\ worker[c] \in {"text", "act"} => it.ok
        /\ worker[c] = "act" => it.text >= it.digest /\ it.kind \in {"apply", "admin", "retire"}
        /\ worker[c] = "refresh" =>
              /\ it.kind \in {"admin", "retire"}
              /\ it.kind = "admin" => it.ok
              /\ it.kind = "retire" =>
                    /\ it.text >= it.digest
                    /\ it.ok \/ effects[c][it.call].times > 0 => published.retired
              /\ it.ok => effects[c][it.call].times = 1
        /\ worker[c] = "reread" =>
              /\ it.kind \in {"apply", "admin"} /\ it.ok
              /\ it.digest >= effects[c][it.call].version
              /\ effects[c][it.call].times = 1
        /\ worker[c] = "write" => Truthful(c, it)

\* Nothing acts before its turn, and nothing twice.
Acts(c) ==
    \A n \in CallNumbers :
        /\ effects[c][n].times =< 1 /\ effects[c][n].version =< published.version
        /\ effects[c][n].times = 0 => effects[c][n].version = 0
        /\ effects[c][n].times > 0 =>
              /\ n =< calls[c]
              /\ \A i \in Heads(toServer[c]) : n < toServer[c][i].message.call
              /\ Busy(c) => n =< request[c].call
              /\ worker[c] \in {"payload", "state", "text", "act"} => n # request[c].call

Sound(c) ==
    Counted(c) /\ Ordered(c) /\ Answered(c) /\ Queued(c) /\ Built(c) /\ Acts(c)

\* The pod changed as often as its owner or the calls made it.
Acted == {p \in Connections \X CallNumbers : effects[p[1]][p[2]].times > 0}
VersionsCounted == published.version =< MaxVersion + Cardinality(Acted)

AllSound == \A c \in Connections : Sound(c)

-----------------------------------------------------------------------------
(* Sequences and messages. *)

\* Reading the first chunk of a channel.
LEMMA Popped ==
    ASSUME NEW S, NEW s \in Seq(S), s # <<>>
    PROVE  /\ Tail(s) \in Seq(S) /\ Len(Tail(s)) = Len(s) - 1 /\ Len(s) \in Nat \ {0}
           /\ Head(s) = s[1] /\ Head(s) \in S /\ s[1] \in S /\ 1 \in DOMAIN s
           /\ \A i \in DOMAIN Tail(s) : i \in Nat \ {0} /\ i + 1 \in DOMAIN s /\ Tail(s)[i] = s[i + 1]
OBVIOUS

\* Sending a frame, its head or nothing.
Extended(s, m, longer) ==
    /\ \A i \in DOMAIN longer :
          \/ i \in DOMAIN s /\ longer[i] = s[i]
          \/ i = Len(s) + 1 /\ longer[i] = HeadOf(m)
          \/ i = Len(s) + 2 /\ longer[i] = BodyOf(m) /\ longer[i - 1] = HeadOf(m)
    /\ \A i \in DOMAIN s : i \in 1 .. Len(s) /\ longer[i] = s[i]
    /\ DOMAIN s = 1 .. Len(s) /\ Len(s) \in Nat

LEMMA Pushed ==
    ASSUME NEW S, NEW s \in Seq(S), NEW m, HeadOf(m) \in S, BodyOf(m) \in S,
           NEW t \in {<<>>, <<HeadOf(m)>>, FrameOf(m)}
    PROVE  /\ s \o t \in Seq(S) /\ Len(s) =< Len(s \o t) /\ Len(s \o t) =< Len(s) + 2
           /\ Extended(s, m, s \o t)
<1>. USE DEF Extended
<1>1. CASE t = <<>>
  <2>1. s \o t = s
    BY <1>1
  <2>. QED  BY <2>1
<1>2. CASE t = <<HeadOf(m)>>
  <2>. DEFINE h == HeadOf(m)
  <2>. HIDE DEF h
  <2>1. t = <<h>> /\ h \in S
    BY <1>2 DEF h
  <2>2. /\ s \o t \in Seq(S) /\ Len(s \o t) = Len(s) + 1 /\ (s \o t)[Len(s) + 1] = h
        /\ DOMAIN s = 1 .. Len(s) /\ DOMAIN (s \o t) = 1 .. Len(s) + 1
        /\ \A i \in 1 .. Len(s) : (s \o t)[i] = s[i]
    BY <2>1
  <2>. QED  BY <2>2 DEF h
<1>3. CASE t = FrameOf(m)
  <2>. DEFINE h == HeadOf(m)
              b == BodyOf(m)
  <2>1. t = <<h, b>>
    BY <1>3 DEF FrameOf
  <2>. HIDE DEF h, b
  <2>2. h \in S /\ b \in S
    BY DEF h, b
  <2>3. /\ s \o t \in Seq(S) /\ Len(s \o t) = Len(s) + 2
        /\ (s \o t)[Len(s) + 1] = h /\ (s \o t)[Len(s) + 2] = b
        /\ DOMAIN s = 1 .. Len(s) /\ DOMAIN (s \o t) = 1 .. Len(s) + 2
        /\ \A i \in 1 .. Len(s) : (s \o t)[i] = s[i]
    BY <2>1, <2>2
  <2>4. Len(s) + 2 - 1 = Len(s) + 1
    OBVIOUS
  <2>. QED  BY <2>3, <2>4 DEF h, b
<1>. QED  BY <1>1, <1>2, <1>3

\* A chunk tells its part and its message.
LEMMA ChunkParts ==
    ASSUME NEW m
    PROVE  /\ HeadOf(m).part = "head" /\ HeadOf(m).message = m
           /\ BodyOf(m).part = "body" /\ BodyOf(m).message = m
           /\ HeadOf(m) # BodyOf(m)
BY DEF HeadOf, BodyOf
LEMMA ChunkTypes ==
    ASSUME NEW S, NEW m \in S
    PROVE  HeadOf(m) \in Chunks(S) /\ BodyOf(m) \in Chunks(S)
BY DEF HeadOf, BodyOf, Chunks

\* A response is neither an error frame nor the lack of one, and says so.
LEMMA Distinct ==
    /\ NoAnswer \notin Responses /\ NoAnswer \notin RequestMessages /\ NoAnswer \notin Results
    /\ ErrorFrame \notin Responses /\ ErrorFrame # NoAnswer
    /\ "error" \in DOMAIN ErrorFrame
    /\ \A m \in Responses : "error" \notin DOMAIN m
<1>1. 0 \notin CallNumbers
  BY DEF CallNumbers
<1>2. NoAnswer.call = 0
  BY DEF NoAnswer
<1>3. NoAnswer \notin Responses /\ NoAnswer \notin RequestMessages /\ NoAnswer \notin Results
  BY <1>1, <1>2 DEF Responses, RequestMessages, Results
<1>4. "error" \in DOMAIN ErrorFrame /\ "error" \notin DOMAIN NoAnswer
  BY DEF ErrorFrame, NoAnswer
<1>5. \A m \in Responses : "error" \notin DOMAIN m
  BY DEF Responses
<1>. QED  BY <1>3, <1>4, <1>5

\* Call numbers are counted from 1.
LEMMA CallNumbersAreNatural == \A n \in CallNumbers : n \in Nat \ {0} /\ n =< MaxCalls
BY RequestsAssumption DEF CallNumbers

-----------------------------------------------------------------------------
(* Types. *)

\* Nothing was called yet.
LEMMA InitTyped == Init => Typed
<1>. SUFFICES ASSUME Init PROVE Typed
  OBVIOUS
<1>1. /\ toServer \in [Connections -> Seq(Chunks(RequestMessages))]
      /\ toClient \in [Connections -> Seq(Chunks(Responses \cup {ErrorFrame}))]
  <2>1. \A S : <<>> \in Seq(S)
    OBVIOUS
  <2>. QED  BY <2>1 DEF Init
<1>2. effects \in [Connections -> [CallNumbers -> Effects]]
  BY DEF Init, NoEffect, Effects
<1>3. calls \in [Connections -> 0 .. MaxCalls]
  BY RequestsAssumption DEF Init
<1>. QED  BY <1>1, <1>2, <1>3 DEF Init, Typed, ClientPlaces, WorkerPlaces

\* What a connection's variables hold.
LEMMA ConnectionTypes ==
    ASSUME Typed, NEW c \in Connections
    PROVE  /\ toServer[c] \in Seq(Chunks(RequestMessages))
           /\ toClient[c] \in Seq(Chunks(Responses \cup {ErrorFrame}))
           /\ client[c] \in ClientPlaces /\ worker[c] \in WorkerPlaces
           /\ calls[c] \in Nat /\ calls[c] =< MaxCalls /\ missed[c] \in Nat /\ began[c] \in Nat
           /\ incoming[c] \in Responses \cup {ErrorFrame, NoAnswer}
           /\ request[c] \in RequestMessages \cup {NoAnswer}
           /\ answer[c] \in Responses \cup {NoAnswer}
           /\ result[c] \in Results \cup {NoAnswer}
           /\ \A n \in CallNumbers : effects[c][n].times \in Nat /\ effects[c][n].version \in Nat
           /\ published.version \in Nat /\ published.retired \in BOOLEAN
<1>1. \A n \in CallNumbers : effects[c][n] \in Effects
  BY DEF Typed
<1>2. calls[c] \in Nat /\ calls[c] =< MaxCalls
  <2>1. calls[c] \in 0 .. MaxCalls
    BY DEF Typed
  <2>. QED  BY <2>1, RequestsAssumption
<1>3. \A n \in CallNumbers : effects[c][n].times \in Nat /\ effects[c][n].version \in Nat
  BY <1>1 DEF Effects
<1>. QED  BY <1>2, <1>3 DEF Typed

\* The states the pod moves to.
LEMMA PublishedTypes ==
    ASSUME Typed
    PROVE  LET retired == [published EXCEPT !.retired = TRUE]
           IN  /\ Newer \in [version : Nat, retired : BOOLEAN]
               /\ Newer.version = published.version + 1 /\ Newer.retired = published.retired
               /\ retired \in [version : Nat, retired : BOOLEAN]
               /\ retired.version = published.version /\ retired.retired = TRUE
<1>. DEFINE retired == [published EXCEPT !.retired = TRUE]
<1>1. published \in [version : Nat, retired : BOOLEAN]
  BY DEF Typed
<1>2. /\ Newer \in [version : {published.version + 1}, retired : {published.retired}]
      /\ published.version + 1 \in Nat
  BY <1>1 DEF Newer
<1>3. retired \in [version : {published.version}, retired : {TRUE}]
  BY <1>1
<1>. HIDE DEF retired
<1>4. /\ Newer \in [version : Nat, retired : BOOLEAN]
      /\ Newer.version = published.version + 1 /\ Newer.retired = published.retired
  BY <1>1, <1>2
<1>5. /\ retired \in [version : Nat, retired : BOOLEAN]
      /\ retired.version = published.version /\ retired.retired = TRUE
  BY <1>1, <1>3
<1>. QED  BY <1>4, <1>5 DEF retired

\* What the callers do.
LEMMA CallerTyped ==
    ASSUME Typed, AllSound, NEW c \in Connections,
           CallerStep(c) \/ HangUp(c) \/ \E kind \in Kinds : Call(c, kind)
    PROVE  Typed'
<1>. USE ConnectionTypes
<1>1. ASSUME NEW kind \in Kinds, Call(c, kind)  PROVE Typed'
  <2>1. calls[c] + 1 \in CallNumbers /\ calls[c] + 1 \in 0 .. MaxCalls
    BY <1>1, RequestsAssumption DEF Call, CallNumbers
  <2>2. calls' \in [Connections -> 0 .. MaxCalls] /\ calls'[c] = calls[c] + 1
    BY <1>1, <2>1 DEF Call, Typed
  <2>. DEFINE message == [call |-> calls[c] + 1, kind |-> kind]
  <2>3. message \in RequestMessages
    BY <2>1 DEF RequestMessages
  <2>. HIDE DEF message
  <2>4. toServer' \in [Connections -> Seq(Chunks(RequestMessages))]
    <3>1. PICK sent \in {<<>>, <<HeadOf(message)>>, FrameOf(message)} : Send(c, sent)
      BY <1>1, <2>2 DEF Call, message
    <3>2. /\ HeadOf(message) \in Chunks(RequestMessages)
          /\ BodyOf(message) \in Chunks(RequestMessages)
      BY <2>3, ChunkTypes
    <3>3. toServer[c] \o sent \in Seq(Chunks(RequestMessages))
      BY <3>1, <3>2, Pushed
    <3>. QED  BY <3>1, <3>3 DEF Send, Typed
  <2>5. client' \in [Connections -> ClientPlaces]
    <3>1. Goes(c, "head") \/ UNCHANGED client
      BY <1>1 DEF Call
    <3>. QED  BY <3>1 DEF Goes, Typed, ClientPlaces
  <2>6. missed' \in [Connections -> Nat]
    <3>1. Misses(c) \/ UNCHANGED missed
      BY <1>1 DEF Call
    <3>. QED  BY <3>1 DEF Misses, Typed
  <2>7. began' \in [Connections -> Nat]
    BY <1>1 DEF Call, Typed
  <2>. QED  BY <1>1, <2>2, <2>4, <2>5, <2>6, <2>7 DEF Call, Typed, server
<1>2. CASE CallerStep(c) \/ HangUp(c)
  <2>1. client' \in [Connections -> ClientPlaces]
    BY <1>2 DEF CallerStep, ReadHead, ReadBody, GiveUp, HangUp, Goes, Typed, ClientPlaces
  <2>2. missed' \in [Connections -> Nat]
    BY SMTT(30), <1>2 DEF CallerStep, ReadHead, ReadBody, GiveUp, HangUp, Misses, Typed
  <2>3. toClient' \in [Connections -> Seq(Chunks(Responses \cup {ErrorFrame}))]
    <3>1. toClient' = toClient \/ (toClient[c] # <<>> /\ Receives(c))
      BY <1>2 DEF CallerStep, ReadHead, ReadBody, GiveUp, HangUp
    <3>2. toClient[c] # <<>> => Tail(toClient[c]) \in Seq(Chunks(Responses \cup {ErrorFrame}))
      BY Popped
    <3>. QED  BY <3>1, <3>2 DEF Receives, Typed
  <2>4. incoming' \in [Connections -> Responses \cup {ErrorFrame, NoAnswer}]
    <3>1. toClient[c] # <<>> => Head(toClient[c]) \in Chunks(Responses \cup {ErrorFrame})
      BY Popped
    <3>2. ReadHead(c) => Head(toClient[c]).message \in Responses \cup {ErrorFrame}
      BY <3>1 DEF ReadHead, Chunks
    <3>. QED  BY <1>2, <3>2 DEF CallerStep, ReadHead, ReadBody, GiveUp, HangUp, Typed
  <2>5. result' \in [Connections -> Results \cup {NoAnswer}]
    <3>1. CASE result' = result
      BY <3>1 DEF Typed
    <3>2. CASE ReadBody(c) /\ "error" \notin DOMAIN incoming[c]
      <4>1. incoming[c] \in Responses
        BY <3>2, Distinct DEF ReadBody, AllSound, Sound, Counted
      <4>2. calls[c] \in CallNumbers
        BY <3>2, RequestsAssumption DEF ReadBody, AllSound, Sound, Counted, Waiting, CallNumbers
      <4>3. [call |-> calls[c], began |-> began[c], missed |-> missed[c],
             answer |-> incoming[c]] \in Results
        BY <4>1, <4>2 DEF Results
      <4>. QED  BY <3>2, <4>3 DEF ReadBody, Typed
    <3>. QED  BY <1>2, <3>1, <3>2 DEF CallerStep, ReadHead, ReadBody, GiveUp, HangUp
  <2>. QED  BY <1>2, <2>1, <2>2, <2>3, <2>4, <2>5
            DEF CallerStep, ReadHead, ReadBody, GiveUp, HangUp, ClientReads, server, Typed
<1>. QED  BY <1>1, <1>2

\* What the workers do.
LEMMA WorkerTyped ==
    ASSUME Typed, AllSound, NEW c \in Connections, WorkerStep(c)
    PROVE  Typed'
<1>1. worker' \in [Connections -> WorkerPlaces]
  <2>1. \E place \in WorkerPlaces : Moves(c, place)
    <3>1. CASE Serve(c) \/ ReadRequestHead(c) \/ ReadRequestBody(c) \/ ReadTimeout(c)
               \/ ReadState(c) \/ ReadText(c)
      BY <3>1 DEF Serve, ReadRequestHead, ReadRequestBody, ReadTimeout, ReadState, ReadText,
                  WorkerPlaces
    <3>2. CASE Apply(c) \/ SetAdmin(c) \/ Retire(c)
      BY <3>2 DEF Apply, SetAdmin, Retire, Refused, WorkerPlaces
    <3>3. CASE Refresh(c) \/ RereadText(c) \/ Respond(c)
      BY <3>3 DEF Refresh, RereadText, Respond, NextFrame, WorkerPlaces
    <3>. QED  BY <3>1, <3>2, <3>3 DEF WorkerStep
  <2>. QED  BY <2>1 DEF Moves, Typed
<1>2. toServer' \in [Connections -> Seq(Chunks(RequestMessages))]
  <2>1. \/ toServer' = toServer
        \/ toServer[c] # <<>> /\ toServer' = [toServer EXCEPT ![c] = Tail(@)]
    <3>1. CASE Serve(c) \/ ReadRequestHead(c) \/ ReadRequestBody(c) \/ ReadTimeout(c)
      BY <3>1 DEF Serve, ReadRequestHead, ReadRequestBody, ReadTimeout, channels
    <3>2. CASE ReadState(c) \/ ReadText(c) \/ Apply(c) \/ SetAdmin(c) \/ Retire(c)
               \/ Refresh(c) \/ RereadText(c) \/ Respond(c)
      BY <3>2 DEF ReadState, ReadText, Apply, SetAdmin, Retire, Refresh, RereadText, Respond,
                  Building, channels
    <3>. QED  BY <3>1, <3>2 DEF WorkerStep
  <2>2. toServer[c] # <<>> => Tail(toServer[c]) \in Seq(Chunks(RequestMessages))
    BY ConnectionTypes, Popped
  <2>. QED  BY <2>1, <2>2 DEF Typed
<1>3. toClient' \in [Connections -> Seq(Chunks(Responses \cup {ErrorFrame}))]
  <2>1. \/ toClient' = toClient
        \/ Reply(c, FrameOf(ErrorFrame))
        \/ /\ worker[c] = "write"
           /\ \E t \in {<<>>, <<HeadOf(answer[c])>>, FrameOf(answer[c])} : Reply(c, t)
    BY DEF WorkerStep, Serve, ReadRequestHead, ReadRequestBody, ReadTimeout, ReadState, ReadText,
           Apply, SetAdmin, Retire, Refresh, RereadText, Respond, Building, channels, ErrorFrame
  <2>2. worker[c] = "write" => answer[c] \in Responses
    BY DEF AllSound, Sound, Built
  <2>3. ASSUME NEW m \in Responses \cup {ErrorFrame},
               NEW t \in {<<>>, <<HeadOf(m)>>, FrameOf(m)}
        PROVE  toClient[c] \o t \in Seq(Chunks(Responses \cup {ErrorFrame}))
    <3>. DEFINE S == Chunks(Responses \cup {ErrorFrame})
    <3>1. HeadOf(m) \in S /\ BodyOf(m) \in S
      BY <2>3, ChunkTypes
    <3>2. toClient[c] \in Seq(S)
      BY ConnectionTypes
    <3>. HIDE DEF S
    <3>3. PICK s \in Seq(S) : s = toClient[c]
      BY <3>2
    <3>4. s \o t \in Seq(S)
      BY <2>3, <3>1, Pushed
    <3>. QED  BY <3>3, <3>4 DEF S
  <2>4. toClient[c] \o FrameOf(ErrorFrame) \in Seq(Chunks(Responses \cup {ErrorFrame}))
    BY <2>3
  <2>5. CASE Reply(c, FrameOf(ErrorFrame))
    BY <2>4, <2>5 DEF Reply, Typed
  <2>6. ASSUME worker[c] = "write",
               NEW t \in {<<>>, <<HeadOf(answer[c])>>, FrameOf(answer[c])}, Reply(c, t)
        PROVE  toClient' \in [Connections -> Seq(Chunks(Responses \cup {ErrorFrame}))]
    <3>1. toClient[c] \o t \in Seq(Chunks(Responses \cup {ErrorFrame}))
      BY <2>2, <2>3, <2>6
    <3>. QED  BY <2>6, <3>1 DEF Reply, Typed
  <2>. QED  BY <2>1, <2>5, <2>6 DEF Typed
<1>4. request' \in [Connections -> RequestMessages \cup {NoAnswer}]
  <2>1. toServer[c] # <<>> => Head(toServer[c]) \in Chunks(RequestMessages)
    BY ConnectionTypes, Popped
  <2>2. ReadRequestHead(c) => Head(toServer[c]).message \in RequestMessages
    BY <2>1 DEF ReadRequestHead, Chunks
  <2>3. \/ UNCHANGED request \/ ReadRequestHead(c)
        \/ request' = [request EXCEPT ![c] = NoAnswer]
    BY DEF WorkerStep, Serve, ReadRequestBody, ReadTimeout, ReadState, ReadText,
           Apply, SetAdmin, Retire, Refresh, RereadText, Respond, Building
  <2>. QED  BY <2>2, <2>3 DEF ReadRequestHead, Typed
<1>5. /\ Busy(c) => request[c] \in RequestMessages
      /\ worker[c] \in {"text", "act", "refresh", "reread", "write"} => answer[c] \in Responses
  <2>1. Queued(c) /\ Built(c)
    BY DEF AllSound, Sound
  <2>. QED  BY <2>1 DEF Queued, Built
<1>6. published' \in [version : Nat, retired : BOOLEAN]
  <2>1. \/ UNCHANGED published \/ published' = Newer
        \/ published' = [published EXCEPT !.retired = TRUE]
    BY DEF WorkerStep, Serve, ReadRequestHead, ReadRequestBody, ReadTimeout, ReadState, ReadText,
           Apply, SetAdmin, Retire, Refresh, RereadText, Respond, ServerReads, Changes, Refused
  <2>. QED  BY <2>1, PublishedTypes DEF Typed
<1>7. effects' \in [Connections -> [CallNumbers -> Effects]]
  <2>1. CASE effects' = effects
    BY <2>1 DEF Typed
  <2>2. ASSUME NEW state, worker[c] = "act", Changes(c, state), state.version \in Nat
        PROVE  effects' \in [Connections -> [CallNumbers -> Effects]]
    <3>1. request[c].call \in CallNumbers
      BY <1>5, <2>2 DEF Busy, RequestMessages
    <3>2. [times |-> effects[c][request[c].call].times + 1, version |-> state.version] \in Effects
      BY <2>2, <3>1, ConnectionTypes DEF Effects
    <3>. QED  BY <2>2, <3>1, <3>2 DEF Changes, Typed
  <2>3. Newer.version \in Nat /\ [published EXCEPT !.retired = TRUE].version \in Nat
    BY PublishedTypes
  <2>4. \/ effects' = effects
        \/ /\ worker[c] = "act"
           /\ Changes(c, Newer) \/ Changes(c, [published EXCEPT !.retired = TRUE])
    BY DEF WorkerStep, Serve, ReadRequestHead, ReadRequestBody, ReadTimeout, ReadState, ReadText,
           Apply, SetAdmin, Retire, Refresh, RereadText, Respond, ServerReads, Refused
  <2>. QED  BY <2>1, <2>2, <2>3, <2>4
<1>8. answer' \in [Connections -> Responses \cup {NoAnswer}]
  <2>1. CASE ReadState(c)
    <3>1. request[c] \in RequestMessages
      BY <1>5, <2>1 DEF Busy, ReadState
    <3>2. [call |-> request[c].call, kind |-> request[c].kind, ok |-> TRUE,
           digest |-> published.version, retired |-> published.retired, text |-> 0] \in Responses
      BY <3>1, ConnectionTypes DEF RequestMessages, Responses
    <3>. QED  BY <2>1, <3>2 DEF ReadState, Typed
  <2>2. CASE worker[c] \in {"text", "act", "refresh", "reread"}
    <3>1. answer[c] \in Responses
      BY <1>5, <2>2
    <3>2. Newer.version \in Nat /\ published.version \in Nat
      BY PublishedTypes, ConnectionTypes
    <3>3. answer' = answer \/ \E m \in Responses : answer' = [answer EXCEPT ![c] = m]
      <4>1. CASE ReadText(c) \/ RereadText(c)
        BY <3>1, <4>1 DEF ReadText, RereadText, Typed, Responses
      <4>2. CASE Apply(c)
        <5>1. /\ [answer[c] EXCEPT !.digest = Newer.version,
                                   !.retired = published.retired] \in Responses
              /\ [answer[c] EXCEPT !.ok = FALSE] \in Responses
          BY <3>1, <3>2, PublishedTypes DEF Responses
        <5>2. \/ answer' = [answer EXCEPT ![c] = [answer[c] EXCEPT !.digest = Newer.version,
                                                                  !.retired = published.retired]]
              \/ answer' = [answer EXCEPT ![c] = [answer[c] EXCEPT !.ok = FALSE]]
          BY <4>2 DEF Apply, Refused, Typed
        <5>. QED  BY <5>1, <5>2
      <4>3. CASE SetAdmin(c) \/ Retire(c)
        BY <3>1, <4>3 DEF SetAdmin, Retire, Refused, Typed, Responses
      <4>4. CASE Refresh(c)
        BY <3>1, <4>4 DEF Refresh, Typed, Responses
      <4>. QED  BY <2>2, <4>1, <4>2, <4>3, <4>4
                DEF WorkerStep, Serve, ReadRequestHead, ReadRequestBody, ReadTimeout, ReadState,
                    Respond
    <3>. QED  BY <3>3 DEF Typed
  <2>3. CASE ~ReadState(c) /\ worker[c] \notin {"text", "act", "refresh", "reread"}
    BY <2>3 DEF WorkerStep, Serve, ReadRequestHead, ReadRequestBody, ReadTimeout, ReadText, Apply,
            SetAdmin, Retire, Refresh, RereadText, Respond, Typed
  <2>. QED  BY <2>1, <2>2, <2>3
<1>9. stopping_' \in BOOLEAN /\ UNCHANGED caller
  BY DEF WorkerStep, Serve, ReadRequestHead, ReadRequestBody, ReadTimeout, ReadState, ReadText,
         Apply, SetAdmin, Retire, Refresh, RereadText, Respond, ServerReads, Building, Typed
<1>. QED  BY <1>1, <1>2, <1>3, <1>4, <1>6, <1>7, <1>8, <1>9 DEF Typed, caller

\* Every step keeps the types.
LEMMA TypedStep ==
    ASSUME Typed, AllSound, [Next]_vars  PROVE Typed'
<1>1. CASE Stop \/ UNCHANGED vars
  BY <1>1 DEF Stop, vars, channels, caller, server, Typed
<1>2. CASE Elsewhere
  <2>1. published' \in [version : Nat, retired : BOOLEAN]
    BY <1>2, PublishedTypes DEF Elsewhere, Typed
  <2>. QED  BY <1>2, <2>1 DEF Elsewhere, channels, caller, server, Typed
<1>. QED  BY <1>1, <1>2, CallerTyped, WorkerTyped DEF Next

-----------------------------------------------------------------------------
(* Every step keeps every connection sound. *)

\* What a connection holds that no step touches.
Untouched(c) ==
    /\ toServer'[c] = toServer[c] /\ toClient'[c] = toClient[c]
    /\ client'[c] = client[c] /\ calls'[c] = calls[c] /\ incoming'[c] = incoming[c]
    /\ began'[c] = began[c] /\ missed'[c] = missed[c] /\ result'[c] = result[c]
    /\ worker'[c] = worker[c] /\ request'[c] = request[c] /\ answer'[c] = answer[c]
    /\ effects'[c] = effects[c]

\* The published state only moves on.
MovesOn == published.version =< published'.version
           /\ (published.retired => published'.retired)

\* The call of every answer is a call number, and so is that of what was returned.
LEMMA AnswerTypes ==
    ASSUME Typed, NEW c \in Connections
    PROVE  /\ Answers(c) \subseteq Responses
           /\ \A m \in Responses : /\ m.call \in CallNumbers /\ m.call \in Nat \ {0}
                                   /\ m.digest \in Nat /\ m.text \in Nat
           /\ Last(c) \in Nat
           /\ \A i \in Replies(toClient[c]) : toClient[c][i].message \in Responses
           /\ result[c] # NoAnswer =>
                 /\ result[c].answer \in Responses /\ result[c].call \in Nat
                 /\ result[c].missed \in Nat /\ result[c].began \in Nat
                 /\ Last(c) = result[c].answer.call
           /\ \A m \in RequestMessages : m.call \in CallNumbers /\ m.call \in Nat \ {0}
           /\ \A i \in DOMAIN toServer[c] : /\ toServer[c][i] \in Chunks(RequestMessages)
                                            /\ toServer[c][i].message \in RequestMessages
<1>1. \A m \in Responses : /\ m.call \in CallNumbers /\ m.call \in Nat \ {0}
                           /\ m.digest \in Nat /\ m.text \in Nat
  BY CallNumbersAreNatural DEF Responses
<1>2. \A i \in Replies(toClient[c]) : toClient[c][i].message \in Responses
  <2>1. \A i \in DOMAIN toClient[c] : toClient[c][i] \in Chunks(Responses \cup {ErrorFrame})
    <3>. DEFINE S == Chunks(Responses \cup {ErrorFrame})
    <3>1. toClient[c] \in Seq(S)
      BY ConnectionTypes
    <3>. HIDE DEF S
    <3>2. PICK s \in Seq(S) : s = toClient[c]
      BY <3>1
    <3>3. \A i \in DOMAIN s : s[i] \in S
      OBVIOUS
    <3>. QED  BY <3>2, <3>3 DEF S
  <2>. QED  BY <2>1 DEF Replies, Heads, Chunks
<1>3. Answers(c) \subseteq Responses
  BY <1>2, ConnectionTypes DEF Answers
<1>4. result[c] # NoAnswer =>
          /\ result[c].answer \in Responses /\ result[c].call \in Nat
          /\ result[c].missed \in Nat /\ result[c].began \in Nat
          /\ Last(c) = result[c].answer.call
  <2>1. result[c] # NoAnswer => result[c] \in Results
    BY ConnectionTypes
  <2>. QED  BY <2>1, CallNumbersAreNatural DEF Results, Last
<1>5. Last(c) \in Nat
  BY <1>1, <1>4 DEF Last
<1>6. \A m \in RequestMessages : m.call \in CallNumbers /\ m.call \in Nat \ {0}
  BY CallNumbersAreNatural DEF RequestMessages
<1>7. \A i \in DOMAIN toServer[c] : /\ toServer[c][i] \in Chunks(RequestMessages)
                                    /\ toServer[c][i].message \in RequestMessages
  <2>1. \A i \in DOMAIN toServer[c] : toServer[c][i] \in Chunks(RequestMessages)
    BY ConnectionTypes
  <2>. QED  BY <2>1 DEF Chunks
<1>. QED  BY <1>1, <1>2, <1>3, <1>4, <1>5, <1>6, <1>7

\* A connection no step touches stays sound while the pod moves on.
LEMMA Bystander ==
    ASSUME Typed, Typed', NEW c \in Connections, Sound(c), Untouched(c), MovesOn
    PROVE  Sound(c)'
<1>. USE ConnectionTypes, AnswerTypes DEF Untouched, MovesOn
<1>1. /\ published.version \in Nat /\ published'.version \in Nat
      /\ Waiting(c)' = Waiting(c) /\ Last(c)' = Last(c) /\ Busy(c)' = Busy(c)
      /\ Answers(c)' = Answers(c)
  BY DEF Waiting, Last, Busy, Answers, Typed
<1>2. \A m : Truthful(c, m) => Truthful(c, m)'
  BY DEF Truthful
<1>3. Counted(c)'
  BY <1>1, <1>2 DEF Sound, Counted
<1>4. Ordered(c)'
  BY DEF Sound, Ordered
<1>5. Answered(c)'
  <2>1. \A m \in Answers(c) : /\ Last(c) < m.call /\ m.call =< calls[c] /\ Truthful(c, m)
                              /\ m.call = calls[c] => m.digest >= began[c]
    BY DEF Sound, Answered
  <2>2. /\ InOrder(toClient[c])
        /\ incoming[c] \notin {ErrorFrame, NoAnswer} =>
              \A i \in Replies(toClient[c]) : incoming[c].call < toClient[c][i].message.call
    BY DEF Sound, Answered
  <2>3. InOrder(toClient[c])' /\ Replies(toClient[c])' = Replies(toClient[c])
    BY <2>2 DEF InOrder, Replies, Heads
  <2>. QED  BY <1>1, <1>2, <2>1, <2>2, <2>3 DEF Answered
<1>6. Queued(c)'
  BY <1>1 DEF Sound, Queued, LaterThanAnswers
<1>7. Built(c)'
  <2>1. worker[c] \in {"text", "act", "refresh", "reread", "write"} => answer[c].digest \in Nat
    BY DEF Sound, Built
  <2>. QED  BY SMTT(30), <1>1, <1>2, <2>1 DEF Sound, Built
<1>8. Acts(c)'
  BY <1>1 DEF Sound, Acts
<1>. QED  BY <1>3, <1>4, <1>5, <1>6, <1>7, <1>8 DEF Sound

\* The steps of one connection leave the others alone.
LEMMA OthersUntouched ==
    ASSUME Typed, NEW c \in Connections, NEW d \in Connections, c # d,
           WorkerStep(c) \/ CallerStep(c) \/ HangUp(c) \/ \E kind \in Kinds : Call(c, kind)
    PROVE  Untouched(d)
<1>1. CASE CallerStep(c) \/ HangUp(c) \/ \E kind \in Kinds : Call(c, kind)
  <2>1. CASE ReadHead(c) \/ ReadBody(c)
    BY <2>1 DEF ReadHead, ReadBody, Goes, Misses, Receives, ClientReads, server, Typed, Untouched
  <2>2. CASE GiveUp(c) \/ HangUp(c)
    BY <2>2 DEF GiveUp, HangUp, Goes, Misses, ClientReads, server, Typed, Untouched
  <2>3. CASE \E kind \in Kinds : Call(c, kind)
    BY <2>3 DEF Call, Goes, Misses, Send, server, Typed, Untouched
  <2>. QED  BY <1>1, <2>1, <2>2, <2>3 DEF CallerStep
<1>2. CASE Serve(c) \/ ReadRequestHead(c) \/ ReadRequestBody(c) \/ ReadTimeout(c)
  BY <1>2 DEF Serve, ReadRequestHead, ReadRequestBody, ReadTimeout, Moves, Reply, ServerReads,
              channels, caller, Typed, Untouched
<1>3. CASE ReadState(c) \/ ReadText(c) \/ Refresh(c) \/ RereadText(c)
  BY <1>3 DEF ReadState, ReadText, Refresh, RereadText, Moves, Building, channels, caller, Typed,
              Untouched
<1>4. CASE Apply(c) \/ SetAdmin(c) \/ Retire(c)
  BY <1>4 DEF Apply, SetAdmin, Retire, Changes, Refused, Moves, Building, channels, caller, Typed,
              Untouched
<1>5. CASE Respond(c)
  BY <1>5 DEF Respond, NextFrame, Reply, Moves, caller, Typed, Untouched
<1>. QED  BY <1>1, <1>2, <1>3, <1>4, <1>5 DEF WorkerStep

\* No step takes the published state back.
LEMMA EveryStepMovesOn ==
    ASSUME Typed, [Next]_vars  PROVE MovesOn
<1>1. \/ UNCHANGED published \/ published' = Newer
      \/ published' = [published EXCEPT !.retired = TRUE]
  <2>1. CASE Stop \/ Elsewhere \/ UNCHANGED vars
    BY <2>1 DEF Stop, Elsewhere, vars
  <2>2. ASSUME NEW c \in Connections,
               CallerStep(c) \/ HangUp(c) \/ \E kind \in Kinds : Call(c, kind)
        PROVE  UNCHANGED published
    BY <2>2 DEF CallerStep, ReadHead, ReadBody, GiveUp, HangUp, Call, ClientReads
  <2>3. ASSUME NEW c \in Connections, WorkerStep(c)
        PROVE  \/ UNCHANGED published \/ published' = Newer
               \/ published' = [published EXCEPT !.retired = TRUE]
    BY <2>3 DEF WorkerStep, Serve, ReadRequestHead, ReadRequestBody, ReadTimeout, ReadState,
                ReadText, Apply, SetAdmin, Retire, Refresh, RereadText, Respond, ServerReads,
                Changes, Refused
  <2>. QED  BY <2>1, <2>2, <2>3 DEF Next
<1>2. published.version \in Nat
  BY DEF Typed
<1>. QED  BY <1>1, <1>2, PublishedTypes DEF MovesOn

\* Nothing is under way at first.
LEMMA InitSound == Init => AllSound
<1>. SUFFICES ASSUME Init, NEW c \in Connections PROVE Sound(c)
  BY DEF AllSound
<1>. USE DEF Init
<1>1. /\ Last(c) = 0 /\ Answers(c) = {} /\ Waiting(c) = 0 /\ ~Busy(c)
      /\ Replies(toClient[c]) = {} /\ Heads(toServer[c]) = {} /\ DOMAIN toServer[c] = {}
      /\ Len(toClient[c]) = 0
  BY DEF Last, Answers, Waiting, Busy, Replies, Heads
<1>2. Counted(c)
  BY <1>1 DEF Counted
<1>3. Ordered(c) /\ Answered(c)
  BY <1>1 DEF Ordered, Answered, InOrder
<1>4. Queued(c)
  BY <1>1 DEF Queued
<1>5. Built(c)
  BY DEF Built
<1>6. Acts(c)
  BY <1>1, CallNumbersAreNatural DEF Acts, NoEffect
<1>. QED  BY <1>2, <1>3, <1>4, <1>5, <1>6 DEF Sound

\* A caller that reads its answers leaves the server's side as it is.
LEMMA CallerLeaves ==
    ASSUME Typed, Typed', NEW c \in Connections, Sound(c), ClientReads
    PROVE  /\ Ordered(c)' /\ Built(c)' /\ Acts(c)'
           /\ \A m : Truthful(c, m)' <=> Truthful(c, m)
           /\ (/\ Answers(c)' \subseteq Answers(c) /\ Len(toClient'[c]) =< Len(toClient[c])
               /\ \A call \in CallNumbers : LaterThanAnswers(c, call) => Last(c)' < call
               => Queued(c)')
<1>. USE DEF ClientReads, server
<1>1. Ordered(c)' /\ Built(c)'
  <2>1. Ordered(c)'
    BY DEF Sound, Ordered
  <2>2. Built(c)'
    BY DEF Sound, Built, Truthful
  <2>. QED  BY <2>1, <2>2
<1>2. Busy(c)' = Busy(c)
  BY DEF Busy
<1>3. Acts(c)'
  BY <1>2 DEF Sound, Acts
<1>4. \A m : Truthful(c, m)' <=> Truthful(c, m)
  BY DEF Truthful
<1>5. ASSUME Answers(c)' \subseteq Answers(c), Len(toClient'[c]) =< Len(toClient[c]),
             \A call \in CallNumbers : LaterThanAnswers(c, call) => Last(c)' < call
      PROVE  Queued(c)'
  <2>1. Len(toClient'[c]) \in Nat /\ Len(toClient[c]) \in Nat
    BY ConnectionTypes DEF Typed
  <2>2. \A call \in CallNumbers : LaterThanAnswers(c, call) => LaterThanAnswers(c, call)'
    BY <1>5, <2>1, CallNumbersAreNatural DEF LaterThanAnswers
  <2>3. \A i \in Heads(toServer[c]) : toServer[c][i].message.call \in CallNumbers
    BY AnswerTypes DEF Heads
  <2>4. Busy(c) => request[c].call \in CallNumbers
    BY AnswerTypes DEF Sound, Queued
  <2>5. Len(toClient'[c]) =< 2 * calls[c]
    BY <1>5, <2>1, ConnectionTypes DEF Sound, Queued
  <2>. QED  BY <1>2, <2>2, <2>3, <2>4, <2>5 DEF Sound, Queued
<1>. QED  BY <1>1, <1>3, <1>4, <1>5

\* The replies behind the first chunk stay as they were, in their order.
LEMMA Received ==
    ASSUME Typed, NEW c \in Connections, toClient[c] # <<>>, toClient'[c] = Tail(toClient[c])
    PROVE  /\ Len(toClient'[c]) =< Len(toClient[c])
           /\ Head(toClient[c]) = toClient[c][1] /\ 1 \in DOMAIN toClient[c]
           /\ Head(toClient[c]).message \in Responses \cup {ErrorFrame}
           /\ \A i \in Replies(toClient'[c]) :
                 /\ i \in Nat \ {0} /\ i + 1 \in Replies(toClient[c])
                 /\ toClient'[c][i] = toClient[c][i + 1]
           /\ {toClient'[c][i].message : i \in Replies(toClient'[c])}
              \subseteq {toClient[c][i].message : i \in Replies(toClient[c])}
           /\ InOrder(toClient[c]) =>
                 /\ InOrder(toClient'[c])
                 /\ 1 \in Replies(toClient[c]) =>
                       \A i \in Replies(toClient'[c]) :
                          toClient[c][1].message.call < toClient'[c][i].message.call
<1>. DEFINE S == Chunks(Responses \cup {ErrorFrame})
<1>1. toClient[c] \in Seq(S)
  BY ConnectionTypes
<1>2. \A chunk \in S : chunk.message \in Responses \cup {ErrorFrame}
  BY DEF Chunks
<1>. HIDE DEF S
<1>3. PICK s \in Seq(S) : s = toClient[c]
  BY <1>1
<1>4. /\ Len(Tail(s)) = Len(s) - 1 /\ Len(s) \in Nat \ {0} /\ Head(s) = s[1] /\ Head(s) \in S
      /\ 1 \in DOMAIN s
      /\ \A i \in DOMAIN Tail(s) : i \in Nat \ {0} /\ i + 1 \in DOMAIN s /\ Tail(s)[i] = s[i + 1]
  BY <1>3, Popped
<1>5. \A i \in Replies(toClient'[c]) :
         /\ i \in Nat \ {0} /\ i + 1 \in Replies(toClient[c])
         /\ toClient'[c][i] = toClient[c][i + 1]
  BY <1>3, <1>4 DEF Replies, Heads
<1>6. /\ Len(toClient'[c]) =< Len(toClient[c])
      /\ Head(toClient[c]) = toClient[c][1] /\ 1 \in DOMAIN toClient[c]
      /\ Head(toClient[c]).message \in Responses \cup {ErrorFrame}
  BY <1>2, <1>3, <1>4
<1>7. {toClient'[c][i].message : i \in Replies(toClient'[c])}
      \subseteq {toClient[c][i].message : i \in Replies(toClient[c])}
  BY <1>5
<1>8. ASSUME InOrder(toClient[c])
      PROVE  /\ InOrder(toClient'[c])
             /\ 1 \in Replies(toClient[c]) =>
                   \A i \in Replies(toClient'[c]) :
                      toClient[c][1].message.call < toClient'[c][i].message.call
  <2>1. \A i, j \in Nat \ {0} : (i < j => i + 1 < j + 1) /\ 1 < j + 1
    OBVIOUS
  <2>2. ASSUME NEW i \in Replies(toClient'[c]), NEW j \in Replies(toClient'[c]), i < j
        PROVE  toClient'[c][i].message.call < toClient'[c][j].message.call
    <3>1. i + 1 < j + 1
      BY <1>5, <2>1, <2>2
    <3>2. toClient[c][i + 1].message.call < toClient[c][j + 1].message.call
      BY <1>5, <1>8, <3>1 DEF InOrder
    <3>. QED  BY <1>5, <3>2
  <2>3. ASSUME 1 \in Replies(toClient[c]), NEW j \in Replies(toClient'[c])
        PROVE  toClient[c][1].message.call < toClient'[c][j].message.call
    <3>1. 1 < j + 1
      BY <1>5, <2>1
    <3>2. toClient[c][1].message.call < toClient[c][j + 1].message.call
      BY <1>5, <1>8, <2>3, <3>1 DEF InOrder
    <3>. QED  BY <1>5, <3>2
  <2>. QED  BY <2>2, <2>3 DEF InOrder
<1>. QED  BY <1>5, <1>6, <1>7, <1>8

\* Reading the head of an answer, or what is left of one.
LEMMA ReadHeadSound ==
    ASSUME Typed, Typed', NEW c \in Connections, Sound(c), ReadHead(c)
    PROVE  Sound(c)'
<1>. USE ConnectionTypes, AnswerTypes
<1>1. /\ ClientReads /\ result'[c] = result[c] /\ Last(c)' = Last(c) /\ client[c] = "head"
      /\ incoming[c] = NoAnswer /\ Waiting(c) = 1 /\ calls' = calls /\ began' = began
      /\ published' = published
  BY DEF ReadHead, ClientReads, Last, Waiting, Sound, Counted
<1>2. \A m : Truthful(c, m)' <=> Truthful(c, m)
  BY <1>1, CallerLeaves
<1>3. \A m \in Answers(c) : /\ Last(c) < m.call /\ m.call =< calls[c] /\ Truthful(c, m)
                            /\ m.call = calls[c] => m.digest >= began[c]
  BY DEF Sound, Answered
<1>4. CASE Head(toClient[c]).part = "head"
  <2>1. /\ toClient'[c] = Tail(toClient[c]) /\ client'[c] = "body"
        /\ incoming'[c] = Head(toClient[c]).message /\ missed' = missed /\ toClient[c] # <<>>
    <3>1. /\ toClient[c] # <<>> /\ missed' = missed
          /\ toClient' = [toClient EXCEPT ![c] = Tail(toClient[c])]
          /\ client' = [client EXCEPT ![c] = "body"]
          /\ incoming' = [incoming EXCEPT ![c] = Head(toClient[c]).message]
      BY <1>4 DEF ReadHead, Receives, Goes
    <3>. QED  BY <3>1 DEF Typed
  <2>2. incoming'[c] \in Responses \cup {ErrorFrame} /\ incoming'[c] # NoAnswer
    <3>1. Head(toClient[c]).message \in Responses \cup {ErrorFrame}
      BY <2>1, Received
    <3>. QED  BY <2>1, <3>1, Distinct
  <2>3. incoming'[c] # ErrorFrame =>
           1 \in Replies(toClient[c]) /\ incoming'[c] = toClient[c][1].message
    BY <1>4, <2>1, Received DEF Replies, Heads
  <2>4. Answers(c)' \subseteq Answers(c)
    <3>1. {toClient'[c][i].message : i \in Replies(toClient'[c])}
             \subseteq {toClient[c][i].message : i \in Replies(toClient[c])}
      BY <2>1, Received
    <3>2. {incoming'[c]} \ {ErrorFrame, NoAnswer}
             \subseteq {toClient[c][i].message : i \in Replies(toClient[c])}
      BY <2>3
    <3>. QED  BY <3>1, <3>2 DEF Answers
  <2>5. Counted(c)'
    <3>1. Waiting(c)' = 1
      BY <2>1 DEF Waiting
    <3>. QED  BY <1>1, <1>2, <2>1, <2>2, <3>1 DEF Sound, Counted
  <2>6. InOrder(toClient'[c])
    BY <2>1, Received DEF Sound, Answered
  <2>7. incoming'[c] # ErrorFrame =>
           \A i \in Replies(toClient'[c]) : incoming'[c].call < toClient'[c][i].message.call
    BY <2>1, <2>3, Received DEF Sound, Answered
  <2>8. Answered(c)'
    BY <1>1, <1>2, <1>3, <2>2, <2>4, <2>6, <2>7 DEF Answered
  <2>9. Queued(c)'
    BY <1>1, <2>1, <2>4, CallerLeaves, Received DEF LaterThanAnswers
  <2>. QED  BY <1>1, <2>5, <2>8, <2>9, CallerLeaves DEF Sound
<1>5. CASE Head(toClient[c]).part = "body"
  <2>1. /\ toClient'[c] = Tail(toClient[c]) \/ toClient'[c] = toClient[c]
        /\ client'[c] = "idle" /\ incoming'[c] = NoAnswer /\ missed'[c] = missed[c] + 1
        /\ toClient[c] # <<>>
    BY <1>1, <1>5 DEF ReadHead, Receives, Goes, Misses, Typed
  <2>2. /\ Len(toClient'[c]) =< Len(toClient[c])
        /\ Answers(c)' \subseteq Answers(c)
        /\ InOrder(toClient'[c])
    <3>1. InOrder(toClient[c])
      BY DEF Sound, Answered
    <3>2. CASE toClient'[c] = toClient[c]
      BY <2>1, <3>1, <3>2 DEF Answers
    <3>3. CASE toClient'[c] = Tail(toClient[c])
      BY <2>1, <3>1, <3>3, Received DEF Answers
    <3>. QED  BY <2>1, <3>2, <3>3
  <2>3. Counted(c)'
    <3>1. Waiting(c)' = 0
      BY <2>1 DEF Waiting
    <3>. QED  BY <1>1, <1>2, <2>1, <3>1 DEF Sound, Counted
  <2>4. Answered(c)'
    BY <1>1, <1>2, <1>3, <2>1, <2>2 DEF Answered
  <2>5. Queued(c)'
    BY <1>1, <2>2, CallerLeaves DEF LaterThanAnswers
  <2>. QED  BY <1>1, <2>3, <2>4, <2>5, CallerLeaves DEF Sound
<1>. QED  BY <1>4, <1>5 DEF ReadHead

\* Its body: the answer is returned, and everything still under way is later.
LEMMA ReadBodySound ==
    ASSUME Typed, Typed', NEW c \in Connections, Sound(c), ReadBody(c)
    PROVE  Sound(c)'
<1>. USE ConnectionTypes, AnswerTypes
<1>1. /\ ClientReads /\ toClient[c] # <<>> /\ toClient'[c] = Tail(toClient[c])
      /\ client[c] = "body" /\ client'[c] = "idle" /\ incoming'[c] = NoAnswer
      /\ calls' = calls /\ began' = began /\ published' = published
      /\ Waiting(c) = 1 /\ Waiting(c)' = 0
  BY DEF ReadBody, Receives, Goes, ClientReads, Waiting, Typed
<1>2. \A m : Truthful(c, m)' <=> Truthful(c, m)
  BY <1>1, CallerLeaves
<1>3. incoming[c] \in Responses \cup {ErrorFrame}
  BY <1>1 DEF Sound, Counted
<1>4. Answers(c)' = {toClient'[c][i].message : i \in Replies(toClient'[c])}
  BY <1>1 DEF Answers
<1>5. Answers(c)' \subseteq Answers(c)
  BY <1>1, <1>4, Received DEF Answers
<1>6. \A m \in Answers(c) : /\ Last(c) < m.call /\ m.call =< calls[c] /\ Truthful(c, m)
                            /\ m.call = calls[c] => m.digest >= began[c]
  BY DEF Sound, Answered
<1>7. InOrder(toClient'[c])
  BY <1>1, Received DEF Sound, Answered
<1>8. CASE incoming[c] = ErrorFrame
  <2>1. missed'[c] = missed[c] + 1 /\ result'[c] = result[c] /\ Last(c)' = Last(c)
    BY <1>8, Distinct DEF ReadBody, Misses, Last, Typed
  <2>2. Counted(c)'
    BY <1>1, <1>2, <2>1 DEF Sound, Counted
  <2>3. Answered(c)'
    BY <1>1, <1>2, <1>5, <1>6, <1>7, <2>1 DEF Answered
  <2>4. Queued(c)'
    BY <1>1, <1>5, <2>1, CallerLeaves, Received DEF LaterThanAnswers
  <2>. QED  BY <1>1, <2>2, <2>3, <2>4, CallerLeaves DEF Sound
<1>9. CASE incoming[c] \in Responses
  <2>. DEFINE it == incoming[c]
              returned == [call |-> calls[c], began |-> began[c], missed |-> missed[c],
                           answer |-> it]
  <2>1. missed'[c] = missed[c] /\ result'[c] = returned
    BY <1>9, Distinct DEF ReadBody, Typed
  <2>2. it \in Answers(c)
    BY <1>9, Distinct DEF Answers
  <2>3. /\ result'[c] # NoAnswer /\ result'[c].call = calls[c] /\ result'[c].began = began[c]
        /\ result'[c].missed = missed[c] /\ result'[c].answer = it
    <3>1. returned \in Results
      <4>1. calls[c] \in CallNumbers
        <5>1. it.call =< calls[c] /\ it.call \in Nat \ {0}
          BY <1>6, <2>2
        <5>. QED  BY <5>1, RequestsAssumption DEF CallNumbers
      <4>. QED  BY <1>9, <4>1 DEF Results
    <3>. QED  BY <2>1, <3>1, Distinct
  <2>. HIDE DEF returned
  <2>4. Last(c)' = it.call
    BY <2>3 DEF Last
  <2>. HIDE DEF it
  <2>0. it \in Responses
    BY <1>9 DEF it
  <2>5. /\ Last(c) < it.call /\ it.call =< calls[c] /\ Truthful(c, it)
        /\ it.call = calls[c] => it.digest >= began[c]
        /\ it.call \in Nat \ {0} /\ it.digest \in Nat
    BY <1>6, <2>0, <2>2
  <2>6. Counted(c)'
    <3>1. missed[c] + 1 =< calls[c] /\ calls[c] =< missed[c] + 1 + Last(c)
      BY <1>1 DEF Sound, Counted
    <3>2. missed[c] + 0 =< calls[c] /\ calls[c] =< missed[c] + 0 + it.call
      BY <2>5, <3>1
    <3>3. began[c] =< published.version
      BY DEF Sound, Counted
    <3>4. calls[c] =< missed[c] + it.call
      BY <2>5, <3>2
    <3>. QED  BY <1>1, <1>2, <2>1, <2>3, <2>4, <2>5, <3>2, <3>3, <3>4 DEF Counted
  <2>7. Answered(c)'
    <3>1. \A i \in Replies(toClient[c]) : it.call < toClient[c][i].message.call
      BY <1>9, Distinct DEF Sound, Answered, it
    <3>2. ASSUME NEW m \in Answers(c)'  PROVE it.call < m.call
      <4>1. PICK i \in Replies(toClient'[c]) : m = toClient'[c][i].message
        BY <1>4, <3>2
      <4>2. i + 1 \in Replies(toClient[c]) /\ m = toClient[c][i + 1].message
        BY <1>1, <4>1, Received
      <4>. QED  BY <3>1, <4>2
    <3>3. \A m \in Answers(c)' : /\ it.call < m.call /\ m.call =< calls[c] /\ Truthful(c, m)'
                                 /\ m.call = calls[c] => m.digest >= began[c]
      BY <1>2, <1>5, <1>6, <3>2
    <3>. QED  BY <1>1, <1>7, <2>4, <3>3 DEF Answered
  <2>8. Queued(c)'
    <3>1. \A call \in CallNumbers : LaterThanAnswers(c, call) => Last(c)' < call
      BY <2>2, <2>4 DEF LaterThanAnswers, it
    <3>. QED  BY <1>1, <1>5, <3>1, CallerLeaves, Received
  <2>. QED  BY <1>1, <2>6, <2>7, <2>8, CallerLeaves DEF Sound
<1>. QED  BY <1>3, <1>8, <1>9

\* A call that is given up, or a client that goes away.
LEMMA GiveUpSound ==
    ASSUME Typed, Typed', NEW c \in Connections, Sound(c), GiveUp(c) \/ HangUp(c)
    PROVE  Sound(c)'
<1>. USE ConnectionTypes, AnswerTypes
<1>1. /\ ClientReads /\ toClient'[c] = toClient[c] /\ result'[c] = result[c]
      /\ calls' = calls /\ began' = began /\ published' = published
      /\ Last(c)' = Last(c) /\ Waiting(c)' = 0 /\ client'[c] \in {"idle", "gone"}
      /\ missed'[c] + Waiting(c)' = missed[c] + Waiting(c)
      /\ incoming'[c] = NoAnswer
  <2>1. CASE GiveUp(c)
    BY <2>1 DEF GiveUp, Goes, Misses, ClientReads, Last, Waiting, Typed
  <2>2. CASE HangUp(c)
    <3>1. incoming[c] = NoAnswer
      BY <2>2 DEF HangUp, Sound, Counted
    <3>. QED  BY <2>2, <3>1 DEF HangUp, Goes, ClientReads, Last, Waiting, Typed
  <2>. QED  BY <2>1, <2>2
<1>2. \A m : Truthful(c, m)' <=> Truthful(c, m)
  BY <1>1, CallerLeaves
<1>3. Answers(c)' \subseteq Answers(c) /\ Len(toClient'[c]) =< Len(toClient[c])
  BY <1>1 DEF Answers
<1>4. Counted(c)'
  BY <1>1, <1>2 DEF Sound, Counted
<1>5. Answered(c)'
  BY <1>1, <1>2, <1>3 DEF Sound, Answered
<1>6. Queued(c)'
  BY <1>1, <1>3, CallerLeaves DEF LaterThanAnswers
<1>. QED  BY <1>1, <1>4, <1>5, <1>6, CallerLeaves DEF Sound

\* A call is later than whatever is under way, and is the last thing there.
LEMMA CallSound ==
    ASSUME Typed, Typed', NEW c \in Connections, Sound(c), NEW kind \in Kinds, Call(c, kind)
    PROVE  Sound(c)'
<1>. DEFINE n == calls[c] + 1
            m == [call |-> n, kind |-> kind]
            s == toServer[c]
            sent == toServer'[c]
<1>1. /\ UNCHANGED <<published, toClient, incoming, result, server, effects>>
      /\ calls'[c] = n /\ n \in CallNumbers /\ n \in Nat /\ began'[c] = published.version
      /\ m \in RequestMessages /\ m.call = n
      /\ Waiting(c) = 0 /\ missed'[c] + Waiting(c)' = missed[c] + 1
      /\ incoming[c] = NoAnswer /\ client'[c] # "body"
  <2>1. calls'[c] = n /\ n \in CallNumbers /\ n \in Nat
    <3>1. calls'[c] = n /\ calls[c] < MaxCalls /\ calls[c] \in Nat
      BY ConnectionTypes DEF Call, Typed
    <3>. QED  BY <3>1, RequestsAssumption DEF CallNumbers
  <2>2. m \in RequestMessages
    BY <2>1 DEF RequestMessages
  <2>3. Waiting(c) = 0 /\ missed'[c] + Waiting(c)' = missed[c] + 1 /\ client'[c] # "body"
    BY DEF Call, Goes, Misses, Waiting, Typed
  <2>4. incoming[c] = NoAnswer
    BY DEF Call, Sound, Counted
  <2>. QED  BY <2>1, <2>2, <2>3, <2>4 DEF Call, Typed
<1>2. PICK t \in {<<>>, <<HeadOf(m)>>, FrameOf(m)} : sent = s \o t
  <2>1. PICK t \in {<<>>, <<HeadOf(m)>>, FrameOf(m)} : Send(c, t)
    <3>1. m = [call |-> calls'[c], kind |-> kind]
      BY <1>1
    <3>. QED  BY <3>1 DEF Call
  <2>. QED  BY <2>1 DEF Send, Typed
<1>3. HeadOf(m) \in Chunks(RequestMessages) /\ BodyOf(m) \in Chunks(RequestMessages)
  BY <1>1, ChunkTypes
<1>4. /\ HeadOf(m).part = "head" /\ BodyOf(m).part = "body" /\ HeadOf(m).message = m
      /\ BodyOf(m).message = m
  BY ChunkParts
<1>. HIDE DEF n, m
<1>5. /\ \A i \in DOMAIN sent :
            \/ i \in DOMAIN s /\ sent[i] = s[i]
            \/ i = Len(s) + 1 /\ sent[i] = HeadOf(m)
            \/ i = Len(s) + 2 /\ sent[i] = BodyOf(m) /\ sent[i - 1] = HeadOf(m)
      /\ \A i \in DOMAIN s : i \in 1 .. Len(s) /\ sent[i] = s[i]
      /\ DOMAIN s = 1 .. Len(s) /\ Len(s) \in Nat
  <2>. DEFINE S == Chunks(RequestMessages)
  <2>1. s \in Seq(S) /\ HeadOf(m) \in S /\ BodyOf(m) \in S
    BY <1>3, ConnectionTypes
  <2>. HIDE DEF S
  <2>2. PICK old \in Seq(S) : old = s
    BY <2>1
  <2>3. Extended(old, m, old \o t)
    BY <1>2, <2>1, Pushed
  <2>. QED  BY <1>2, <2>2, <2>3 DEF Extended
<1>6. /\ Waiting(c)' \in {0, 1} /\ Last(c)' = Last(c) /\ Busy(c)' = Busy(c)
      /\ Answers(c)' = Answers(c)
  BY <1>1 DEF Last, Busy, Answers, server, Waiting
<1>7. \A response : Truthful(c, response)' <=> Truthful(c, response)
  BY <1>1 DEF Truthful
<1>. DEFINE Wrapped(i) == IF i = 1
                          THEN worker[c] \in {"payload", "closed"}
                               /\ (worker[c] = "payload" => sent[1] = BodyOf(request[c]))
                          ELSE sent[i - 1] = HeadOf(sent[i].message)
<1>8. \A call \in CallNumbers : call =< calls[c] => call < n /\ call # n /\ call =< n
  BY <1>1, CallNumbersAreNatural, ConnectionTypes DEF n
<1>9. Counted(c)'
  <2>1. missed[c] =< calls[c] /\ calls[c] =< missed[c] + Last(c)
    BY <1>1, ConnectionTypes, AnswerTypes DEF Sound, Counted
  <2>2. missed[c] + 1 =< n /\ n =< missed[c] + 1 + Last(c) /\ calls[c] =< n
    BY <2>1, ConnectionTypes, AnswerTypes DEF n
  <2>3. result[c] # NoAnswer => result[c].call =< n
    <3>1. result[c] # NoAnswer => result[c].call =< calls[c] /\ result[c].call \in Nat
      BY AnswerTypes DEF Sound, Counted
    <3>. QED  BY <3>1, ConnectionTypes DEF n
  <2>4. result'[c] # NoAnswer =>
           /\ result'[c].answer.call =< result'[c].call /\ result'[c].call =< calls'[c]
           /\ result'[c].call =< result'[c].missed + result'[c].answer.call
           /\ result'[c].answer.call = result'[c].call =>
                 result'[c].answer.digest >= result'[c].began
    BY <1>1, <2>3 DEF Sound, Counted
  <2>8. result'[c] # NoAnswer => Truthful(c, result[c].answer)'
    BY <1>1, <1>7 DEF Sound, Counted
  <2>5. /\ missed'[c] + Waiting(c)' =< calls'[c]
        /\ calls'[c] =< missed'[c] + Waiting(c)' + Last(c)'
    BY <1>1, <1>6, <2>2
  <2>6. began'[c] =< published'.version
    BY <1>1, ConnectionTypes
  <2>7. client'[c] = "body" <=> incoming'[c] # NoAnswer
    BY <1>1
  <2>. QED  BY <2>4, <2>5, <2>6, <2>7, <2>8 DEF Counted
<1>10. Ordered(c)'
  <2>1. \A i \in DOMAIN s : s[i].message.call =< calls[c] /\ s[i].message.call \in CallNumbers
    BY AnswerTypes DEF Sound, Ordered
  <2>2. \A i \in DOMAIN sent : sent[i].message.call =< n
    BY SMTT(30), <1>1, <1>4, <1>5, <1>8, <2>1
  <2>3. ASSUME NEW i \in DOMAIN sent, NEW j \in DOMAIN sent, i < j, sent[j].part = "head"
        PROVE  sent[i].message.call < sent[j].message.call
    <3>1. CASE j \in DOMAIN s
      <4>1. i \in DOMAIN s
        BY <1>5, <2>3, <3>1
      <4>2. sent[i] = s[i] /\ sent[j] = s[j]
        BY <1>5, <3>1, <4>1
      <4>. QED  BY <2>3, <3>1, <4>1, <4>2 DEF Sound, Ordered
    <3>2. CASE j \notin DOMAIN s
      <4>1. j = Len(s) + 1 /\ sent[j] = HeadOf(m)
        BY <1>4, <1>5, <2>3, <3>2
      <4>2. i \in DOMAIN s /\ sent[i] = s[i]
        BY <1>5, <2>3, <4>1
      <4>. QED  BY <1>1, <1>4, <1>8, <2>1, <4>1, <4>2
    <3>. QED  BY <3>1, <3>2
  <2>4. ASSUME NEW i \in DOMAIN sent, sent[i].part = "body"
        PROVE  Wrapped(i)
    <3>1. CASE i \in DOMAIN s
      <4>1. sent[i] = s[i] /\ i \in Nat \ {0}
        BY <1>5, <3>1
      <4>2. CASE i = 1
        BY <2>4, <3>1, <4>1, <4>2 DEF Sound, Ordered
      <4>3. CASE i # 1
        <5>1. i - 1 \in DOMAIN s
          BY <1>5, <3>1, <4>3
        <5>2. s[i - 1] = HeadOf(s[i].message)
          BY <2>4, <3>1, <4>1, <4>3 DEF Sound, Ordered
        <5>. QED  BY <1>5, <4>1, <4>3, <5>1, <5>2
      <4>. QED  BY <4>2, <4>3
    <3>2. CASE i \notin DOMAIN s
      <4>1. i = Len(s) + 2 /\ sent[i] = BodyOf(m) /\ sent[i - 1] = HeadOf(m) /\ i # 1
        BY <1>4, <1>5, <2>4, <3>2
      <4>. QED  BY <1>4, <4>1
    <3>. QED  BY <3>1, <3>2
  <2>. QED  BY <1>1, <2>2, <2>3, <2>4 DEF Ordered, server
<1>11. \A response \in Answers(c) : Last(c) < response.call /\ response.call =< calls[c]
                                    /\ Truthful(c, response) /\ response.call \in CallNumbers
  BY AnswerTypes DEF Sound, Answered
<1>12. Answered(c)'
  <2>1. \A response \in Answers(c) : response.call =< n /\ response.call # n
    BY <1>1, <1>8, <1>11, CallNumbersAreNatural
  <2>2. InOrder(toClient[c])
    BY DEF Sound, Answered
  <2>. QED  BY <1>1, <1>6, <1>7, <1>11, <2>1, <2>2 DEF Answered
<1>13. \A i \in Heads(sent) : \/ i \in Heads(s) /\ sent[i] = s[i]
                              \/ sent[i].message.call = n
  BY <1>1, <1>4, <1>5 DEF Heads
<1>14. Queued(c)'
  <2>1. Len(toClient[c]) \in Nat /\ Len(toClient[c]) =< 2 * calls[c]
    BY ConnectionTypes DEF Sound, Queued
  <2>2. Len(toClient[c]) =< 2 * n /\ Len(toClient[c]) =< 2 * (n - 1)
    BY <2>1, ConnectionTypes DEF n
  <2>3. Last(c) < n
    <3>1. Last(c) =< calls[c]
      <4>1. CASE result[c] = NoAnswer
        BY <4>1, ConnectionTypes DEF Last
      <4>2. CASE result[c] # NoAnswer
        BY <4>2, AnswerTypes, ConnectionTypes DEF Sound, Counted
      <4>. QED  BY <4>1, <4>2
    <3>. QED  BY <3>1, AnswerTypes, ConnectionTypes DEF n
  <2>4. LaterThanAnswers(c, n)
    BY <1>8, <1>11, <2>2, <2>3 DEF LaterThanAnswers
  <2>5. \A call : LaterThanAnswers(c, call) => LaterThanAnswers(c, call)'
    BY <1>1, <1>6 DEF LaterThanAnswers
  <2>6. Busy(c) => request[c].call < n /\ request[c].call =< n
    <3>1. Busy(c) => request[c].call =< calls[c] /\ request[c].call \in CallNumbers
      BY AnswerTypes DEF Sound, Queued
    <3>. QED  BY <1>1, <1>8, <3>1, CallNumbersAreNatural
  <2>7. \A i \in Heads(sent) : /\ LaterThanAnswers(c, sent[i].message.call)
                               /\ Busy(c) => request[c].call < sent[i].message.call
    BY <1>13, <2>4, <2>6 DEF Sound, Queued
  <2>. QED  BY <1>1, <1>6, <2>2, <2>5, <2>6, <2>7 DEF Sound, Queued, server
<1>15. Built(c)'
  <2>1. worker[c] \in {"text", "act", "refresh", "reread", "write"} => answer[c].call # n
    <3>1. worker[c] \in {"text", "act", "refresh", "reread", "write"} =>
             /\ answer[c].call =< calls[c] /\ answer[c].call \in CallNumbers
      BY AnswerTypes DEF Sound, Built, Queued, Busy
    <3>. QED  BY <1>8, <3>1
  <2>. QED  BY <1>1, <1>7, <2>1 DEF Sound, Built, server
<1>16. Acts(c)'
  <2>1. \A k \in CallNumbers : effects[c][k].times > 0 => k < n /\ k =< n
    BY <1>1, <1>8, CallNumbersAreNatural DEF Sound, Acts
  <2>. QED  BY <1>1, <1>6, <1>13, <2>1 DEF Sound, Acts, server
<1>. QED  BY <1>9, <1>10, <1>12, <1>14, <1>15, <1>16 DEF Sound

\* A step of the worker that moves nothing over the connection and changes nothing.
LEMMA MoveSound ==
    ASSUME Typed, Typed', NEW c \in Connections, Sound(c),
           UNCHANGED <<published, effects, channels, caller>>,
           worker[c] # "closed", worker[c] = "payload" => toServer[c] = <<>>,
           worker'[c] # "payload", Busy(c)' => Busy(c) /\ request'[c] = request[c],
           worker'[c] \in {"state", "text", "act"} => worker[c] \in {"state", "text", "act"},
           Built(c)'
    PROVE  Sound(c)'
<1>1. /\ Waiting(c)' = Waiting(c) /\ Last(c)' = Last(c) /\ Answers(c)' = Answers(c)
      /\ toServer' = toServer /\ toClient' = toClient /\ calls' = calls /\ began' = began
      /\ incoming' = incoming /\ result' = result /\ missed' = missed /\ client' = client
  BY DEF Waiting, Last, Answers, channels, caller
<1>2. \A m : Truthful(c, m)' <=> Truthful(c, m)
  BY DEF Truthful
<1>3. Counted(c)'
  BY <1>1, <1>2 DEF Sound, Counted
<1>4. Ordered(c)'
  <2>1. \A i \in DOMAIN toServer[c] : toServer[c][i].part = "body" => i # 1
    BY DEF Sound, Ordered
  <2>. QED  BY <1>1, <2>1 DEF Sound, Ordered
<1>5. Answered(c)'
  BY <1>1, <1>2 DEF Sound, Answered
<1>6. \A call : LaterThanAnswers(c, call)' <=> LaterThanAnswers(c, call)
  BY <1>1 DEF LaterThanAnswers
<1>7. Queued(c)'
  BY <1>1, <1>6 DEF Sound, Queued
<1>8. Acts(c)'
  <2>1. worker'[c] \in {"payload", "state", "text", "act"} => Busy(c)'
    BY DEF Busy
  <2>. QED  BY <1>1, <2>1 DEF Sound, Acts
<1>. QED  BY <1>3, <1>4, <1>5, <1>7, <1>8 DEF Sound

\* A step in which the call changes the pod: nothing answered yet is about it.
LEMMA ActSound ==
    ASSUME Typed, Typed', NEW c \in Connections, Sound(c), NEW state, Changes(c, state),
           state.version \in Nat, published.version =< state.version,
           UNCHANGED <<request, channels, caller>>,
           worker[c] = "act", worker'[c] \in {"reread", "refresh"},
           Built(c)'
    PROVE  Sound(c)'
<1>. DEFINE n == request[c].call
<1>1. /\ Waiting(c)' = Waiting(c) /\ Last(c)' = Last(c) /\ Answers(c)' = Answers(c)
      /\ toServer' = toServer /\ toClient' = toClient /\ calls' = calls /\ began' = began
      /\ incoming' = incoming /\ result' = result /\ missed' = missed /\ client' = client
      /\ request' = request /\ Busy(c) /\ Busy(c)'
  BY DEF Waiting, Last, Answers, channels, caller, Busy
<1>2. request[c] \in RequestMessages /\ n =< calls[c] /\ LaterThanAnswers(c, n)
  BY <1>1 DEF Sound, Queued
<1>3. n \in CallNumbers /\ n \in Nat
  BY <1>2, CallNumbersAreNatural DEF RequestMessages
<1>4. effects[c] \in [CallNumbers -> Effects]
  BY DEF Typed
<1>5. /\ published' = state
      /\ \A k \in CallNumbers : k # n => effects'[c][k] = effects[c][k]
      /\ effects'[c][n].times = effects[c][n].times + 1 /\ effects'[c][n].version = state.version
  BY <1>3, <1>4 DEF Changes, Typed
<1>6. effects[c][n].times = 0
  <2>1. effects[c][n].times \in Nat
    BY <1>3, ConnectionTypes
  <2>. QED  BY <1>3, <2>1 DEF Sound, Acts
<1>. HIDE DEF n
<1>7. \A m \in Responses : m.call # n => (Truthful(c, m)' <=> Truthful(c, m))
  BY <1>5, AnswerTypes DEF Truthful
<1>8. Last(c) # n /\ \A m \in Answers(c) : m.call # n /\ m \in Responses
  BY <1>2, <1>3, AnswerTypes DEF LaterThanAnswers
<1>9. began[c] =< state.version
  BY ConnectionTypes DEF Sound, Counted
<1>10. Counted(c)'
  <2>1. result[c] # NoAnswer => Truthful(c, result[c].answer)'
    BY <1>1, <1>7, <1>8, AnswerTypes DEF Sound, Counted
  <2>. QED  BY <1>1, <1>5, <1>9, <2>1 DEF Sound, Counted
<1>11. Ordered(c)'
  <2>1. \A i \in DOMAIN toServer[c] : toServer[c][i].part = "body" => i # 1
    BY DEF Sound, Ordered
  <2>. QED  BY <1>1, <2>1 DEF Sound, Ordered
<1>12. Answered(c)'
  BY <1>1, <1>7, <1>8 DEF Sound, Answered
<1>13. \A call : LaterThanAnswers(c, call)' <=> LaterThanAnswers(c, call)
  BY <1>1 DEF LaterThanAnswers
<1>14. Queued(c)'
  BY <1>1, <1>13 DEF Sound, Queued
<1>15. Acts(c)'
  <2>1. ASSUME NEW k \in CallNumbers
        PROVE  /\ effects'[c][k].times =< 1 /\ effects'[c][k].version =< published'.version
               /\ effects'[c][k].times = 0 => effects'[c][k].version = 0
    BY <1>5, <1>6, ConnectionTypes DEF Sound, Acts
  <2>2. \A i \in Heads(toServer[c]) : n < toServer[c][i].message.call
    BY <1>1 DEF Sound, Queued, n
  <2>3. ASSUME NEW k \in CallNumbers, effects'[c][k].times > 0
        PROVE  /\ k =< calls[c] /\ k =< n
               /\ \A i \in Heads(toServer[c]) : k < toServer[c][i].message.call
    <3>1. CASE k = n
      BY <1>2, <1>3, <2>2, <3>1
    <3>2. CASE k # n
      BY <1>1, <1>5, <2>3, <3>2 DEF Sound, Acts, n
    <3>. QED  BY <3>1, <3>2
  <2>. QED  BY <1>1, <2>1, <2>3 DEF Acts, n
<1>. QED  BY <1>10, <1>11, <1>12, <1>14, <1>15 DEF Sound

\* The steps that build the answer to a request the controller does not hear of.
LEMMA BuildingSound ==
    ASSUME Typed, Typed', NEW c \in Connections, Sound(c),
           Serve(c) \/ ReadTimeout(c) \/ ReadState(c) \/ ReadText(c) \/ Refresh(c) \/ RereadText(c)
    PROVE  Sound(c)'
<1>. USE ConnectionTypes
<1>1. /\ UNCHANGED <<published, effects, channels, caller>> /\ worker[c] # "closed"
      /\ worker[c] = "payload" => toServer[c] = <<>>
      /\ worker'[c] # "payload" /\ (Busy(c)' => Busy(c) /\ request'[c] = request[c])
      /\ worker'[c] \in {"state", "text", "act"} => worker[c] \in {"state", "text", "act"}
      /\ calls' = calls /\ began' = began /\ request' = request
  <2>1. CASE Serve(c) \/ ReadTimeout(c)
    BY SMTT(30), <2>1 DEF Serve, ReadTimeout, ServerReads, Moves, Busy, caller, Typed
  <2>2. CASE ReadState(c) \/ ReadText(c)
    BY <2>2 DEF ReadState, ReadText, Building, Moves, Busy, caller, Typed
  <2>3. CASE Refresh(c) \/ RereadText(c)
    BY <2>3 DEF Refresh, RereadText, Building, Moves, Busy, caller, Typed
  <2>. QED  BY <2>1, <2>2, <2>3
<1>2. Busy(c) => request[c] \in RequestMessages
  BY DEF Sound, Queued
<1>3. \A m : Truthful(c, m)' <=> Truthful(c, m)
  BY <1>1 DEF Truthful
<1>4. worker[c] \in {"text", "act", "refresh", "reread", "write"} =>
         /\ answer[c] \in Responses /\ answer[c].call = request[c].call
         /\ answer[c].kind = request[c].kind /\ answer[c].digest =< published.version
         /\ answer[c].call = calls[c] => answer[c].digest >= began[c]
  BY DEF Sound, Built
<1>5. Built(c)'
  <2>1. CASE Serve(c) \/ ReadTimeout(c)
    BY <2>1 DEF Serve, ReadTimeout, Moves, Built, Typed
  <2>2. CASE ReadState(c)
    <3>. DEFINE it == [call |-> request[c].call, kind |-> request[c].kind, ok |-> TRUE,
                       digest |-> published.version, retired |-> published.retired, text |-> 0]
    <3>1. worker'[c] = "text" /\ answer'[c] = it /\ worker[c] = "state"
      BY <2>2 DEF ReadState, Moves, Typed
    <3>2. it \in Responses
      BY <1>2, <3>1 DEF Busy, RequestMessages, Responses
    <3>3. began[c] =< published.version
      BY DEF Sound, Counted
    <3>4. /\ it.call = request[c].call /\ it.kind = request[c].kind /\ it.ok
          /\ it.digest = published.version
      OBVIOUS
    <3>. HIDE DEF it
    <3>. QED  BY <1>1, <3>1, <3>2, <3>3, <3>4 DEF Built
  <2>3. CASE ReadText(c) \/ RereadText(c)
    <3>1. /\ answer[c] \in Responses
          /\ answer'[c] = [answer[c] EXCEPT !.text = published.version]
      BY <1>4, <2>3 DEF ReadText, RereadText, Typed
    <3>2. answer'[c] \in [call : {answer[c].call}, kind : {answer[c].kind}, ok : {answer[c].ok},
                          digest : {answer[c].digest}, retired : {answer[c].retired},
                          text : {published.version}]
      BY <3>1 DEF Responses
    <3>3. /\ answer'[c].call = answer[c].call /\ answer'[c].kind = answer[c].kind
          /\ answer'[c].ok = answer[c].ok /\ answer'[c].digest = answer[c].digest
          /\ answer'[c].retired = answer[c].retired /\ answer'[c].text = published.version
      BY <3>2
    <3>4. answer'[c] \in Responses
      BY <3>1, <3>3 DEF Responses
    <3>5. answer[c].digest =< answer'[c].text /\ answer[c].digest \in Nat
      BY <1>4, <2>3, <3>1, <3>3 DEF ReadText, RereadText, Responses
    <3>6. CASE ReadText(c)
      <4>1. worker[c] = "text" /\ answer[c].ok
        BY <3>6 DEF ReadText, Sound, Built
      <4>2. CASE request[c].kind \in {"status", "shutdown"}
        <5>1. worker'[c] = "write"
          BY <3>6, <4>2 DEF ReadText, Moves, Typed
        <5>2. answer[c].call \in CallNumbers
          BY <3>1 DEF Responses
        <5>3. effects[c][answer[c].call].version = 0
          BY <1>4, <4>1, <5>2, ConnectionTypes DEF Sound, Acts
        <5>4. answer[c].kind \in {"status", "shutdown"}
          BY <1>4, <4>1, <4>2
        <5>5. Truthful(c, answer[c])'
          BY <1>1, <3>3, <3>5, <4>1, <5>3, <5>4 DEF Truthful
        <5>. QED  BY <1>1, <1>4, <3>3, <3>4, <4>1, <5>1, <5>5 DEF Built
      <4>3. CASE request[c].kind \notin {"status", "shutdown"}
        <5>1. request[c].kind \in {"apply", "admin", "retire"}
          BY <1>2, <4>1, <4>3 DEF Busy, RequestMessages, Kinds
        <5>. QED  BY <1>1, <1>4, <3>3, <3>4, <3>5, <3>6, <4>1, <4>3, <5>1
                  DEF ReadText, Moves, Built, Typed
      <4>. QED  BY <4>2, <4>3
    <3>7. CASE RereadText(c)
      <4>1. /\ worker[c] = "reread" /\ answer[c].ok /\ answer[c].kind \in {"apply", "admin"}
            /\ answer[c].digest >= effects[c][answer[c].call].version
            /\ effects[c][answer[c].call].times = 1
            /\ worker'[c] = "write"
        BY <3>7 DEF RereadText, Sound, Built, Moves, Typed
      <4>2. Truthful(c, answer[c])' <=> TRUE
        BY <1>1, <3>3, <3>5, <4>1 DEF Truthful
      <4>. QED  BY <1>1, <1>4, <3>3, <3>4, <4>1, <4>2 DEF Built
    <3>. QED  BY <2>3, <3>6, <3>7
  <2>4. CASE Refresh(c)
    <3>1. /\ worker[c] = "refresh" /\ answer[c].kind \in {"admin", "retire"}
          /\ answer[c].kind = "admin" => answer[c].ok
          /\ answer[c].kind = "retire" =>
                /\ answer[c].text >= answer[c].digest
                /\ answer[c].ok \/ effects[c][answer[c].call].times > 0 => published.retired
          /\ answer[c].ok => effects[c][answer[c].call].times = 1
      BY <2>4 DEF Refresh, Sound, Built
    <3>2. answer[c] \in Responses /\ answer[c].call \in CallNumbers
      BY <1>4, <3>1 DEF Responses
    <3>3. effects[c][answer[c].call].version =< published.version
      BY <3>2 DEF Sound, Acts
    <3>4. CASE request[c].kind = "admin"
      <4>1. /\ worker'[c] = "reread"
            /\ answer'[c] = [answer[c] EXCEPT !.digest = published.version,
                                              !.retired = published.retired]
        BY <2>4, <3>4 DEF Refresh, Moves, Typed
      <4>2. answer'[c] \in [call : {answer[c].call}, kind : {answer[c].kind}, ok : {answer[c].ok},
                            digest : {published.version}, retired : {published.retired},
                            text : {answer[c].text}]
        BY <3>2, <4>1 DEF Responses
      <4>3. /\ answer'[c].call = answer[c].call /\ answer'[c].kind = answer[c].kind
            /\ answer'[c].ok = answer[c].ok /\ answer'[c].digest = published.version
            /\ answer'[c].retired = published.retired /\ answer'[c].text = answer[c].text
        BY <4>2
      <4>4. answer'[c] \in Responses
        BY <3>2, <4>2 DEF Responses
      <4>5. began[c] =< published.version
        BY DEF Sound, Counted
      <4>. QED  BY <1>1, <1>4, <3>1, <3>3, <3>4, <4>1, <4>3, <4>4, <4>5 DEF Built
    <3>5. CASE request[c].kind # "admin"
      <4>1. worker'[c] = "write" /\ answer'[c] = [answer[c] EXCEPT !.retired = published.retired]
        BY <2>4, <3>5 DEF Refresh, Moves, Typed
      <4>2. answer'[c] \in [call : {answer[c].call}, kind : {answer[c].kind}, ok : {answer[c].ok},
                            digest : {answer[c].digest}, retired : {published.retired},
                            text : {answer[c].text}]
        BY <3>2, <4>1 DEF Responses
      <4>3. /\ answer'[c].call = answer[c].call /\ answer'[c].kind = answer[c].kind
            /\ answer'[c].ok = answer[c].ok /\ answer'[c].digest = answer[c].digest
            /\ answer'[c].retired = published.retired /\ answer'[c].text = answer[c].text
        BY <4>2
      <4>4. answer'[c] \in Responses
        BY <3>2, <4>2 DEF Responses
      <4>5. answer[c].kind = "retire"
        BY <1>4, <3>1, <3>5
      <4>6. Truthful(c, answer[c])'
        BY <1>1, <3>1, <4>3, <4>5 DEF Truthful
      <4>. QED  BY <1>1, <1>4, <3>1, <4>1, <4>3, <4>4, <4>6 DEF Built
    <3>. QED  BY <3>4, <3>5
  <2>. QED  BY <2>1, <2>2, <2>3, <2>4
<1>. QED  BY <1>1, <1>5, MoveSound

\* The steps in which the controller is called.
LEMMA ActingSound ==
    ASSUME Typed, Typed', NEW c \in Connections, Sound(c), Apply(c) \/ SetAdmin(c) \/ Retire(c)
    PROVE  Sound(c)'
<1>. DEFINE it == answer[c]
            n == request[c].call
            retired == [published EXCEPT !.retired = TRUE]
<1>1. /\ UNCHANGED <<channels, caller, request>> /\ worker[c] = "act" /\ Busy(c)
      /\ calls' = calls /\ began' = began /\ request' = request
  BY DEF Apply, SetAdmin, Retire, Building, Busy, caller
<1>2. /\ it \in Responses /\ it.call = n /\ it.kind = request[c].kind
      /\ it.digest =< published.version /\ (n = calls[c] => it.digest >= began[c])
      /\ it.ok /\ it.text >= it.digest
  BY <1>1 DEF Sound, Built
<1>3. /\ request[c] \in RequestMessages /\ n \in CallNumbers /\ it.digest \in Nat
      /\ it.retired \in BOOLEAN /\ it.text \in Nat /\ it.kind \in Kinds
  BY <1>1, <1>2 DEF Sound, Queued, RequestMessages, Responses
<1>4. effects[c][n].times = 0 /\ effects[c][n].version = 0
  BY <1>1, <1>3, ConnectionTypes DEF Sound, Acts
<1>5. published.version \in Nat /\ began[c] =< published.version
  BY ConnectionTypes DEF Sound, Counted
<1>6. /\ Newer.version \in Nat /\ Newer.version = published.version + 1
      /\ retired.version = published.version /\ retired.retired = TRUE
  BY PublishedTypes
<1>. HIDE DEF retired
\* What the answer may become.
<1>7. ASSUME NEW ok \in BOOLEAN, NEW digest \in Nat, NEW hidden \in BOOLEAN,
             answer'[c] \in [call : {it.call}, kind : {it.kind}, ok : {ok}, digest : {digest},
                              retired : {hidden}, text : {it.text}]
      PROVE  /\ answer'[c] \in Responses /\ answer'[c].call = n
             /\ answer'[c].kind = request[c].kind /\ answer'[c].ok = ok
             /\ answer'[c].digest = digest /\ answer'[c].text = it.text
  <2>1. answer'[c] \in Responses
    BY <1>2, <1>3, <1>7 DEF Responses
  <2>. QED  BY <1>2, <1>7, <2>1
<1>8. ASSUME NEW state, Changes(c, state)
      PROVE  effects'[c][n].times = 1 /\ effects'[c][n].version = state.version
             /\ published' = state
  <2>1. effects[c] \in [CallNumbers -> Effects]
    BY DEF Typed
  <2>. QED  BY <1>3, <1>4, <1>8, <2>1 DEF Changes, Typed
<1>9. ASSUME NEW place \in {"write", "refresh"}, Refused(c, place)
      PROVE  /\ answer'[c] \in Responses /\ answer'[c].call = n
             /\ answer'[c].kind = request[c].kind /\ ~answer'[c].ok
             /\ answer'[c].digest = it.digest /\ answer'[c].text = it.text
             /\ published' = published /\ effects' = effects /\ worker'[c] = place
  <2>1. answer'[c] = [it EXCEPT !.ok = FALSE] /\ published' = published /\ effects' = effects
        /\ worker'[c] = place
    BY <1>9 DEF Refused, Moves, Typed
  <2>2. answer'[c] \in [call : {n}, kind : {it.kind}, ok : {FALSE}, digest : {it.digest},
                        retired : {it.retired}, text : {it.text}]
    BY <1>2, <2>1 DEF Responses
  <2>3. answer'[c] \in Responses
    BY <1>3, <2>2 DEF Responses
  <2>. QED  BY <1>2, <2>1, <2>2, <2>3
<1>10. ASSUME NEW place \in {"write", "refresh"}, Refused(c, place),
              place = "write" => request[c].kind \in {"apply", "admin"},
              place = "refresh" => request[c].kind = "retire"
       PROVE  Sound(c)'
  <2>1. place = "write" => Truthful(c, answer[c])'
    BY <1>2, <1>3, <1>4, <1>9, <1>10 DEF Truthful
  <2>2. Built(c)'
    <3>1. CASE place = "write"
      BY <1>1, <1>2, <1>9, <1>10, <2>1, <3>1 DEF Built
    <3>2. CASE place = "refresh"
      <4>1. ~(effects'[c][n].times > 0)
        BY <1>4, <1>9, <1>10
      <4>. QED  BY <1>1, <1>2, <1>9, <1>10, <3>2, <4>1 DEF Built
    <3>. QED  BY <3>1, <3>2
  <2>3. UNCHANGED <<published, effects, channels, caller>> /\ worker'[c] \in {"write", "refresh"}
    BY <1>1, <1>9, <1>10
  <2>. QED  BY <1>1, <2>2, <2>3, MoveSound
<1>11. CASE Apply(c)
  <2>1. request[c].kind = "apply"
    BY <1>11 DEF Apply
  <2>2. CASE Changes(c, Newer) /\ worker' = [worker EXCEPT ![c] = "reread"]
             /\ answer' = [answer EXCEPT ![c].digest = Newer.version,
                                         ![c].retired = published.retired]
    <3>1. answer'[c] \in [call : {it.call}, kind : {it.kind}, ok : {TRUE},
                          digest : {Newer.version}, retired : {published.retired},
                          text : {it.text}]
      <4>1. answer'[c] = [it EXCEPT !.digest = Newer.version, !.retired = published.retired]
        BY <2>2 DEF Typed
      <4>. QED  BY <1>2, <4>1 DEF Responses
    <3>2. /\ answer'[c] \in Responses /\ answer'[c].call = n /\ answer'[c].kind = "apply"
          /\ answer'[c].ok /\ answer'[c].digest = Newer.version
      <4>1. published.retired \in BOOLEAN
        BY PublishedTypes
      <4>. QED  BY <1>6, <1>7, <2>1, <3>1, <4>1
    <3>3. worker'[c] = "reread"
      BY <2>2 DEF Typed
    <3>4. Built(c)'
      <4>1. /\ published' = Newer /\ effects'[c][n].version = Newer.version
            /\ effects'[c][n].times = 1
        BY <1>8, <2>2
      <4>2. began[c] =< Newer.version
        BY <1>5, <1>6, ConnectionTypes
      <4>. QED  BY <1>1, <1>6, <2>1, <3>2, <3>3, <4>1, <4>2 DEF Built
    <3>. QED  BY <1>1, <1>5, <1>6, <2>2, <3>3, <3>4, ActSound
  <2>3. CASE Refused(c, "write")
    BY <1>10, <2>1, <2>3
  <2>. QED  BY <1>11, <2>2, <2>3 DEF Apply, Moves
<1>12. CASE SetAdmin(c)
  <2>1. request[c].kind = "admin"
    BY <1>12 DEF SetAdmin
  <2>2. CASE Changes(c, Newer) /\ worker' = [worker EXCEPT ![c] = "refresh"] /\ UNCHANGED answer
    <3>1. worker'[c] = "refresh" /\ answer'[c] = it
      BY <2>2 DEF Typed
    <3>2. Built(c)'
      BY <1>1, <1>2, <1>3, <1>5, <1>6, <1>8, <2>1, <2>2, <3>1 DEF Built
    <3>. QED  BY <1>1, <1>5, <1>6, <2>2, <3>1, <3>2, ActSound
  <2>3. CASE Refused(c, "write")
    BY <1>10, <2>1, <2>3
  <2>. QED  BY <1>12, <2>2, <2>3 DEF SetAdmin, Moves
<1>13. CASE Retire(c)
  <2>1. request[c].kind = "retire"
    BY <1>13 DEF Retire
  <2>2. CASE Refused(c, "refresh")
    BY <1>10, <2>1, <2>2
  <2>3. ASSUME Changes(c, retired), worker' = [worker EXCEPT ![c] = "refresh"],
               NEW stored \in BOOLEAN, answer' = [answer EXCEPT ![c].ok = stored]
        PROVE  Sound(c)'
    <3>1. answer'[c] \in [call : {it.call}, kind : {it.kind}, ok : {stored},
                          digest : {it.digest}, retired : {it.retired}, text : {it.text}]
      <4>1. answer'[c] = [it EXCEPT !.ok = stored]
        BY <2>3 DEF Typed
      <4>. QED  BY <1>2, <4>1 DEF Responses
    <3>2. /\ answer'[c] \in Responses /\ answer'[c].call = n /\ answer'[c].kind = "retire"
          /\ answer'[c].digest = it.digest /\ answer'[c].text = it.text
      BY <1>3, <1>7, <2>1, <3>1
    <3>3. worker'[c] = "refresh"
      BY <2>3 DEF Typed
    <3>4. Built(c)'
      BY <1>1, <1>2, <1>6, <1>8, <2>1, <2>3, <3>2, <3>3 DEF Built
    <3>. QED  BY <1>1, <1>5, <1>6, <2>3, <3>3, <3>4, ActSound
  <2>. QED  BY <1>13, <2>2, <2>3 DEF Retire, Moves, retired
<1>. QED  BY <1>11, <1>12, <1>13

\* What is left of the requests when the worker has read one more chunk.
LEMMA Shifted ==
    ASSUME Typed, NEW c \in Connections, Ordered(c), toServer[c] # <<>>,
           toServer'[c] = Tail(toServer[c])
    PROVE  LET sent == toServer[c]
               left == toServer'[c]
           IN  /\ Head(sent) = sent[1] /\ 1 \in DOMAIN sent
               /\ \A i \in DOMAIN left : /\ i \in Nat \ {0} /\ i + 1 \in DOMAIN sent
                                         /\ left[i] = sent[i + 1] /\ left[i].message.call =< calls[c]
               /\ \A i \in Heads(left) : i + 1 \in Heads(sent)
                                         /\ sent[1].message.call < left[i].message.call
               /\ \A i, j \in DOMAIN left :
                     i < j /\ left[j].part = "head" => left[i].message.call < left[j].message.call
               /\ \A i \in DOMAIN left : left[i].part = "body" =>
                     IF i = 1 THEN sent[1] = HeadOf(left[1].message) /\ left[1] = BodyOf(left[1].message)
                     ELSE left[i - 1] = HeadOf(left[i].message)
<1>. DEFINE sent == toServer[c]
            left == toServer'[c]
            S == Chunks(RequestMessages)
<1>1. sent \in Seq(S) /\ sent # <<>> /\ left = Tail(sent)
  BY ConnectionTypes
<1>2. \A chunk \in S : chunk.part = "body" => chunk = BodyOf(chunk.message)
  BY DEF Chunks, BodyOf
<1>. HIDE DEF S
<1>3. PICK s \in Seq(S) : s = sent
  BY <1>1
<1>4. /\ Head(s) = s[1] /\ 1 \in DOMAIN s
      /\ \A i \in DOMAIN Tail(s) : i \in Nat \ {0} /\ i + 1 \in DOMAIN s /\ Tail(s)[i] = s[i + 1]
      /\ \A i \in DOMAIN s : s[i] \in S /\ i \in Nat \ {0}
  BY <1>1, <1>3, Popped
<1>5. /\ Head(sent) = sent[1] /\ 1 \in DOMAIN sent
      /\ \A i \in DOMAIN left : /\ i \in Nat \ {0} /\ i + 1 \in DOMAIN sent
                                /\ left[i] = sent[i + 1] /\ left[i] \in S
  BY <1>1, <1>3, <1>4
<1>6. \A i, j \in Nat \ {0} : (i < j => i + 1 < j + 1) /\ 1 < j + 1
  OBVIOUS
<1>7. \A i, j \in DOMAIN sent :
         i < j /\ sent[j].part = "head" => sent[i].message.call < sent[j].message.call
  BY DEF Ordered
<1>8. \A i \in DOMAIN left : left[i].message.call =< calls[c]
  BY <1>5 DEF Ordered
<1>9. ASSUME NEW i \in Heads(left)
      PROVE  i + 1 \in Heads(sent) /\ sent[1].message.call < left[i].message.call
  BY <1>5, <1>6, <1>7, <1>9 DEF Heads
<1>10. ASSUME NEW i \in DOMAIN left, NEW j \in DOMAIN left, i < j, left[j].part = "head"
       PROVE  left[i].message.call < left[j].message.call
  <2>1. i + 1 < j + 1
    BY <1>5, <1>6, <1>10
  <2>2. sent[i + 1].message.call < sent[j + 1].message.call
    BY <1>5, <1>7, <1>10, <2>1
  <2>. QED  BY <1>5, <2>2
<1>11. ASSUME NEW i \in DOMAIN left, left[i].part = "body"
       PROVE  IF i = 1 THEN sent[1] = HeadOf(left[1].message) /\ left[1] = BodyOf(left[1].message)
              ELSE left[i - 1] = HeadOf(left[i].message)
  <2>1. i + 1 # 1 /\ (i + 1) - 1 = i /\ i \in Nat \ {0} /\ i + 1 \in DOMAIN sent
    BY <1>5
  <2>2. sent[i] = HeadOf(sent[i + 1].message)
    BY <1>5, <1>11, <2>1 DEF Ordered
  <2>3. CASE i = 1
    BY <1>2, <1>5, <1>11, <2>2, <2>3
  <2>4. CASE i # 1
    <3>1. i - 1 \in DOMAIN left /\ (i - 1) + 1 = i
      <4>1. i \in 1 .. Len(Tail(s)) /\ Len(Tail(s)) \in Nat
        BY <1>1, <1>3, <1>11, Popped
      <4>. QED  BY <1>1, <1>3, <2>4, <4>1, Popped
    <3>2. left[i - 1] = sent[i]
      BY <1>5, <3>1
    <3>. QED  BY <1>5, <2>2, <2>4, <3>2
  <2>. QED  BY <2>3, <2>4
<1>. QED  BY <1>5, <1>8, <1>9, <1>10, <1>11

\* The worker reads the head of a request: it is later than all that was answered.
LEMMA ReadRequestHeadSound ==
    ASSUME Typed, Typed', NEW c \in Connections, Sound(c), ReadRequestHead(c)
    PROVE  Sound(c)'
<1>. DEFINE sent == toServer[c]
            left == toServer'[c]
            first == sent[1].message
<1>1. /\ UNCHANGED <<published, effects, caller, toClient>>
      /\ sent # <<>> /\ left = Tail(sent) /\ request'[c] = Head(sent).message
      /\ worker[c] = "head" /\ worker'[c] = "payload"
  BY DEF ReadRequestHead, ServerReads, Moves, Typed
<1>2. /\ Waiting(c)' = Waiting(c) /\ Last(c)' = Last(c) /\ Answers(c)' = Answers(c) /\ Busy(c)'
      /\ toClient' = toClient /\ calls' = calls /\ began' = began
      /\ incoming' = incoming /\ result' = result /\ missed' = missed /\ client' = client
  BY <1>1 DEF Waiting, Last, Answers, caller, Busy
<1>3. \A m : Truthful(c, m)' <=> Truthful(c, m)
  BY <1>1 DEF Truthful
<1>4. /\ request'[c] = first /\ 1 \in Heads(sent)
      /\ \A i \in Heads(left) : i + 1 \in Heads(sent) /\ first.call < left[i].message.call
                                /\ left[i] = sent[i + 1]
      /\ \A i \in DOMAIN left : left[i].message.call =< calls[c]
      /\ \A i, j \in DOMAIN left :
            i < j /\ left[j].part = "head" => left[i].message.call < left[j].message.call
      /\ \A i \in DOMAIN left : left[i].part = "body" =>
            IF i = 1 THEN sent[1] = HeadOf(left[1].message) /\ left[1] = BodyOf(left[1].message)
            ELSE left[i - 1] = HeadOf(left[i].message)
  <2>1. Ordered(c)
    BY DEF Sound
  <2>2. 1 \in DOMAIN sent /\ Head(sent) = sent[1]
    BY <1>1, <2>1, Shifted
  <2>3. sent[1].part = "head"
    <3>1. sent[1].part # "body"
      BY <1>1, <2>1, <2>2 DEF Ordered
    <3>. QED  BY <2>2, <3>1, AnswerTypes DEF Chunks
  <2>. QED  BY <1>1, <2>1, <2>2, <2>3, Shifted DEF Heads
<1>5. /\ first \in RequestMessages /\ first.call \in CallNumbers
      /\ first.call =< calls[c] /\ LaterThanAnswers(c, first.call)
  <2>1. 1 \in DOMAIN sent
    BY <1>4 DEF Heads
  <2>. QED  BY <1>4, <2>1, AnswerTypes DEF Sound, Ordered, Queued
<1>. HIDE DEF sent, left
<1>6. Counted(c)'
  BY <1>1, <1>2, <1>3 DEF Sound, Counted
<1>7. Ordered(c)'
  <2>1. 1 \in DOMAIN left /\ left[1].part = "body" => left[1] = BodyOf(request'[c])
    BY <1>4, ChunkParts
  <2>. QED  BY <1>1, <1>2, <1>4, <2>1 DEF Ordered, left
<1>8. Answered(c)'
  BY <1>2, <1>3 DEF Sound, Answered
<1>9. \A call : LaterThanAnswers(c, call)' <=> LaterThanAnswers(c, call)
  BY <1>2 DEF LaterThanAnswers
<1>10. Queued(c)'
  BY <1>2, <1>4, <1>5, <1>9 DEF Sound, Queued, sent, left
<1>11. Built(c)'
  BY <1>1 DEF Built
<1>12. Acts(c)'
  <2>1. ASSUME NEW n \in CallNumbers, effects[c][n].times > 0
        PROVE  /\ n < first.call
               /\ \A i \in Heads(left) : n < left[i].message.call
    BY <1>4, <2>1 DEF Sound, Acts, sent
  <2>2. \A n \in CallNumbers : n < first.call => n =< first.call /\ n # first.call
    BY <1>5, CallNumbersAreNatural
  <2>. QED  BY <1>1, <1>2, <1>4, <2>1, <2>2 DEF Sound, Acts, left
<1>. QED  BY <1>6, <1>7, <1>8, <1>10, <1>11, <1>12 DEF Sound

\* What a frame sent to the client adds to the replies under way.
LEMMA Replied ==
    ASSUME Typed, NEW c \in Connections, NEW m \in Responses \cup {ErrorFrame},
           NEW t \in {<<>>, <<HeadOf(m)>>, FrameOf(m)}, toClient'[c] = toClient[c] \o t,
           InOrder(toClient[c]),
           m # ErrorFrame => \A i \in Replies(toClient[c]) : toClient[c][i].message.call < m.call
    PROVE  /\ Len(toClient'[c]) \in Nat /\ Len(toClient'[c]) =< Len(toClient[c]) + 2
           /\ \A i \in Replies(toClient'[c]) :
                 \/ i \in Replies(toClient[c]) /\ toClient'[c][i] = toClient[c][i]
                 \/ m # ErrorFrame /\ toClient'[c][i].message = m
           /\ InOrder(toClient'[c])
<1>. DEFINE S == Chunks(Responses \cup {ErrorFrame})
            s == toClient[c]
            longer == toClient'[c]
<1>1. HeadOf(m) \in S /\ BodyOf(m) \in S
  BY ChunkTypes
<1>2. s \in Seq(S)
  BY ConnectionTypes
<1>. HIDE DEF S
<1>3. PICK old \in Seq(S) : old = s
  BY <1>2
<1>4. old \o t \in Seq(S) /\ Len(old \o t) =< Len(old) + 2 /\ Extended(old, m, old \o t)
  BY <1>1, Pushed
<1>5. longer \in Seq(S) /\ Len(longer) =< Len(s) + 2 /\ Extended(s, m, longer)
  BY <1>3, <1>4
<1>6. Len(longer) \in Nat
  BY <1>5
<1>. HIDE DEF s, longer
<1>7. \A i \in Replies(longer) :
         \/ i \in Replies(s) /\ longer[i] = s[i] /\ i \in 1 .. Len(s)
         \/ m # ErrorFrame /\ longer[i].message = m /\ i = Len(s) + 1
  BY <1>5, ChunkParts DEF Extended, Replies, Heads
<1>8. InOrder(longer)
  <2>1. SUFFICES ASSUME NEW i \in Replies(longer), NEW j \in Replies(longer), i < j
                 PROVE  longer[i].message.call < longer[j].message.call
    BY DEF InOrder
  <2>2. CASE j \in Replies(s) /\ longer[j] = s[j] /\ j \in 1 .. Len(s)
    <3>1. i # Len(s) + 1
      BY <1>5, <2>1, <2>2 DEF Extended
    <3>2. i \in Replies(s) /\ longer[i] = s[i]
      BY <1>7, <3>1
    <3>. QED  BY <2>1, <2>2, <3>2 DEF InOrder, s
  <2>3. CASE m # ErrorFrame /\ longer[j].message = m /\ j = Len(s) + 1
    <3>1. i # Len(s) + 1
      BY <1>5, <2>1, <2>3 DEF Extended
    <3>2. i \in Replies(s) /\ longer[i] = s[i]
      BY <1>7, <3>1
    <3>. QED  BY <2>3, <3>2 DEF s
  <2>. QED  BY <1>7, <2>2, <2>3
<1>. QED  BY <1>5, <1>6, <1>7, <1>8 DEF s, longer

\* The worker answers the request it has: later than every answer before it, and
\* earlier than every request behind it.
LEMMA SendSound ==
    ASSUME Typed, Typed', NEW c \in Connections, Sound(c),
           NEW m \in Responses \cup {ErrorFrame}, NEW t \in {<<>>, <<HeadOf(m)>>, FrameOf(m)},
           toClient'[c] = toClient[c] \o t, Busy(c), worker'[c] \in {"closed", "head"},
           UNCHANGED <<published, effects, caller>>,
           m # ErrorFrame => /\ m.call = request[c].call /\ Truthful(c, m)
                             /\ m.call = calls[c] => m.digest >= began[c]
    PROVE  /\ Counted(c)' /\ Answered(c)' /\ Built(c)' /\ ~Busy(c)'
           /\ Len(toClient'[c]) =< 2 * calls'[c]
           /\ \A call \in CallNumbers : request[c].call < call => LaterThanAnswers(c, call)'
<1>. DEFINE n == request[c].call
<1>1. /\ Waiting(c)' = Waiting(c) /\ Last(c)' = Last(c) /\ ~Busy(c)'
      /\ calls' = calls /\ began' = began /\ incoming' = incoming /\ result' = result
      /\ missed' = missed /\ client' = client
  BY DEF Waiting, Last, caller, Busy
<1>2. \A response : Truthful(c, response)' <=> Truthful(c, response)
  BY DEF Truthful
<1>3. Counted(c)' /\ Built(c)'
  BY <1>1, <1>2 DEF Sound, Counted, Built
<1>4. /\ n \in CallNumbers /\ n \in Nat \ {0} /\ n =< calls[c]
      /\ Last(c) < n /\ \A response \in Answers(c) : response.call < n
      /\ Len(toClient[c]) =< 2 * (n - 1)
  BY AnswerTypes DEF Sound, Queued, LaterThanAnswers
<1>. HIDE DEF n
<1>5. \A i \in Replies(toClient[c]) : toClient[c][i].message \in Answers(c)
  BY DEF Answers
<1>6. /\ Len(toClient'[c]) \in Nat /\ Len(toClient'[c]) =< Len(toClient[c]) + 2
      /\ \A i \in Replies(toClient'[c]) :
            \/ i \in Replies(toClient[c]) /\ toClient'[c][i] = toClient[c][i]
            \/ m # ErrorFrame /\ toClient'[c][i].message = m
      /\ InOrder(toClient'[c])
  <2>1. InOrder(toClient[c])
    BY DEF Sound, Answered
  <2>2. m # ErrorFrame => \A i \in Replies(toClient[c]) : toClient[c][i].message.call < m.call
    BY <1>4, <1>5 DEF n
  <2>. QED  BY <2>1, <2>2, Replied
<1>7. \A response \in Answers(c)' : \/ response \in Answers(c)
                                    \/ m # ErrorFrame /\ response = m
  BY <1>1, <1>6 DEF Answers
<1>8. Len(toClient[c]) \in Nat /\ calls[c] \in Nat
  BY ConnectionTypes
<1>9. Len(toClient'[c]) =< 2 * calls'[c]
  BY <1>1, <1>4, <1>6, <1>8
<1>10. \A response \in Answers(c)' : response.call =< n /\ response.call \in Nat
  BY <1>4, <1>7, AnswerTypes DEF n
<1>11. ASSUME NEW call \in CallNumbers, n < call
       PROVE  LaterThanAnswers(c, call)'
  <2>1. call \in Nat
    BY CallNumbersAreNatural
  <2>2. Len(toClient'[c]) =< 2 * (call - 1)
    BY <1>4, <1>6, <1>8, <1>11, <2>1
  <2>3. Last(c)' < call
    BY <1>1, <1>4, <1>11, <2>1, AnswerTypes
  <2>4. \A response \in Answers(c)' : response.call < call
    BY <1>4, <1>10, <1>11, <2>1
  <2>. QED  BY <2>2, <2>3, <2>4 DEF LaterThanAnswers
<1>12. Answered(c)'
  <2>1. \A response \in Answers(c)' :
           /\ Last(c) < response.call /\ response.call =< calls[c] /\ Truthful(c, response)
           /\ response.call = calls[c] => response.digest >= began[c]
    BY <1>4, <1>7 DEF Sound, Answered, n
  <2>2. incoming[c] \notin {ErrorFrame, NoAnswer} =>
           \A i \in Replies(toClient'[c]) : incoming[c].call < toClient'[c][i].message.call
    <3>1. incoming[c] \notin {ErrorFrame, NoAnswer} => incoming[c] \in Answers(c)
      BY DEF Answers
    <3>. QED  BY <1>4, <1>6, <3>1 DEF Sound, Answered, n
  <2>. QED  BY <1>1, <1>2, <1>6, <2>1, <2>2 DEF Answered
<1>. QED  BY <1>1, <1>3, <1>9, <1>11, <1>12 DEF n

\* The worker reads what follows the head, its own body or another frame.
LEMMA ReadRequestBodySound ==
    ASSUME Typed, Typed', NEW c \in Connections, Sound(c), ReadRequestBody(c)
    PROVE  Sound(c)'
<1>. DEFINE sent == toServer[c]
            left == toServer'[c]
<1>1. /\ UNCHANGED <<published, effects, caller, request>> /\ Busy(c)
      /\ sent # <<>> /\ left = Tail(sent) /\ worker[c] = "payload"
      /\ worker'[c] \in {"state", "closed"} /\ calls' = calls
  BY DEF ReadRequestBody, ServerReads, Moves, Busy, caller, Typed
<1>2. /\ Head(sent) = sent[1] /\ 1 \in DOMAIN sent
      /\ \A i \in Heads(left) : i + 1 \in Heads(sent) /\ left[i] = sent[i + 1]
      /\ \A i \in DOMAIN left : left[i].message.call =< calls[c]
      /\ \A i, j \in DOMAIN left :
            i < j /\ left[j].part = "head" => left[i].message.call < left[j].message.call
      /\ \A i \in DOMAIN left : left[i].part = "body" =>
            IF i = 1 THEN sent[1] = HeadOf(left[1].message) /\ left[1] = BodyOf(left[1].message)
            ELSE left[i - 1] = HeadOf(left[i].message)
  BY <1>1, Shifted DEF Sound, Heads
<1>3. \A i \in Heads(left) : /\ LaterThanAnswers(c, left[i].message.call)
                             /\ request[c].call < left[i].message.call
                             /\ left[i].message.call \in CallNumbers
  <2>1. \A i \in Heads(sent) : /\ LaterThanAnswers(c, sent[i].message.call)
                               /\ request[c].call < sent[i].message.call
    BY <1>1 DEF Sound, Queued
  <2>2. \A i \in Heads(left) : left[i].message.call \in CallNumbers
    BY <1>2, AnswerTypes DEF Heads
  <2>. QED  BY <1>2, <2>1, <2>2
<1>4. request[c] \in RequestMessages /\ request[c].call =< calls[c]
      /\ LaterThanAnswers(c, request[c].call)
  BY <1>1 DEF Sound, Queued
<1>5. Acts(c)'
  <2>1. \A n \in CallNumbers : effects[c][n].times > 0 =>
           /\ n =< calls[c] /\ n =< request[c].call /\ n # request[c].call
           /\ \A i \in Heads(left) : n < left[i].message.call
    BY <1>1, <1>2 DEF Sound, Acts
  <2>. QED  BY <1>1, <2>1 DEF Sound, Acts
<1>6. CASE Head(sent) = BodyOf(request[c])
  <2>1. UNCHANGED toClient /\ worker'[c] = "state"
    BY <1>6 DEF ReadRequestBody, Moves, Typed
  <2>2. /\ Waiting(c)' = Waiting(c) /\ Last(c)' = Last(c) /\ Answers(c)' = Answers(c) /\ Busy(c)'
        /\ began' = began /\ incoming' = incoming /\ result' = result
        /\ missed' = missed /\ client' = client
    BY <1>1, <2>1 DEF Waiting, Last, Answers, caller, Busy
  <2>3. \A m : Truthful(c, m)' <=> Truthful(c, m)
    BY <1>1 DEF Truthful
  <2>4. Counted(c)' /\ Answered(c)' /\ Built(c)'
    <3>1. Counted(c)'
      BY <1>1, <2>2, <2>3 DEF Sound, Counted
    <3>2. Answered(c)'
      BY <1>1, <2>1, <2>2, <2>3 DEF Sound, Answered
    <3>. QED  BY <2>1, <3>1, <3>2 DEF Built
  <2>5. \A i \in DOMAIN left : left[i].part = "body" => i # 1
    BY <1>2, <1>6, ChunkParts
  <2>6. Ordered(c)'
    BY <1>1, <1>2, <2>5 DEF Ordered
  <2>7. \A call : LaterThanAnswers(c, call)' <=> LaterThanAnswers(c, call)
    BY <2>1, <2>2 DEF LaterThanAnswers
  <2>8. Queued(c)'
    BY <1>1, <1>3, <1>4, <2>1, <2>7 DEF Sound, Queued
  <2>. QED  BY <1>5, <2>4, <2>6, <2>8 DEF Sound
<1>7. CASE Head(sent) # BodyOf(request[c])
  <2>1. toClient'[c] = toClient[c] \o FrameOf(ErrorFrame) /\ worker'[c] = "closed"
    BY <1>7 DEF ReadRequestBody, Reply, Moves, Typed, ErrorFrame
  <2>2. /\ Counted(c)' /\ Answered(c)' /\ Built(c)' /\ ~Busy(c)'
        /\ Len(toClient'[c]) =< 2 * calls'[c]
        /\ \A call \in CallNumbers : request[c].call < call => LaterThanAnswers(c, call)'
    BY <1>1, <2>1, SendSound
  <2>3. Ordered(c)'
    BY <1>1, <1>2, <2>1 DEF Ordered
  <2>4. Queued(c)'
    BY <1>3, <2>2 DEF Queued
  <2>. QED  BY <1>5, <2>2, <2>3, <2>4 DEF Sound
<1>. QED  BY <1>6, <1>7

\* The response is written, whole or in part.
LEMMA RespondSound ==
    ASSUME Typed, Typed', NEW c \in Connections, Sound(c), Respond(c)
    PROVE  Sound(c)'
<1>. DEFINE it == answer[c]
<1>1. /\ UNCHANGED <<published, effects, caller>> /\ Busy(c) /\ toServer' = toServer
      /\ worker[c] = "write" /\ worker'[c] \in {"head", "closed"} /\ calls' = calls
  BY DEF Respond, NextFrame, Moves, Busy, caller, Typed
<1>2. /\ it \in Responses /\ it.call = request[c].call /\ Truthful(c, it)
      /\ it.call = calls[c] => it.digest >= began[c]
  BY <1>1 DEF Sound, Built
<1>3. PICK t \in {<<>>, <<HeadOf(it)>>, FrameOf(it)} : toClient'[c] = toClient[c] \o t
  <2>1. PICK t \in {<<>>, <<HeadOf(it)>>, FrameOf(it)} : Reply(c, t)
    BY DEF Respond
  <2>. QED  BY <2>1 DEF Reply, Typed
<1>. HIDE DEF it
<1>4. /\ Counted(c)' /\ Answered(c)' /\ Built(c)' /\ ~Busy(c)'
      /\ Len(toClient'[c]) =< 2 * calls'[c]
      /\ \A call \in CallNumbers : request[c].call < call => LaterThanAnswers(c, call)'
  BY <1>1, <1>2, <1>3, SendSound
<1>5. Ordered(c)'
  <2>1. \A i \in DOMAIN toServer[c] : toServer[c][i].part = "body" => i # 1
    BY <1>1 DEF Sound, Ordered
  <2>. QED  BY <1>1, <2>1 DEF Sound, Ordered
<1>6. Queued(c)'
  <2>1. \A i \in Heads(toServer[c]) : /\ request[c].call < toServer[c][i].message.call
                                      /\ toServer[c][i].message.call \in CallNumbers
    BY <1>1, AnswerTypes DEF Sound, Queued, Heads
  <2>. QED  BY <1>1, <1>4, <2>1 DEF Queued
<1>7. Acts(c)'
  BY <1>1, <1>4 DEF Sound, Acts
<1>. QED  BY <1>4, <1>5, <1>6, <1>7 DEF Sound

\* Every step keeps every connection sound.
LEMMA SoundStep ==
    ASSUME Typed, AllSound, [Next]_vars  PROVE AllSound'
<1>1. Typed' /\ MovesOn
  BY TypedStep, EveryStepMovesOn
<1>2. SUFFICES ASSUME NEW d \in Connections PROVE Sound(d)'
  BY DEF AllSound
<1>3. Sound(d)
  BY DEF AllSound
<1>4. CASE Stop \/ Elsewhere \/ UNCHANGED vars
  <2>1. Untouched(d)
    BY <1>4 DEF Stop, Elsewhere, vars, channels, caller, server, Untouched
  <2>. QED  BY <1>1, <1>3, <2>1, Bystander
<1>5. ASSUME NEW c \in Connections,
             WorkerStep(c) \/ CallerStep(c) \/ HangUp(c) \/ \E kind \in Kinds : Call(c, kind)
      PROVE  Sound(d)'
  <2>1. CASE c # d
    BY <1>1, <1>3, <1>5, <2>1, OthersUntouched, Bystander
  <2>2. CASE c = d
    <3>1. CASE WorkerStep(d)
      BY <1>1, <1>3, <3>1, BuildingSound, ActingSound, ReadRequestHeadSound,
         ReadRequestBodySound, RespondSound DEF WorkerStep
    <3>2. CASE CallerStep(d) \/ HangUp(d)
      BY <1>1, <1>3, <3>2, ReadHeadSound, ReadBodySound, GiveUpSound DEF CallerStep
    <3>3. ASSUME NEW kind \in Kinds, Call(d, kind)  PROVE Sound(d)'
      BY <1>1, <1>3, <3>3, CallSound
    <3>. QED  BY <1>5, <2>2, <3>1, <3>2, <3>3
  <2>. QED  BY <2>1, <2>2
<1>. QED  BY <1>4, <1>5 DEF Next

-----------------------------------------------------------------------------
(* How often the pod changed. *)

LEMMA ActedIsFinite ==
    /\ IsFiniteSet(Acted)
    /\ Cardinality(Acted) \in Nat
    /\ Cardinality(Acted) =< MaxCalls * Cardinality(Connections)
<1>1. /\ IsFiniteSet(CallNumbers) /\ Cardinality(CallNumbers) = MaxCalls
      /\ IsFiniteSet(Connections) /\ Cardinality(Connections) \in Nat
  <2>1. MaxCalls \in Int /\ 1 \in Int
    BY RequestsAssumption
  <2>2. IsFiniteSet(1 .. MaxCalls) /\ Cardinality(1 .. MaxCalls) = IF 1 > MaxCalls THEN 0
                                                                  ELSE MaxCalls - 1 + 1
    BY <2>1, FS_Interval
  <2>3. (IF 1 > MaxCalls THEN 0 ELSE MaxCalls - 1 + 1) = MaxCalls
    BY RequestsAssumption
  <2>. QED  BY <2>2, <2>3, RequestsAssumption, FS_CardinalityType DEF CallNumbers
<1>2. /\ IsFiniteSet(Connections \X CallNumbers)
      /\ Cardinality(Connections \X CallNumbers) = Cardinality(Connections) * MaxCalls
  BY <1>1, FS_Product
<1>3. Acted \in SUBSET (Connections \X CallNumbers)
  BY DEF Acted
<1>4. IsFiniteSet(Acted) /\ Cardinality(Acted) =< Cardinality(Connections \X CallNumbers)
  BY <1>2, <1>3, FS_Subset
<1>5. Cardinality(Connections) * MaxCalls = MaxCalls * Cardinality(Connections)
  BY <1>1, RequestsAssumption
<1>. QED  BY <1>2, <1>4, <1>5, FS_CardinalityType

\* A call that changes the pod is one that had not.
LEMMA VersionsStep ==
    ASSUME Typed, AllSound, VersionsCounted, [Next]_vars  PROVE VersionsCounted'
<1>1. published.version \in Nat /\ Cardinality(Acted) \in Nat /\ MaxVersion \in Nat
  BY ActedIsFinite, RequestsAssumption DEF Typed
<1>2. CASE UNCHANGED effects
  <2>1. Acted' = Acted
    BY <1>2 DEF Acted
  <2>2. \/ published'.version = published.version
        \/ published.version < MaxVersion /\ published'.version = published.version + 1
    <3>1. CASE Stop \/ Elsewhere \/ UNCHANGED vars
      BY <3>1, PublishedTypes DEF Stop, Elsewhere, vars
    <3>2. ASSUME NEW c \in Connections,
                 CallerStep(c) \/ HangUp(c) \/ \E kind \in Kinds : Call(c, kind)
          PROVE  UNCHANGED published
      BY <3>2 DEF CallerStep, ReadHead, ReadBody, GiveUp, HangUp, Call, ClientReads
    <3>3. ASSUME NEW c \in Connections, WorkerStep(c)  PROVE UNCHANGED published
      <4>1. ASSUME NEW state, Changes(c, state), worker[c] = "act"  PROVE FALSE
        <5>. DEFINE n == request[c].call
        <5>1. n \in CallNumbers
          BY <4>1 DEF AllSound, Sound, Queued, Busy, RequestMessages
        <5>2. effects[c] \in [CallNumbers -> Effects] /\ effects[c][n].times \in Nat
          BY <5>1, ConnectionTypes DEF Typed
        <5>3. effects'[c][n].times = effects[c][n].times + 1
          BY <4>1, <5>1, <5>2 DEF Changes, Typed
        <5>. QED  BY <1>2, <5>2, <5>3
      <4>. QED  BY <3>3, <4>1 DEF WorkerStep, Serve, ReadRequestHead, ReadRequestBody, ReadTimeout,
                ReadState, ReadText, Apply, SetAdmin, Retire, Refresh, RereadText, Respond,
                ServerReads, Refused
    <3>. QED  BY <3>1, <3>2, <3>3 DEF Next
  <2>3. published'.version =< MaxVersion + Cardinality(Acted)
    BY <1>1, <2>2 DEF VersionsCounted
  <2>. QED  BY <2>1, <2>3 DEF VersionsCounted
<1>3. ASSUME NEW c \in Connections, NEW state, Changes(c, state), worker[c] = "act",
             state.version =< published.version + 1, state.version \in Nat
      PROVE  VersionsCounted'
  <2>. DEFINE n == request[c].call
  <2>1. n \in CallNumbers
    BY <1>3 DEF AllSound, Sound, Queued, Busy, RequestMessages
  <2>2. effects[c] \in [CallNumbers -> Effects] /\ effects[c][n].times = 0
    <3>1. effects[c] \in [CallNumbers -> Effects]
      BY DEF Typed
    <3>2. effects[c][n].times \in Nat
      BY <2>1, ConnectionTypes
    <3>3. ~(effects[c][n].times > 0)
      BY <1>3, <2>1 DEF AllSound, Sound, Acts
    <3>. QED  BY <3>1, <3>2, <3>3
  <2>3. /\ effects'[c][n].times = 1 /\ published' = state
        /\ \A k \in CallNumbers : k # n => effects'[c][k] = effects[c][k]
        /\ \A d \in Connections : d # c => effects'[d] = effects[d]
    BY <1>3, <2>1, <2>2 DEF Changes, Typed
  <2>. HIDE DEF n
  <2>4. Acted' = Acted \cup {<<c, n>>} /\ <<c, n>> \notin Acted
    <3>1. <<c, n>> \notin Acted /\ <<c, n>> \in Acted'
      BY <2>1, <2>2, <2>3 DEF Acted
    <3>2. ASSUME NEW p \in Connections \X CallNumbers, p # <<c, n>>
          PROVE  p \in Acted' <=> p \in Acted
      <4>1. effects'[p[1]][p[2]] = effects[p[1]][p[2]]
        BY <2>3, <3>2
      <4>. QED  BY <4>1 DEF Acted
    <3>3. Acted \subseteq Connections \X CallNumbers /\ Acted' \subseteq Connections \X CallNumbers
      BY DEF Acted
    <3>. QED  BY <3>1, <3>2, <3>3
  <2>5. Cardinality(Acted') = Cardinality(Acted) + 1
    BY <2>4, ActedIsFinite, FS_AddElement
  <2>6. state.version =< MaxVersion + (Cardinality(Acted) + 1)
    BY <1>1, <1>3 DEF VersionsCounted
  <2>. QED  BY <2>3, <2>5, <2>6 DEF VersionsCounted
<1>4. CASE ~UNCHANGED effects
  <2>1. PICK c \in Connections : WorkerStep(c)
    BY <1>4 DEF Next, Stop, Elsewhere, vars, CallerStep, ReadHead, ReadBody, GiveUp, HangUp, Call,
                ClientReads
  <2>2. /\ worker[c] = "act"
        /\ Changes(c, Newer) \/ Changes(c, [published EXCEPT !.retired = TRUE])
    BY <1>4, <2>1 DEF WorkerStep, Serve, ReadRequestHead, ReadRequestBody, ReadTimeout,
            ReadState, ReadText, Apply, SetAdmin, Retire, Refresh, RereadText, Respond,
            ServerReads, Refused
  <2>3. /\ Newer.version =< published.version + 1 /\ Newer.version \in Nat
        /\ [published EXCEPT !.retired = TRUE].version =< published.version + 1
        /\ [published EXCEPT !.retired = TRUE].version \in Nat
    BY <1>1, PublishedTypes
  <2>. QED  BY <1>3, <2>2, <2>3
<1>. QED  BY <1>2, <1>4

-----------------------------------------------------------------------------
(* Theorems. *)

\* The inductive invariant: of every connection, of what travels on it in both
\* directions and of the answer its worker is building.
THEOREM RequestsInvariance == Spec => [](Typed /\ AllSound /\ VersionsCounted)
<1>1. Init => Typed /\ AllSound /\ VersionsCounted
  <2>1. Init => VersionsCounted
    BY ActedIsFinite, RequestsAssumption DEF Init, VersionsCounted
  <2>. QED  BY <2>1, InitTyped, InitSound
<1>2. Typed /\ AllSound /\ VersionsCounted /\ [Next]_vars
      => (Typed /\ AllSound /\ VersionsCounted)'
  BY TypedStep, SoundStep, VersionsStep
<1>. QED  BY <1>1, <1>2, PTL DEF Spec

\* The places of both sides and what is on its way between them fit the code: no
\* more than a frame per call is ever on its way back.
THEOREM RequestsTypes == Spec => []TypeOK
<1>1. Typed /\ AllSound /\ VersionsCounted => TypeOK
  <2>1. SUFFICES ASSUME Typed, AllSound, VersionsCounted PROVE TypeOK
    OBVIOUS
  <2>2. published \in [version : 0 .. MaxVersion + MaxCalls * Cardinality(Connections),
                       retired : BOOLEAN]
    <3>. DEFINE most == MaxCalls * Cardinality(Connections)
    <3>1. Cardinality(Acted) =< most /\ Cardinality(Acted) \in Nat /\ most \in Nat
      BY ActedIsFinite, FS_CardinalityType, RequestsAssumption
    <3>. HIDE DEF most
    <3>2. published.version \in Nat /\ published.version =< MaxVersion + Cardinality(Acted)
      BY <2>1 DEF Typed, VersionsCounted
    <3>3. published.version \in 0 .. MaxVersion + most
      BY <3>1, <3>2, RequestsAssumption
    <3>. QED  BY <2>1, <3>3 DEF Typed, most
  <2>3. ASSUME NEW c \in Connections
        PROVE  /\ client[c] \in ClientPlaces /\ worker[c] \in WorkerPlaces
               /\ calls[c] \in 0 .. MaxCalls /\ missed[c] \in 0 .. calls[c]
               /\ \A i \in DOMAIN toServer[c] : toServer[c][i].message.call \in 1 .. calls[c]
               /\ Len(toClient[c]) =< 2 * calls[c]
    <3>1. Sound(c)
      BY <2>1 DEF AllSound
    <3>2. calls[c] \in Nat /\ calls[c] =< MaxCalls /\ missed[c] \in Nat
      BY <2>1, ConnectionTypes
    <3>3. missed[c] =< calls[c]
      BY <3>1, <3>2 DEF Sound, Counted, Waiting
    <3>4. \A i \in DOMAIN toServer[c] : /\ toServer[c][i].message.call =< calls[c]
                                        /\ toServer[c][i].message.call \in Nat \ {0}
      BY <2>1, <3>1, AnswerTypes DEF Sound, Ordered
    <3>. QED  BY <2>1, <3>1, <3>2, <3>3, <3>4, RequestsAssumption DEF Sound, Queued, Typed
  <2>. QED  BY <2>1, <2>2, <2>3 DEF TypeOK, Typed, ClientPlaces, WorkerPlaces
<1>. QED  BY <1>1, RequestsInvariance, PTL

\* call() compares no correlation: the answer it returns is of no later call, and
\* lags behind by no more calls than ended without an answer.
THEOREM AnswersNeverLead == Spec => []AnswersLagByMisses
<1>1. Typed /\ AllSound => AnswersLagByMisses
  <2>1. SUFFICES ASSUME Typed, AllSound, NEW c \in Connections, result[c] # NoAnswer
                 PROVE  /\ result[c].answer.call =< result[c].call
                        /\ result[c].call - result[c].answer.call =< result[c].missed
    BY DEF AnswersLagByMisses
  <2>2. /\ result[c].answer.call =< result[c].call
        /\ result[c].call =< result[c].missed + result[c].answer.call
    BY <2>1 DEF AllSound, Sound, Counted
  <2>3. /\ result[c].call \in Nat /\ result[c].missed \in Nat /\ result[c].answer.call \in Nat
    BY <2>1, AnswerTypes
  <2>. QED  BY <2>2, <2>3
<1>. QED  BY <1>1, RequestsInvariance, PTL

\* handle() reads the published state several times while others change it: the
\* answer still names one that held when the call had begun and had acted.
THEOREM OwnAnswersReportTheirCall == Spec => []OwnAnswersAreFresh
<1>1. Typed /\ AllSound => OwnAnswersAreFresh
  BY DEF AllSound, Sound, Counted, Truthful, OwnAnswersAreFresh
<1>. QED  BY <1>1, RequestsInvariance, PTL

\* No request reaches the controller twice, whatever is lost, and an answer that
\* says a call was refused or done is right.
THEOREM RequestsActOnce == Spec => []ActsAtMostOnce
<1>1. Typed /\ AllSound => ActsAtMostOnce
  <2>1. SUFFICES ASSUME Typed, AllSound PROVE ActsAtMostOnce
    OBVIOUS
  <2>2. \A c \in Connections, n \in CallNumbers :
           effects[c][n].times =< 1 /\ (effects[c][n].times > 0 => n =< calls[c])
    BY <2>1 DEF AllSound, Sound, Acts
  <2>3. \A c \in Connections : result[c] # NoAnswer => Truthful(c, result[c].answer)
    BY <2>1 DEF AllSound, Sound, Counted
  <2>. QED  BY <2>2, <2>3 DEF Truthful, ActsAtMostOnce
<1>. QED  BY <1>1, RequestsInvariance, PTL
=============================================================================
