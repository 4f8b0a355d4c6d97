------------------------------ MODULE Requests ------------------------------
(***************************************************************************)
(* Calls over the control protocol: PodClient::call() on one side of a     *)
(* connection, the worker that serves it on the other                      *)
(* (src/control/client.cpp, serve() and handle() of src/control/server.cpp, *)
(* frames of src/transport/frame.cpp).  A frame arrives as a head and a    *)
(* body; a call that gives up, half sent or half read, leaves the rest in  *)
(* the connection for the next one.  A client never looks at the           *)
(* correlation it sent.  How connections come to a worker is PodServer's,  *)
(* what the controller does with a request PodController's: here its       *)
(* published state has a version, and is retired or not.                   *)
(***************************************************************************)
EXTENDS Naturals, Sequences, FiniteSets

CONSTANTS
    Connections,
    MaxCalls,      \* bounds of the model: calls on one connection,
    MaxVersion     \* compositions that change the published state

ASSUME RequestsAssumption ==
    IsFiniteSet(Connections) /\ MaxCalls \in Nat /\ MaxVersion \in Nat

VARIABLES
    published,     \* state_ and lifecycle_ of the controller
    stopping_,
    toServer, toClient,    \* what each side has sent and the other not yet read
    client,        \* where the caller of each connection is
    calls,         \* correlation_
    incoming,      \* the answer whose head the client has read, in a sequence
    worker,        \* where the worker of each connection is
    request,       \* the request it read
    answer,        \* the response it builds
    began,         \* history: version published when the last call began
    missed,        \* history: calls that ended without a response
    result,        \* history: the last response a call returned, in a sequence
    effects        \* history: how often each call changed the pod, and to which version

channels == <<toServer, toClient>>
caller   == <<client, calls, incoming, began, missed, result>>
server   == <<worker, request, answer>>
vars == <<published, stopping_, channels, caller, server, effects>>

Kinds == {"status", "apply", "admin", "retire", "shutdown"}
CallNumbers == 1 .. MaxCalls

\* Frames: a head, and a body that only verifies behind its own head.
HeadOf(message) == [part |-> "head", message |-> message]
BodyOf(message) == [part |-> "body", message |-> message]
FrameOf(message) == <<HeadOf(message), BodyOf(message)>>

NoAnswer == [call |-> 0]
NoEffect == [times |-> 0, version |-> 0]

Init ==
    /\ published = [version |-> 0, retired |-> FALSE] /\ stopping_ = FALSE
    /\ toServer = [c \in Connections |-> <<>>] /\ toClient = [c \in Connections |-> <<>>]
    /\ client = [c \in Connections |-> "idle"] /\ calls = [c \in Connections |-> 0]
    /\ incoming = [c \in Connections |-> NoAnswer]
    /\ worker = [c \in Connections |-> "queued"]
    /\ request = [c \in Connections |-> NoAnswer] /\ answer = [c \in Connections |-> NoAnswer]
    /\ began = [c \in Connections |-> 0] /\ missed = [c \in Connections |-> 0]
    /\ result = [c \in Connections |-> NoAnswer]
    /\ effects = [c \in Connections |-> [n \in CallNumbers |-> NoEffect]]

-----------------------------------------------------------------------------
(* PodClient::call(). *)

Goes(c, place) == client' = [client EXCEPT ![c] = place]
Misses(c) == missed' = [missed EXCEPT ![c] = @ + 1]
Send(c, chunks) == toServer' = [toServer EXCEPT ![c] = @ \o chunks]

\* write_frame(): sent, or only in part when the connection does not take it.
Call(c, kind) ==
    /\ client[c] = "idle" /\ calls[c] < MaxCalls
    /\ calls' = [calls EXCEPT ![c] = @ + 1]
    /\ began' = [began EXCEPT ![c] = published.version]
    /\ LET message == [call |-> calls'[c], kind |-> kind]
       IN  \/ Send(c, FrameOf(message)) /\ Goes(c, "head") /\ UNCHANGED missed
           \/ \E sent \in {<<>>, <<HeadOf(message)>>} :
                 Send(c, sent) /\ Misses(c) /\ UNCHANGED client
    /\ UNCHANGED <<published, stopping_, toClient, incoming, result, server, effects>>

Receives(c) == toClient' = [toClient EXCEPT ![c] = Tail(@)]
ClientReads == UNCHANGED <<published, stopping_, toServer, calls, began, server, effects>>

\* read_frame(): a head first.  What is left of an earlier answer is not one: the
\* call fails, and has consumed all that is left of it or not.
ReadHead(c) ==
    /\ client[c] = "head" /\ toClient[c] # <<>>
    /\ \/ /\ Head(toClient[c]).part = "head"
          /\ Receives(c) /\ Goes(c, "body")
          /\ incoming' = [incoming EXCEPT ![c] = Head(toClient[c]).message]
          /\ UNCHANGED missed
       \/ /\ Head(toClient[c]).part = "body"
          /\ Receives(c) \/ UNCHANGED toClient
          /\ Goes(c, "idle") /\ Misses(c) /\ UNCHANGED incoming
    /\ UNCHANGED result /\ ClientReads

\* The body is there: a response is returned, whichever request it answers; an
\* error frame is an error.
ReadBody(c) ==
    /\ client[c] = "body" /\ toClient[c] # <<>>
    /\ Receives(c) /\ Goes(c, "idle")
    /\ LET response == incoming[c]
       IN  IF "error" \in DOMAIN response THEN Misses(c) /\ UNCHANGED result
           ELSE /\ result' = [result EXCEPT ![c] =
                                [call |-> calls[c], began |-> began[c], missed |-> missed[c],
                                 answer |-> response]]
                /\ UNCHANGED missed
    /\ incoming' = [incoming EXCEPT ![c] = NoAnswer]
    /\ ClientReads

\* Mutant: a call that ran out of time sends its request again, once.
GiveUpAndRetry(c) ==
    /\ client[c] \in {"head", "body"} /\ toClient[c] = <<>>
    /\ incoming' = [incoming EXCEPT ![c] = NoAnswer] /\ Misses(c)
    /\ \/ /\ missed[c] = 0 /\ Goes(c, "head")
          /\ \E kind \in Kinds : Send(c, FrameOf([call |-> calls[c], kind |-> kind]))
       \/ missed[c] # 0 /\ Goes(c, "idle") /\ UNCHANGED toServer
    /\ UNCHANGED <<toClient, result, published, stopping_, calls, began, server, effects>>

\* recv_some() ran into its deadline, or the server closed the connection.  The
\* socket stays as it is.
GiveUp(c) ==
    /\ client[c] \in {"head", "body"} /\ toClient[c] = <<>>
    /\ Goes(c, "idle") /\ Misses(c)
    /\ incoming' = [incoming EXCEPT ![c] = NoAnswer]
    /\ UNCHANGED <<toClient, result>> /\ ClientReads

\* The client closes its end between calls.
HangUp(c) ==
    /\ client[c] = "idle" /\ calls[c] > 0 /\ Goes(c, "gone")
    /\ UNCHANGED <<toClient, incoming, missed, result>> /\ ClientReads

-----------------------------------------------------------------------------
(* serve() and handle(). *)

Moves(c, place) == worker' = [worker EXCEPT ![c] = place]
Reply(c, chunks) == toClient' = [toClient EXCEPT ![c] = @ \o chunks]
ServerReads == UNCHANGED <<published, stopping_, caller, effects>>
Building == UNCHANGED <<stopping_, channels, caller, request>>

\* A worker takes the connection, unless stop() empties the queue first.
Serve(c) ==
    /\ worker[c] = "queued"
    /\ Moves(c, IF stopping_ THEN "closed" ELSE "head")
    /\ UNCHANGED <<channels, request, answer>> /\ ServerReads

ReadRequestHead(c) ==
    /\ worker[c] = "head" /\ toServer[c] # <<>>
    /\ toServer' = [toServer EXCEPT ![c] = Tail(@)]
    /\ request' = [request EXCEPT ![c] = Head(toServer[c]).message]
    /\ Moves(c, "payload")
    /\ UNCHANGED <<toClient, answer>> /\ ServerReads

\* What follows is the body of that request, or another frame: then the checksum
\* fails, an error frame is sent and the connection closed.
ReadRequestBody(c) ==
    /\ worker[c] = "payload" /\ toServer[c] # <<>>
    /\ toServer' = [toServer EXCEPT ![c] = Tail(@)]
    /\ IF Head(toServer[c]) = BodyOf(request[c])
       THEN Moves(c, "state") /\ UNCHANGED toClient
       ELSE Reply(c, FrameOf([error |-> TRUE])) /\ Moves(c, "closed")
    /\ UNCHANGED <<request, answer>> /\ ServerReads

\* Mutant: the payload of a request is awaited for ever.
TimeoutOnHead(c) ==
    /\ worker[c] = "head" /\ toServer[c] = <<>>
    /\ Moves(c, "closed")
    /\ UNCHANGED <<channels, request, answer>> /\ ServerReads
\* Nothing comes within the deadline, or the client has gone.
ReadTimeout(c) ==
    /\ worker[c] \in {"head", "payload"} /\ toServer[c] = <<>>
    /\ Moves(c, "closed")
    /\ UNCHANGED <<channels, request, answer>> /\ ServerReads

\* handle() starts from the state published now, and the text of a later one.
ReadState(c) ==
    /\ worker[c] = "state" /\ Moves(c, "text")
    /\ answer' = [answer EXCEPT ![c] =
                    [call |-> request[c].call, kind |-> request[c].kind, ok |-> TRUE,
                     digest |-> published.version, retired |-> published.retired, text |-> 0]]
    /\ Building /\ UNCHANGED <<published, effects>>
ReadText(c) ==
    /\ worker[c] = "text"
    /\ Moves(c, IF request[c].kind \in {"status", "shutdown"} THEN "write" ELSE "act")
    /\ answer' = [answer EXCEPT ![c].text = published.version]
    /\ Building /\ UNCHANGED <<published, effects>>

\* The controller is called, and may refuse: a commit fails, it is not open, the pod
\* is retired.  What it refuses leaves the published state alone, except that a pod
\* whose retirement could not be stored is retired all the same.
Changes(c, state) ==
    /\ published' = state
    /\ effects' = [effects EXCEPT ![c][request[c].call] =
                     [times |-> @.times + 1, version |-> state.version]]
Newer == [published EXCEPT !.version = @ + 1]
Refused(c, place) == /\ UNCHANGED <<published, effects>> /\ Moves(c, place)
                     /\ answer' = [answer EXCEPT ![c].ok = FALSE]

Apply(c) ==
    /\ worker[c] = "act" /\ request[c].kind = "apply"
    /\ \/ /\ Changes(c, Newer) /\ Moves(c, "reread")
          /\ answer' = [answer EXCEPT ![c].digest = Newer.version,
                                      ![c].retired = published.retired]
       \/ Refused(c, "write")
    /\ Building
SetAdmin(c) ==
    /\ worker[c] = "act" /\ request[c].kind = "admin"
    /\ \/ ~published.retired /\ Changes(c, Newer) /\ Moves(c, "refresh") /\ UNCHANGED answer
       \/ Refused(c, "write")
    /\ Building
Retire(c) ==
    /\ worker[c] = "act" /\ request[c].kind = "retire"
    /\ \/ Refused(c, "refresh")
       \/ /\ ~published.retired /\ Changes(c, [published EXCEPT !.retired = TRUE])
          /\ Moves(c, "refresh")
          /\ \E stored \in BOOLEAN : answer' = [answer EXCEPT ![c].ok = stored]
    /\ Building

\* Mutant: the answer to an override keeps the state it started from.
RefreshRetireOnly(c) ==
    /\ worker[c] = "refresh"
    /\ Moves(c, "write")
    /\ answer' = [answer EXCEPT ![c].retired = published.retired]
    /\ Building /\ UNCHANGED <<published, effects>>
\* After an override the state is read again, after a retirement the lifecycle.
Refresh(c) ==
    /\ worker[c] = "refresh"
    /\ IF request[c].kind = "admin"
       THEN /\ Moves(c, "reread")
            /\ answer' = [answer EXCEPT ![c].digest = published.version,
                                        ![c].retired = published.retired]
       ELSE /\ Moves(c, "write")
            /\ answer' = [answer EXCEPT ![c].retired = published.retired]
    /\ Building /\ UNCHANGED <<published, effects>>
RereadText(c) ==
    /\ worker[c] = "reread" /\ Moves(c, "write")
    /\ answer' = [answer EXCEPT ![c].text = published.version]
    /\ Building /\ UNCHANGED <<published, effects>>

\* The top of the loop.
NextFrame(c) ==
    Moves(c, IF stopping_ \/ request[c].kind = "shutdown" THEN "closed" ELSE "head")

\* Mutant: a frame that was written is written again.
RespondTwice(c) ==
    /\ worker[c] = "write"
    /\ Reply(c, FrameOf(answer[c]) \o FrameOf(answer[c])) /\ NextFrame(c)
    /\ stopping_' = (stopping_ \/ request[c].kind = "shutdown")
    /\ request' = [request EXCEPT ![c] = NoAnswer] /\ answer' = [answer EXCEPT ![c] = NoAnswer]
    /\ UNCHANGED <<published, toServer, caller, effects>>

\* The response is written, or the connection is given up half way.
Respond(c) ==
    /\ worker[c] = "write"
    /\ \/ /\ Reply(c, FrameOf(answer[c])) /\ NextFrame(c)
          /\ stopping_' = (stopping_ \/ request[c].kind = "shutdown")
       \/ /\ \E sent \in {<<>>, <<HeadOf(answer[c])>>} : Reply(c, sent)
          /\ Moves(c, "closed") /\ UNCHANGED stopping_
    /\ request' = [request EXCEPT ![c] = NoAnswer] /\ answer' = [answer EXCEPT ![c] = NoAnswer]
    /\ UNCHANGED <<published, toServer, caller, effects>>

\* The process that owns the server stops it.
Stop == /\ ~stopping_ /\ stopping_' = TRUE
        /\ UNCHANGED <<published, channels, caller, server, effects>>

\* The process that owns the controller calls it, or somebody over a connection
\* that is not followed here.
Elsewhere == /\ \/ published.version < MaxVersion /\ published' = Newer
                \/ ~published.retired /\ published' = [published EXCEPT !.retired = TRUE]
             /\ UNCHANGED <<stopping_, channels, caller, server, effects>>

WorkerStep(c) ==
    \/ Serve(c) \/ ReadRequestHead(c) \/ ReadRequestBody(c) \/ ReadTimeout(c)
    \/ ReadState(c) \/ ReadText(c) \/ Apply(c) \/ SetAdmin(c) \/ Retire(c)
    \/ Refresh(c) \/ RereadText(c) \/ Respond(c)
CallerStep(c) == ReadHead(c) \/ ReadBody(c) \/ GiveUp(c)

Next ==
    \/ \E c \in Connections :
          WorkerStep(c) \/ CallerStep(c) \/ HangUp(c) \/ \E kind \in Kinds : Call(c, kind)
    \/ Stop \/ Elsewhere

\* Threads run, and no wait on a socket outlasts its deadline.
Fairness == \A c \in Connections : WF_vars(WorkerStep(c)) /\ WF_vars(CallerStep(c))
Spec == Init /\ [][Next]_vars /\ Fairness

-----------------------------------------------------------------------------
\* The places of both sides, and what is on its way between them, fit the code.
TypeOK ==
    /\ published \in [version : 0 .. MaxVersion + MaxCalls * Cardinality(Connections),
                      retired : BOOLEAN]
    /\ stopping_ \in BOOLEAN
    /\ \A c \in Connections :
          /\ client[c] \in {"idle", "head", "body", "gone"}
          /\ worker[c] \in {"queued", "head", "payload", "state", "text", "act", "refresh",
                            "reread", "write", "closed"}
          /\ calls[c] \in 0 .. MaxCalls /\ missed[c] \in 0 .. calls[c]
          /\ \A i \in DOMAIN toServer[c] :
                toServer[c][i].message.call \in 1 .. calls[c]
          /\ Len(toClient[c]) =< 2 * calls[c]

\* call() compares no correlation: a response is not of a later call than the one
\* that returns it, and lags behind it by no more calls than ended without one.
\* The first answer a connection never missed is always the right one.
AnswersLagByMisses ==
    \A c \in Connections : result[c] # NoAnswer =>
        /\ result[c].answer.call =< result[c].call
        /\ result[c].call - result[c].answer.call =< result[c].missed

\* server.cpp: "the response must report the state that now holds rather than the
\* one it started from".  A response to the call that returns it is no older than
\* that call, no older than what the call itself changed, and its text is of the
\* state it names or a later one, whatever other connections do in between.  The
\* answer to a retirement that happened, stored or not, says that the pod is retired.
OwnAnswersAreFresh ==
    \A c \in Connections :
        result[c] # NoAnswer /\ result[c].answer.call = result[c].call =>
            LET it   == result[c].answer
                mine == effects[c][it.call]
            IN  /\ it.digest >= result[c].began /\ it.text >= it.digest
                /\ it.ok => it.digest >= mine.version \/ it.kind = "retire"
                /\ it.kind = "retire" /\ (it.ok \/ mine.times > 0) => it.retired

\* A call acts at most once, even when it gave up or its answer was lost, and a
\* response that says it was refused is of a call that changed nothing.
ActsAtMostOnce ==
    /\ \A c \in Connections, n \in CallNumbers :
          effects[c][n].times =< 1 /\ (effects[c][n].times > 0 => n =< calls[c])
    /\ \A c \in Connections : result[c] # NoAnswer =>
          LET it == result[c].answer
          IN  /\ it.ok /\ it.kind \in {"apply", "admin", "retire"} => effects[c][it.call].times = 1
              /\ ~it.ok /\ it.kind \in {"apply", "admin"} => effects[c][it.call].times = 0

\* stop() joins every worker: a client that is silent, slow or gone holds none of
\* them beyond its deadline.
StopEmptiesServer == stopping_ ~> \A c \in Connections : worker[c] = "closed"
=============================================================================
