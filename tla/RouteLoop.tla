----------------------------- MODULE RouteLoop -----------------------------
(***************************************************************************)
(* The route loop between one client and its backends, and the requests    *)
(* that backends make of the client (src/yamp/router.py:                   *)
(* ForwardRouter._route_loop, _route_call, _server_message,                *)
(* _route_client_reply, _route_client_cancellation).                       *)
(*                                                                         *)
(* The loop is serial: it reads the client's next message only when the    *)
(* call before it was answered.  A backend may ask the client something    *)
(* of its own (sampling, elicitation) at any time, also in order to answer *)
(* a call; the proxy gives such a request an id of its own and sends the   *)
(* client's reply, or its cancellation, back under the backend's id.       *)
(*                                                                         *)
(* Every transport is a FIFO queue.  How a connection matches answers with *)
(* requests, and how it fails, is in BackendConn; list aggregation is in   *)
(* ListServing; calls served by the proxy itself are in LocalWork.         *)
(***************************************************************************)
EXTENDS Integers, Sequences

CONSTANTS
    Backends,   \* the backends of the router
    Timeout,    \* whether requests to backends time out (request_timeout)
    MaxCalls,   \* bound: calls of the client
    MaxAsks     \* bound: requests of one backend to the client

ASSUME BoundsAssumption == Timeout \in BOOLEAN /\ MaxCalls \in Nat /\ MaxAsks \in Nat

VARIABLES
    inbox,      \* what the client sent and the loop has not read
    outbox,     \* what the proxy sent and the client has not read
    toBack,     \* per backend, what the proxy sent and it has not read
    fromBack,   \* per backend, what it sent and its reader has not read
    loop,       \* the route loop: reading, waiting for a backend, answered
    requests,   \* ForwardRouter._server_requests
    requestSeq, \* ForwardRouter._server_request_seq
    client,     \* calls made, answers received, requests to reply to
    backend     \* per backend, calls it holds, requests made and settled

vars == <<inbox, outbox, toBack, fromBack, loop, requests, requestSeq, client, backend>>

Calls == 1 .. MaxCalls
Asks == 1 .. MaxAsks
Origins == Backends \X Asks
Empty == [x \in {} |-> x]

Init ==
    /\ inbox = <<>> /\ outbox = <<>>
    /\ toBack = [b \in Backends |-> <<>>]
    /\ fromBack = [b \in Backends |-> <<>>]
    /\ loop = [pc |-> "reading", call |-> 0]
    /\ requests = Empty
    /\ requestSeq = 0
    /\ client = [calls |-> 0, answers |-> <<>>, asked |-> {}, replied |-> {}, cancelled |-> {}]
    /\ backend = [b \in Backends |-> [held |-> {}, asks |-> 0, settled |-> <<>>]]

(***************************************************************************)
(* The client                                                              *)
(***************************************************************************)
ClientCalls(b) ==
    /\ client.calls < MaxCalls
    /\ client' = [client EXCEPT !.calls = @ + 1]
    /\ inbox' = Append(inbox, [kind |-> "call", id |-> client.calls + 1, backend |-> b])
    /\ UNCHANGED <<outbox, toBack, fromBack, loop, requests, requestSeq, backend>>

\* The client reads: an answer to a call of its own or a backend's request.
\* It ignores a response it does not expect.
ClientReads ==
    /\ outbox # <<>>
    /\ outbox' = Tail(outbox)
    /\ LET msg == Head(outbox) IN
       client' = IF msg.kind = "answer" THEN [client EXCEPT !.answers = Append(@, msg.id)]
                 ELSE IF msg.kind = "request" THEN [client EXCEPT !.asked = @ \union {msg}]
                 ELSE client
    /\ UNCHANGED <<inbox, toBack, fromBack, loop, requests, requestSeq, backend>>

\* It replies to a backend's request, or cancels it; the two may cross.
ClientReplies(ask) ==
    /\ ask \in client.asked \ client.replied
    /\ client' = [client EXCEPT !.replied = @ \union {ask}]
    /\ inbox' = Append(inbox, [kind |-> "reply", id |-> ask.id, about |-> ask.about])
    /\ UNCHANGED <<outbox, toBack, fromBack, loop, requests, requestSeq, backend>>

ClientCancels(ask) ==
    /\ ask \in client.asked \ (client.cancelled \union client.replied)
    /\ client' = [client EXCEPT !.cancelled = @ \union {ask}]
    /\ inbox' = Append(inbox, [kind |-> "cancel", id |-> ask.id, about |-> ask.about])
    /\ UNCHANGED <<outbox, toBack, fromBack, loop, requests, requestSeq, backend>>

(***************************************************************************)
(* The route loop                                                          *)
(***************************************************************************)
\* A call is sent to its backend, whose answer the loop then awaits.
RouteCall ==
    /\ loop.pc = "reading" /\ inbox # <<>> /\ Head(inbox).kind = "call"
    /\ LET msg == Head(inbox) IN
       /\ loop' = [pc |-> "waiting", call |-> msg.id]
       /\ toBack' = [toBack EXCEPT ![msg.backend] = Append(@, [kind |-> "call", id |-> msg.id])]
    /\ inbox' = Tail(inbox)
    /\ UNCHANGED <<outbox, fromBack, requests, requestSeq, client, backend>>

Without_Keeps(id) == requests   \* mutant: a correlation is not forgotten
Without(id) == [i \in DOMAIN requests \ {id} |-> requests[i]]

\* A reply or a cancellation goes back to the backend that asked, under the
\* backend's own id, and the correlation is forgotten; one that the proxy
\* does not hold is dropped.
RouteReply ==
    /\ loop.pc = "reading" /\ inbox # <<>> /\ Head(inbox).kind \in {"reply", "cancel"}
    /\ LET msg == Head(inbox) IN
       IF msg.id \in DOMAIN requests
       THEN /\ requests' = Without(msg.id)
            /\ LET origin == requests[msg.id] IN
               toBack' = [toBack EXCEPT ![origin[1]] = Append(@,
                    [kind |-> msg.kind, id |-> origin[2], about |-> msg.about])]
       ELSE UNCHANGED <<requests, toBack>>
    /\ inbox' = Tail(inbox)
    /\ UNCHANGED <<outbox, fromBack, loop, requestSeq, client, backend>>

\* The answer is written to the client and the loop reads on.
Answer ==
    /\ loop.pc = "answered"
    /\ outbox' = Append(outbox, [kind |-> "answer", id |-> loop.call])
    /\ loop' = [pc |-> "reading", call |-> 0]
    /\ UNCHANGED <<inbox, toBack, fromBack, requests, requestSeq, client, backend>>

\* The request to the backend times out: the answer is an error.
TimesOut_StillWaits ==   \* mutant: the error is sent and the answer awaited on
    /\ Timeout /\ loop.pc = "waiting"
    /\ outbox' = Append(outbox, [kind |-> "answer", id |-> loop.call])
    /\ UNCHANGED <<inbox, toBack, fromBack, loop, requests, requestSeq, client, backend>>
TimesOut_Never ==   \* mutant: the timeout is not armed
    FALSE /\ UNCHANGED vars
TimesOut ==
    /\ Timeout /\ loop.pc = "waiting"
    /\ loop' = [loop EXCEPT !.pc = "answered"]
    /\ UNCHANGED <<inbox, outbox, toBack, fromBack, requests, requestSeq, client, backend>>

(***************************************************************************)
(* The reader of one backend connection                                    *)
(***************************************************************************)
\* The id under which the client sees a backend's request.
ClientId_Own(b, id) == id   \* mutant: the backend's id is passed on
ClientId_Skips(b, id) == requestSeq + 2   \* mutant: an id ahead of the counter
ClientId(b, id) == requestSeq + 1

\* A request of the backend is correlated and passed on; the answer that the
\* loop waits for ends its wait; any other response goes to the client too.
Deliver(b) ==
    /\ fromBack[b] # <<>>
    /\ fromBack' = [fromBack EXCEPT ![b] = Tail(@)]
    /\ LET msg == Head(fromBack[b])
           id  == ClientId(b, msg.id) IN
       \/ /\ msg.kind = "request"
          /\ requestSeq' = requestSeq + 1
          /\ requests' = [i \in DOMAIN requests \union {id} |->
                            IF i = id THEN <<b, msg.id>> ELSE requests[i]]
          /\ outbox' = Append(outbox, [kind |-> "request", id |-> id, about |-> <<b, msg.id>>])
          /\ UNCHANGED loop
       \/ /\ msg.kind = "answer"
          /\ IF loop.pc = "waiting" /\ loop.call = msg.id
             THEN loop' = [loop EXCEPT !.pc = "answered"] /\ UNCHANGED outbox
             ELSE outbox' = Append(outbox, [kind |-> "stray", id |-> msg.id]) /\ UNCHANGED loop
          /\ UNCHANGED <<requests, requestSeq>>
    /\ UNCHANGED <<inbox, toBack, client, backend>>

(***************************************************************************)
(* A backend                                                               *)
(***************************************************************************)
\* It reads a call, which it then holds, or the outcome of a request it made.
BackendReads(b) ==
    /\ toBack[b] # <<>>
    /\ toBack' = [toBack EXCEPT ![b] = Tail(@)]
    /\ LET msg == Head(toBack[b]) IN
       backend' = IF msg.kind = "call"
                  THEN [backend EXCEPT ![b].held = @ \union {[id |-> msg.id, needs |-> 0]}]
                  ELSE [backend EXCEPT ![b].settled = Append(@, msg.id)]
    /\ UNCHANGED <<inbox, outbox, fromBack, loop, requests, requestSeq, client>>

Asking(b) ==
    /\ backend[b].asks < MaxAsks
    /\ fromBack' = [fromBack EXCEPT ![b] = Append(@, [kind |-> "request", id |-> backend[b].asks + 1])]
    /\ UNCHANGED <<inbox, outbox, toBack, loop, requests, requestSeq, client>>

\* It asks the client something, unprompted.
BackendAsks(b) ==
    /\ Asking(b)
    /\ backend' = [backend EXCEPT ![b].asks = @ + 1]

\* It asks the client something that it needs to know to answer a call.
BackendAsksFor(b, call) ==
    /\ call \in backend[b].held /\ call.needs = 0
    /\ Asking(b)
    /\ backend' = [backend EXCEPT ![b].asks = @ + 1,
                     ![b].held = (@ \ {call}) \union {[call EXCEPT !.needs = backend[b].asks + 1]}]

\* It answers a call, with all it needed to know.
BackendAnswers(b, call) ==
    /\ call \in backend[b].held
    /\ call.needs = 0 \/ \E i \in DOMAIN backend[b].settled : backend[b].settled[i] = call.needs
    /\ backend' = [backend EXCEPT ![b].held = @ \ {call}]
    /\ fromBack' = [fromBack EXCEPT ![b] = Append(@, [kind |-> "answer", id |-> call.id])]
    /\ UNCHANGED <<inbox, outbox, toBack, loop, requests, requestSeq, client>>

LoopStep == RouteCall \/ RouteReply \/ Answer \/ TimesOut
ClientStep == \/ ClientReads
              \/ \E b \in Backends : ClientCalls(b)
              \/ \E ask \in client.asked : ClientReplies(ask) \/ ClientCancels(ask)
BackendStep(b) ==
    \/ BackendReads(b) \/ BackendAsks(b)
    \/ \E call \in backend[b].held : BackendAsksFor(b, call) \/ BackendAnswers(b, call)

Next == LoopStep \/ ClientStep \/ \E b \in Backends : Deliver(b) \/ BackendStep(b)

Spec == Init /\ [][Next]_vars

\* The event loop runs what can run and timers fire; the client reads what it
\* is sent and replies to what it is asked; a backend reads what it is sent
\* and answers a call once it knows what it asked for.
Fairness ==
    /\ WF_vars(LoopStep)
    /\ WF_vars(ClientReads)
    /\ WF_vars(\E ask \in client.asked : ClientReplies(ask))
    /\ \A b \in Backends :
          /\ WF_vars(Deliver(b))
          /\ WF_vars(BackendReads(b))
          /\ WF_vars(\E call \in backend[b].held : BackendAnswers(b, call))

FairSpec == Spec /\ Fairness

(***************************************************************************)
(* Properties                                                              *)
(***************************************************************************)
Requests == [kind : {"request"}, id : Nat, about : Origins]
Answers == [kind : {"answer", "stray"}, id : Calls]
Outcomes(S) == [kind : {"reply", "cancel"}, id : S, about : Origins]

\* The type of every variable.
TypeOK ==
    /\ inbox \in Seq([kind : {"call"}, id : Calls, backend : Backends] \union Outcomes(Nat))
    /\ outbox \in Seq(Requests \union Answers)
    /\ toBack \in [Backends -> Seq([kind : {"call"}, id : Calls] \union Outcomes(Asks))]
    /\ fromBack \in [Backends -> Seq([kind : {"request"}, id : Asks] \union [kind : {"answer"}, id : Calls])]
    /\ loop \in [pc : {"reading"}, call : {0}] \union [pc : {"waiting", "answered"}, call : Calls]
    /\ requestSeq \in Nat
    /\ requests \in [DOMAIN requests -> Origins] /\ DOMAIN requests \subseteq 1 .. requestSeq
    /\ client \in [calls : 0 .. MaxCalls, answers : Seq(Calls), asked : SUBSET Requests,
                   replied : SUBSET Requests, cancelled : SUBSET Requests]
    /\ backend \in [Backends -> [held : SUBSET [id : Calls, needs : Asks \union {0}],
                                 asks : 0 .. MaxAsks, settled : Seq(Asks)]]

\* What a backend is told about a request of its own is what the client said
\* about that very request: neither another backend's nor another request's
\* reply reaches it, though backends choose their ids independently
\* (_server_message mints an id, _route_client_reply restores the backend's).
RepliesGoHome ==
    \A b \in Backends : \A i \in DOMAIN toBack[b] :
        toBack[b][i].kind # "call" => toBack[b][i].about = <<b, toBack[b][i].id>>

\* A backend's request is settled once: the client's reply and cancellation
\* may cross, and the second finds no correlation (both handlers pop it).
SettledOnce ==
    \A b \in Backends :
        LET told == backend[b].settled IN
        /\ \A i, j \in DOMAIN told : told[i] = told[j] => i = j
        /\ \A i \in DOMAIN toBack[b] : toBack[b][i].kind # "call" =>
              /\ \A j \in DOMAIN told : told[j] # toBack[b][i].id
              /\ \A j \in DOMAIN toBack[b] :
                    toBack[b][j].kind # "call" /\ toBack[b][j].id = toBack[b][i].id => i = j

\* The client's calls are answered once each and in the order in which they
\* were made, late answers and timeouts notwithstanding (the loop is serial).
AnsweredInOrder == \A i \in DOMAIN client.answers : client.answers[i] = i

\* The proxy can route every reply that the client may still send: the
\* requests that are on their way to the client, or that it has neither
\* replied to nor cancelled, are correlated, each with its own backend.
CorrelationKept ==
    \A ask \in {outbox[i] : i \in {j \in DOMAIN outbox : outbox[j].kind = "request"}}
                  \union (client.asked \ (client.replied \union client.cancelled)) :
        ask.id \in DOMAIN requests /\ requests[ask.id] = ask.about

\* A reply to a backend's request reaches that backend ("restore the
\* backend's own id and send it back to that backend"): time and again, no
\* reply of the client's is still on its way.
ReplyArrives ==
    []<>(\A ask \in client.replied :
            \E i \in DOMAIN backend[ask.about[1]].settled :
                backend[ask.about[1]].settled[i] = ask.about[2])

\* Every call of the client is answered: time and again, none is open.
CallsAnswered == []<>(Len(client.answers) = client.calls)
=============================================================================
