-------------------------- MODULE StreamableSession --------------------------
(***************************************************************************)
(* One session of the Streamable HTTP server (src/serve_streamable.py:     *)
(* Session, make_handler, _serve_sse and the reload of serve).             *)
(*                                                                         *)
(* A session runs a ForwardRouter on two in-memory pipes.  Each HTTP       *)
(* request is handled by a task of its own; Session.lock lets one of them  *)
(* at a time write a message and, if it is a request, read one message     *)
(* back, which becomes the HTTP response.  DELETE takes no lock: it ends   *)
(* the router's input and gives it two seconds to finish.  What a backend  *)
(* sends of its own accord goes to Session.outbound, from which the GET    *)
(* streams of the session take it, each the next message.                  *)
(*                                                                         *)
(* SIGHUP replaces the configuration that sessions opened later run under; *)
(* a session reads it once, before its first await.                        *)
(*                                                                         *)
(* The router is reduced to what it reads and writes on the pipes: the     *)
(* handshake, one response per request in order, and, when backends have   *)
(* breakers, the list_changed of emit_if_surface_changed.  Its insides are *)
(* in RouteLoop, ListServing and BackendConn.                              *)
(***************************************************************************)
EXTENDS Integers, Sequences, FiniteSets

CONSTANTS
    Posts,       \* HTTP requests that carry the session id, each on its own task
    Streams,     \* GET requests that carry it
    Modes,       \* configurations: TRUE where backends have breakers
    MayFail,     \* whether a failure of a backend may end a strict router
    MaxEvents,   \* bound: messages that the backends send of their own accord
    MaxReloads   \* bound: reloads of the configuration

ASSUME FlagsAssumption == Modes \subseteq BOOLEAN /\ MayFail \in BOOLEAN /\ 0 \notin Posts
ASSUME SessionBounds == MaxEvents \in Nat /\ MaxReloads \in Nat

Opening == 0     \* the POST with which the client opens the session
Tasks == Posts \union {Opening}

Response(t) == [kind |-> "response", to |-> t]
Changed == [kind |-> "list_changed", to |-> Opening]
Refusal == [kind |-> "refusal", to |-> Opening]
Nothing == [kind |-> "nothing", to |-> Opening]

VARIABLES
    registered,  \* whether the session is in the server's table
    task,        \* the HTTP handlers: what each does and the answer it got
    lock,        \* Session.lock: its holder, then those waiting, in order
    c2r,         \* the pipe to the router
    eof,         \* whether that pipe was ended
    r2c,         \* the pipe from the router
    router,      \* the router's task
    dirty,       \* whether the set of available backends changed unannounced
    current,     \* the configuration that new sessions get: which it is, whether
                 \* backends have breakers, whether clients must authenticate
    resilient,   \* whether the backends of this session have breakers
    outbound,    \* Session.outbound: numbers of messages
    stream,      \* the GET requests: what each does, and the messages it got
    lost,        \* history: messages that a stream took for a client that had left
    events       \* number of messages that the backends sent

pipes == <<c2r, eof, r2c>>
conf  == <<current, resilient>>
sse   == <<outbound, stream, lost, events>>
vars  == <<registered, task, lock, pipes, router, dirty, conf, sse>>

Init ==
    /\ registered = FALSE
    /\ task = [t \in Tasks |-> [pc |-> "unsent", kind |-> "none", got |-> Nothing]]
    /\ lock = <<>>
    /\ c2r = <<>> /\ eof = FALSE /\ r2c = <<>>
    /\ router = [pc |-> "none", call |-> Opening]
    /\ dirty = FALSE
    /\ current \in [doc : {0}, resilient : Modes, auth : BOOLEAN]
    /\ resilient = FALSE
    /\ outbound = <<>> /\ lost = {} /\ events = 0
    /\ stream = [s \in Streams |-> [pc |-> "unsent", gone |-> FALSE, got |-> <<>>]]

Alive == router.pc \notin {"none", "ended", "failed"}
IsRequest(t) == task[t].kind \in {"initialize", "call"}

(***************************************************************************)
(* HTTP handlers                                                           *)
(***************************************************************************)
\* The first POST: the client is authorized, and the session is given the
\* configuration of that moment.
Initialize(valid) ==
    /\ task[Opening].pc = "unsent"
    /\ IF current.auth /\ ~valid
       THEN /\ task' = [task EXCEPT ![Opening] = [pc |-> "done", kind |-> "initialize", got |-> Refusal]]
            /\ UNCHANGED resilient
       ELSE /\ task' = [task EXCEPT ![Opening] = [@ EXCEPT !.pc = "connecting", !.kind = "initialize"]]
            /\ resilient' = current.resilient
    /\ UNCHANGED <<registered, lock, pipes, router, dirty, current, sse>>

Started == /\ registered' = TRUE
           /\ task' = [task EXCEPT ![Opening].pc = "queued"]
           /\ lock' = <<Opening>>
           /\ router' = [router EXCEPT !.pc = "opening"]

\* Session.create: a backend of which no address answers is left out, or ends
\* the HTTP connection.
Connect ==
    /\ task[Opening].pc = "connecting"
    /\ \/ Started
       \/ /\ ~resilient
          /\ task' = [task EXCEPT ![Opening].pc = "broken"]
          /\ UNCHANGED <<registered, lock, router>>
    /\ UNCHANGED <<pipes, dirty, conf, sse>>

\* SIGHUP with a valid document.
Reload ==
    /\ current.doc < MaxReloads
    /\ current' \in [doc : {current.doc + 1}, resilient : Modes, auth : BOOLEAN]
    /\ UNCHANGED <<registered, task, lock, pipes, router, dirty, resilient, sse>>

\* The client has the session id once the opening POST was answered; a
\* message for a session that is gone gets 400.
Post(t, kind) ==
    /\ task[t].pc = "unsent" /\ task[Opening].pc = "done"
    /\ IF registered
       THEN /\ task' = [task EXCEPT ![t] = [@ EXCEPT !.pc = "queued", !.kind = kind]]
            /\ lock' = Append(lock, t)
       ELSE /\ task' = [task EXCEPT ![t] = [pc |-> "done", kind |-> kind, got |-> Refusal]]
            /\ UNCHANGED lock
    /\ UNCHANGED <<registered, c2r, eof, r2c, router, dirty, conf, sse>>

\* Whoever's turn it is (the wait queue of asyncio.Lock is FIFO).
Turn_Anyone(t) ==   \* mutant: the lock is not waited for
    \E i \in DOMAIN lock : lock[i] = t
Turn(t) == lock # <<>> /\ Head(lock) = t
Released == Tail(lock)

\* The holder writes its message.  A notification is done; a write after the
\* end of the pipe raises, which ends the HTTP connection.
Send(t) ==
    /\ task[t].pc = "queued" /\ Turn(t)
    /\ IF eof
       THEN /\ task' = [task EXCEPT ![t].pc = "broken"]
            /\ lock' = Released /\ UNCHANGED c2r
       ELSE /\ c2r' = Append(c2r, t)
            /\ task' = [task EXCEPT ![t].pc = IF IsRequest(t) THEN "receiving" ELSE "done"]
            /\ lock' = IF IsRequest(t) THEN lock ELSE Released
    /\ UNCHANGED <<registered, eof, r2c, router, dirty, conf, sse>>

\* A request takes the next message of the router for its response.
Receive(t) ==
    /\ task[t].pc = "receiving" /\ r2c # <<>>
    /\ task' = [task EXCEPT ![t] = [@ EXCEPT !.pc = "done", !.got = Head(r2c)]]
    /\ r2c' = Tail(r2c)
    /\ lock' = Released
    /\ UNCHANGED <<registered, c2r, eof, router, dirty, conf, sse>>

\* DELETE: the session leaves the table and the router's input ends.
Delete(t) ==
    /\ task[t].pc = "unsent" /\ task[Opening].pc = "done"
    /\ task' = [task EXCEPT ![t] = [@ EXCEPT !.pc = IF registered THEN "closing" ELSE "done", !.kind = "delete"]]
    /\ registered' = FALSE
    /\ eof' = (eof \/ registered)
    /\ UNCHANGED <<lock, c2r, r2c, router, dirty, conf, sse>>

Close_Locked(t) ==   \* mutant: close() takes the session's lock first
    /\ task[t].pc = "closing" /\ lock = <<>>
    /\ task' = [task EXCEPT ![t].pc = "done"]
    /\ router' = IF Alive THEN [router EXCEPT !.pc = "ended"] ELSE router
    /\ UNCHANGED <<registered, lock, c2r, eof, r2c, dirty, conf, sse>>

\* close() returns when the router has ended, or cancels it after 2 seconds.
Close(t) ==
    /\ task[t].pc = "closing"
    /\ task' = [task EXCEPT ![t].pc = "done"]
    /\ router' = IF Alive THEN [router EXCEPT !.pc = "ended"] ELSE router
    /\ UNCHANGED <<registered, lock, c2r, eof, r2c, dirty, conf, sse>>

(***************************************************************************)
(* The router                                                              *)
(***************************************************************************)
Took == c2r' = Tail(c2r)

\* The handshake: the backends are initialized, then the client is answered.
Open ==
    /\ router.pc = "opening" /\ c2r # <<>> /\ Took
    /\ \/ /\ router' = [router EXCEPT !.pc = "opened"]
          /\ r2c' = Append(r2c, Response(Head(c2r)))
       \/ /\ MayFail /\ ~resilient
          /\ router' = [router EXCEPT !.pc = "failed"]
          /\ UNCHANGED r2c
    /\ UNCHANGED <<registered, task, lock, eof, dirty, conf, sse>>

\* The next message is taken for notifications/initialized, whatever it is.
Opened ==
    /\ router.pc = "opened" /\ (c2r # <<>> \/ eof)
    /\ c2r' = IF c2r = <<>> THEN c2r ELSE Tail(c2r)
    /\ router' = [router EXCEPT !.pc = "reading"]
    /\ UNCHANGED <<registered, task, lock, eof, r2c, dirty, conf, sse>>

\* The route loop: a call is awaited, a notification forwarded.  The loop reads
\* nothing while it awaits a call.
Read ==
    /\ router.pc = "reading" /\ c2r # <<>> /\ Took
    /\ router' = IF IsRequest(Head(c2r)) THEN [pc |-> "calling", call |-> Head(c2r)] ELSE router
    /\ UNCHANGED <<registered, task, lock, eof, r2c, dirty, conf, sse>>

EndOfInput ==
    /\ router.pc = "reading" /\ c2r = <<>> /\ eof
    /\ router' = [router EXCEPT !.pc = "ended"]
    /\ UNCHANGED <<registered, task, lock, c2r, eof, r2c, dirty, conf, sse>>

\* The call is answered, and a changed surface announced after it.  A backend
\* that waits for the client first is given up by the timeout, if there is one.
Answer ==
    /\ router.pc = "calling" \/ (router.pc = "asking" /\ resilient)
    /\ r2c' = r2c \o (IF dirty THEN <<Response(router.call), Changed>> ELSE <<Response(router.call)>>)
    /\ dirty' = FALSE
    /\ router' = [router EXCEPT !.pc = "reading"]
    /\ UNCHANGED <<registered, task, lock, c2r, eof, conf, sse>>

\* In strict mode a backend's failure is raised out of the loop.
CallFails ==
    /\ router.pc \in {"calling", "asking"} /\ MayFail /\ ~resilient
    /\ router' = [router EXCEPT !.pc = "failed"]
    /\ UNCHANGED <<registered, task, lock, c2r, eof, r2c, dirty, conf, sse>>

\* A breaker opens or recovers; the health loop may announce it.
SurfaceChanges ==
    /\ resilient /\ router.pc \in {"reading", "calling", "asking"} /\ ~dirty
    /\ Len(r2c) < 2
    /\ dirty' = TRUE
    /\ UNCHANGED <<registered, task, lock, c2r, eof, r2c, router, conf, sse>>

Announce ==
    /\ dirty /\ router.pc \in {"reading", "calling", "asking"}
    /\ r2c' = Append(r2c, Changed)
    /\ dirty' = FALSE
    /\ UNCHANGED <<registered, task, lock, c2r, eof, router, conf, sse>>

(***************************************************************************)
(* What the backends send of their own accord, and the GET streams         *)
(***************************************************************************)
\* A notification or a request of a backend, which the backend's reader puts
\* into the queue; the readers outlive a router that failed.
Event ==
    /\ events < MaxEvents /\ router.pc \in {"opened", "reading", "calling", "asking", "failed"}
    /\ events' = events + 1
    /\ outbound' = Append(outbound, events + 1)
    \* It may be a request that the backend wants answered before the call.
    /\ \/ UNCHANGED router
       \/ router.pc = "calling" /\ router' = [router EXCEPT !.pc = "asking"]
    /\ UNCHANGED <<registered, task, lock, pipes, dirty, conf, stream, lost>>

Get(s) ==
    /\ stream[s].pc = "unsent" /\ task[Opening].pc = "done"
    /\ stream' = [stream EXCEPT ![s].pc = IF registered THEN "open" ELSE "refused"]
    /\ UNCHANGED <<registered, task, lock, pipes, router, dirty, conf, outbound, lost, events>>

\* The client leaves; the task learns of it from a write, if at all.
Leave(s) ==
    /\ stream[s].pc = "open" /\ ~stream[s].gone
    /\ stream' = [stream EXCEPT ![s].gone = TRUE]
    /\ UNCHANGED <<registered, task, lock, pipes, router, dirty, conf, outbound, lost, events>>

Take_PutsBack(s) ==   \* mutant: a message that could not be written goes back into the queue
    /\ stream[s].pc = "open" /\ outbound # <<>>
    /\ outbound' = IF stream[s].gone THEN Append(Tail(outbound), Head(outbound)) ELSE Tail(outbound)
    /\ stream' = IF stream[s].gone THEN [stream EXCEPT ![s].pc = "closed"]
                 ELSE [stream EXCEPT ![s].got = Append(@, Head(outbound))]
    /\ UNCHANGED <<registered, task, lock, pipes, router, dirty, conf, lost, events>>

\* A stream takes the next message and writes it.  The first writes after the
\* client left succeed.
Take(s) ==
    /\ stream[s].pc = "open" /\ outbound # <<>>
    /\ outbound' = Tail(outbound)
    /\ IF stream[s].gone
       THEN /\ lost' = lost \union {Head(outbound)}
            /\ \E pc \in {"open", "closed"} : stream' = [stream EXCEPT ![s].pc = pc]
       ELSE /\ stream' = [stream EXCEPT ![s].got = Append(@, Head(outbound))]
            /\ UNCHANGED lost
    /\ UNCHANGED <<registered, task, lock, pipes, router, dirty, conf, events>>

\* Nothing to send for 15 seconds: the comment that is sent instead may find
\* the client gone.
Keepalive(s) ==
    /\ stream[s].pc = "open" /\ stream[s].gone /\ outbound = <<>>
    /\ stream' = [stream EXCEPT ![s].pc = "closed"]
    /\ UNCHANGED <<registered, task, lock, pipes, router, dirty, conf, outbound, lost, events>>

HandlerStep(t) == Send(t) \/ Receive(t) \/ Close(t) \/ (t = Opening /\ Connect)
RouterStep == Open \/ Opened \/ Read \/ EndOfInput \/ Answer \/ CallFails \/ Announce
ClientStep(t) == Post(t, "call") \/ Post(t, "note") \/ Delete(t)
StreamStep(s) == Get(s) \/ Leave(s) \/ Take(s) \/ Keepalive(s)

Next ==
    \/ \E valid \in BOOLEAN : Initialize(valid)
    \/ Reload
    \/ Event
    \/ \E s \in Streams : StreamStep(s)
    \/ \E t \in Posts : ClientStep(t)
    \/ \E t \in Tasks : HandlerStep(t)
    \/ RouterStep
    \/ SurfaceChanges

Spec == Init /\ [][Next]_vars

\* The event loop runs what can run, the two seconds of close() pass, and
\* the backends let the router answer a call, or fail.
FairSpec == Spec /\ WF_vars(RouterStep) /\ \A t \in Tasks : WF_vars(HandlerStep(t))

(***************************************************************************)
(* Properties                                                              *)
(***************************************************************************)
Messages == {Response(t) : t \in Tasks} \union {Changed}
Results == Messages \union {Nothing, Refusal}

\* The type of every variable (the fields of Session, the pipes of its router,
\* and what the HTTP handlers hold).
TypeOK ==
    /\ registered \in BOOLEAN /\ eof \in BOOLEAN /\ dirty \in BOOLEAN
    /\ task \in [Tasks -> [pc : {"unsent", "connecting", "queued", "receiving", "closing", "done", "broken"},
                           kind : {"none", "initialize", "call", "note", "delete"},
                           got : Results]]
    /\ lock \in Seq(Tasks) /\ c2r \in Seq(Tasks) /\ r2c \in Seq(Messages)
    /\ router \in [pc : {"none", "opening", "opened", "reading", "calling", "asking", "ended", "failed"},
                   call : Tasks]
    /\ current \in [doc : 0..MaxReloads, resilient : Modes, auth : BOOLEAN]
    /\ resilient \in BOOLEAN
    /\ events \in 0..MaxEvents
    /\ outbound \in Seq(1..MaxEvents) /\ lost \subseteq 1..MaxEvents
    /\ stream \in [Streams -> [pc : {"unsent", "open", "closed", "refused"}, gone : BOOLEAN,
                               got : Seq(1..MaxEvents)]]

\* The response that an HTTP request gets is the router's response to its own
\* message, not to another's and no notification (Session.request pairs them
\* by order alone; "the client transport carries only responses").
AnswerMatches ==
    \A t \in Tasks : task[t].got.kind \notin {"nothing", "refusal"} => task[t].got = Response(t)

\* Without breakers that holds, however many POSTs overlap, whichever of them
\* are notifications, and whether a DELETE ends the session under them.
StrictAnswerMatches == ~resilient => AnswerMatches

\* DELETE is answered, whatever the requests before it wait for.
DeleteEnds == \A t \in Tasks : (task[t].kind = "delete") ~> (task[t].pc = "done")

Given == UNION {{stream[s].got[i] : i \in DOMAIN stream[s].got} : s \in Streams}

\* A message of a backend reaches at most one of the session's streams, and
\* each stream gets its share in the order in which they were sent; none is
\* missing but those that a stream took whose client had left.
EventsOnce ==
    /\ Given \union lost \union {outbound[i] : i \in DOMAIN outbound} = 1..events
    /\ \A s \in Streams : \A i, j \in DOMAIN stream[s].got : i < j => stream[s].got[i] < stream[s].got[j]
    /\ \A s, o \in Streams : s # o => \A i \in DOMAIN stream[s].got, j \in DOMAIN stream[o].got :
                                        stream[s].got[i] # stream[o].got[j]

\* "Requests get a JSON response": a request that was written is answered.
RequestsAnswered == \A t \in Tasks : (task[t].pc = "receiving") ~> (task[t].pc = "done")
=============================================================================
