---------------------------- MODULE BackendConn ----------------------------
(* One Backend of yamp/router.py: the connection the route loop and the     *)
(* health pingers share, its demuxing read loop, the breaker its requests   *)
(* feed, and the start and end of its life in ForwardRouter.serve. The      *)
(* process behind the connection is the environment: it serves what it      *)
(* reads, answers in any order or never, sends messages of its own, sends   *)
(* a line that does not decode, stops reading, and dies.                    *)
EXTENDS CircuitBreaker, Sequences, FiniteSets

CONSTANTS Callers,      \* the tasks that call Backend.request
          RouteLoop,    \* the one of them that is the client's route loop
          HasBreaker,   \* Backend(breaker=...): resilient mode
          HasTimeout,   \* Backend(request_timeout=...)
          ServerIds,    \* the ids the backend gives to its own requests
          Faults,       \* what the environment may do wrong
          HighWater,    \* messages the transport buffers before a drain waits
          MaxRequests,  \* bound on the requests of one connection
          MaxQueue,     \* bound on the messages in flight each way
          MaxTime       \* bound on the clock

ASSUME CallersAssumption == RouteLoop \in Callers
ASSUME ModeAssumption == HasBreaker \in BOOLEAN /\ HasTimeout \in BOOLEAN
ASSUME BoundsAssumption == MaxRequests \in Nat /\ MaxQueue \in Nat /\ MaxTime \in Nat
ASSUME HighWaterAssumption == HighWater \in Nat
ASSUME ServerIdsAssumption == ServerIds \subseteq 0..MaxRequests
ASSUME FaultsAssumption == Faults \subseteq {"crash", "garbage", "sink"}

Pingers == Callers \ {RouteLoop}

(* The ids f"{self.id}-{n}" are their numbers n; NoId stands for a message  *)
(* without an id, or with one that no Backend.request ever minted.          *)
NoId == 0
Ids == 1..MaxRequests

MessageKind == {"response", "request", "notification", "garbage"}
Message == [kind : MessageKind, id : Ids \cup {NoId}]

(* A future is unresolved, holds the message that resolved it, or an        *)
(* exception: cancelled by wait_for's timer, or failed by a reader's end.   *)
Future == [kind : {"none", "waiting", "expired", "closed"} \cup MessageKind,
           id : Ids \cup {NoId}]
NoMessage(kind) == [kind |-> kind, id |-> NoId]
Raised == {"expired", "closed"}

VARIABLES
  now,        \* the clock the breaker reads
  breaker,    \* self.breaker
  next_id,    \* self._next_id
  pending,    \* the keys of self._pending
  future,     \* the future created for each id
  reader,     \* the read loop: "reading", "delivering" (in the sink), "stopped"
  lock,       \* self._send_lock: its holder, then its waiters in order
  phase,      \* ForwardRouter.serve: handshaking, serving, closed, dead
  joined,     \* whether the handshake added this backend's capabilities
  pc,         \* where each caller stands in request() or send_message()
  cur,        \* the id of its request; NoId for send_message()
  to_backend, \* ids written to the backend and not yet read by it
  to_proxy,   \* messages written by the backend and not yet read
  link,       \* "up", or "down" once the backend is gone
  working,    \* requests the backend has read and not answered
  executed,   \* history: how often the backend has read each request
  sink,       \* history: every message handed to the sink set by start()
  outcome,    \* history: what request() gave its caller, for each id
  streak      \* history: requests that raised since the last that returned

conn    == <<next_id, pending, future, reader>>
callers == <<lock, pc, cur>>
life    == <<phase, joined>>
env     == <<to_backend, to_proxy, link, working, executed>>
history == <<sink, outcome, streak>>
vars    == <<now, breaker, conn, callers, life, env, history>>

Init ==
  /\ now = 0
  /\ breaker = NewBreaker
  /\ next_id = 0
  /\ pending = {}
  /\ future = [i \in Ids |-> NoMessage("none")]
  /\ reader = "reading"
  /\ lock = <<>>
  /\ phase = "handshaking"
  /\ joined = FALSE
  /\ pc = [c \in Callers |-> "idle"]
  /\ cur = [c \in Callers |-> NoId]
  /\ to_backend = <<>>
  /\ to_proxy = <<>>
  /\ link = "up"
  /\ working = {}
  /\ executed = [i \in Ids |-> 0]
  /\ sink = {}
  /\ outcome = [i \in Ids |-> "none"]
  /\ streak = 0

-----------------------------------------------------------------------------
(* Recording an outcome is a no-op for a backend without a breaker.         *)
Failed(b)    == IF HasBreaker THEN RecordFailure(b, now) ELSE b
Succeeded(b) == IF HasBreaker THEN RecordSuccess(b) ELSE b

(* request(), up to the lock: mint the id, register its future, queue.      *)
Register(c) ==
  /\ next_id < MaxRequests
  /\ next_id' = next_id + 1
  /\ pending' = pending \cup {next_id'}
  /\ future' = [future EXCEPT ![next_id'] = NoMessage("waiting")]
  /\ cur' = [cur EXCEPT ![c] = next_id']
  /\ lock' = Append(lock, c)
  /\ pc' = [pc EXCEPT ![c] = "locking"]
  /\ UNCHANGED <<now, reader, life, env, history>>

(* Backend.handshake: the first request, whatever the breaker says.         *)
StartHandshake ==
  /\ phase = "handshaking" /\ pc[RouteLoop] = "idle"
  /\ Register(RouteLoop)
  /\ UNCHANGED breaker

(* The route loop asks available() before it forwards. A fan-out puts the   *)
(* request in a task of its own (gather), which starts at a later turn of   *)
(* the event loop: the check and the request are two steps.                 *)
Admit ==
  /\ phase = "serving" /\ pc[RouteLoop] = "idle"
  /\ ~HasBreaker \/ Allow(breaker, now)
  /\ breaker' = Refresh(breaker, now)
  /\ pc' = [pc EXCEPT ![RouteLoop] = "admitted"]
  /\ UNCHANGED <<now, conn, lock, cur, life, env, history>>

StartRequest ==
  /\ pc[RouteLoop] = "admitted"
  /\ Register(RouteLoop)
  /\ UNCHANGED breaker

(* _health_check_once: a ping is sent whatever the breaker says, and as     *)
(* long as the health loop runs, which may outlive serve (see Close). The   *)
(* health loops exist in resilient mode only.                               *)
StartPing(c) ==
  /\ HasBreaker /\ phase \in {"serving", "closed"} /\ pc[c] = "idle"
  /\ Register(c)
  /\ UNCHANGED breaker

(* send_message, by which the route loop relays a client's notification or  *)
(* its reply to a backend's request: no id, no future, no breaker.          *)
StartRelay ==
  /\ phase = "serving" /\ pc[RouteLoop] = "idle"
  /\ Len(to_backend) < MaxQueue
  /\ cur' = [cur EXCEPT ![RouteLoop] = NoId]
  /\ lock' = Append(lock, RouteLoop)
  /\ pc' = [pc EXCEPT ![RouteLoop] = "locking"]
  /\ UNCHANGED <<now, breaker, conn, life, env, history>>

(* What is written to a backend that is gone, or after send_eof, is lost.   *)
Writable == link = "up" /\ phase # "closed"

BeginSend_NoLock(c) ==   \* mutant: the lock is not waited for
  /\ pc[c] = "locking"
  /\ pc' = [pc EXCEPT ![c] = "sending"]
  /\ to_backend' = IF Writable THEN Append(to_backend, cur[c]) ELSE to_backend
  /\ UNCHANGED <<now, breaker, conn, lock, cur, life, to_proxy, link, working, executed, history>>

BeginSend_Resend(c) ==   \* mutant: the request is written a second time
  /\ pc[c] = "locking" /\ lock # <<>> /\ Head(lock) = c
  /\ pc' = [pc EXCEPT ![c] = "sending"]
  /\ to_backend' = IF Writable THEN to_backend \o <<cur[c], cur[c]>> ELSE to_backend
  /\ UNCHANGED <<now, breaker, conn, lock, cur, life, to_proxy, link, working, executed, history>>

(* The lock is acquired and the transport writes.                           *)
BeginSend(c) ==
  /\ pc[c] = "locking" /\ lock # <<>> /\ Head(lock) = c
  /\ pc' = [pc EXCEPT ![c] = "sending"]
  /\ to_backend' = IF Writable THEN Append(to_backend, cur[c]) ELSE to_backend
  /\ UNCHANGED <<now, breaker, conn, lock, cur, life, to_proxy, link, working, executed, history>>

(* The write is over when the transport has drained (WriterEnd.write), for  *)
(* which the backend must have read: the caller waits under the lock, and   *)
(* before the timer of wait_for is set. A lost connection wakes it.         *)
EndSend(c) ==
  /\ pc[c] = "sending" /\ Len(to_backend) <= HighWater
  /\ lock' = Tail(lock)
  /\ pc' = [pc EXCEPT ![c] = IF cur[c] = NoId THEN "idle" ELSE "awaiting"]
  /\ UNCHANGED <<now, breaker, conn, cur, life, env, history>>

(* What request() raising does to its caller, once the breaker is b. In the *)
(* handshake the failure is recorded (again) and the backend is left out;   *)
(* a ping's failure is swallowed; a routed request is answered with an      *)
(* error. Without a breaker the exception ends the router.                  *)
Raise(c, b) ==
  /\ breaker' = IF phase = "handshaking" THEN Failed(b) ELSE b
  /\ phase' = IF c # RouteLoop THEN phase
              ELSE IF HasBreaker THEN "serving" ELSE "dead"
  /\ pc' = [pc EXCEPT ![c] = IF phase' = "dead" THEN "gone" ELSE "idle"]
  /\ outcome' = [outcome EXCEPT ![cur[c]] = "error"]
  /\ streak' = streak + 1
  /\ UNCHANGED <<joined, sink>>

FailSend_KeepsLock(c) ==   \* mutant: a send that raises does not release the lock
  /\ pc[c] = "sending" /\ ~Writable /\ cur[c] # NoId
  /\ Raise(c, breaker)
  /\ UNCHANGED <<now, conn, lock, cur, env>>

(* The transport's send raises, outside request()'s try block: nothing is   *)
(* recorded and the future stays registered. send_message's failure is      *)
(* swallowed by _send_to_backend.                                           *)
FailSend(c) ==
  /\ pc[c] = "sending" /\ ~Writable
  /\ lock' = Tail(lock)
  /\ \/ /\ cur[c] = NoId
        /\ pc' = [pc EXCEPT ![c] = "idle"]
        /\ UNCHANGED <<breaker, life, history>>
     \/ /\ cur[c] # NoId
        /\ Raise(c, breaker)
  /\ UNCHANGED <<now, conn, cur, env>>

Expire_Untyped(c) ==   \* mutant: the cancelled future is left in no known state
  /\ HasTimeout /\ pc[c] = "awaiting"
  /\ future[cur[c]].kind \notin Raised
  /\ future' = [future EXCEPT ![cur[c]] = NoMessage("cancelled")]
  /\ UNCHANGED <<now, breaker, next_id, pending, reader, callers, life, env, history>>

(* wait_for's timer. It cancels the future; the read loop may still find it *)
(* registered until the caller runs. From Python 3.12 on the timer also     *)
(* beats a future that was resolved in the same turn of the event loop.     *)
Expire(c) ==
  /\ HasTimeout /\ pc[c] = "awaiting"
  /\ future[cur[c]].kind \notin Raised
  /\ future' = [future EXCEPT ![cur[c]] = NoMessage("expired")]
  /\ UNCHANGED <<now, breaker, next_id, pending, reader, callers, life, env, history>>

(* The awaited future holds a message: request() records the success and    *)
(* returns it.                                                              *)
Succeed(c) ==
  /\ breaker' = Succeeded(breaker)
  /\ pc' = [pc EXCEPT ![c] = "idle"]
  /\ outcome' = [outcome EXCEPT ![cur[c]] = "ok"]
  /\ streak' = 0
  /\ UNCHANGED sink

Return(c) ==
  /\ pc[c] = "awaiting" /\ future[cur[c]].kind \in MessageKind
  /\ phase # "handshaking"
  /\ Succeed(c)
  /\ UNCHANGED <<now, conn, lock, cur, life, env>>

(* The same in the handshake, which goes on to send                         *)
(* notifications/initialized; that send, too, may raise. It need not wait:  *)
(* a backend that has answered initialize has emptied the transport.        *)
FinishHandshake(c) ==
  /\ pc[c] = "awaiting" /\ future[cur[c]].kind \in MessageKind
  /\ phase = "handshaking"
  /\ \/ /\ Succeed(c)
        /\ phase' = "serving"
        /\ joined' = TRUE
        /\ to_backend' = IF link = "up" THEN Append(to_backend, NoId) ELSE to_backend
     \/ /\ link = "down"
        /\ Raise(c, Succeeded(breaker))
        /\ UNCHANGED to_backend
  /\ UNCHANGED <<now, conn, lock, cur, to_proxy, link, working, executed>>

Reraise_ClearsAll(c) ==   \* mutant: one timeout empties the registry
  /\ pc[c] = "awaiting" /\ future[cur[c]].kind \in Raised
  /\ pending' = {}
  /\ Raise(c, Failed(breaker))
  /\ UNCHANGED <<now, next_id, future, reader, lock, cur, env>>

Reraise_CountsTwice(c) ==   \* mutant: request() and its caller both record
  /\ pc[c] = "awaiting" /\ future[cur[c]].kind \in Raised
  /\ pending' = pending \ {cur[c]}
  /\ Raise(c, Failed(Failed(breaker)))
  /\ UNCHANGED <<now, next_id, future, reader, lock, cur, env>>

(* The awaited future raises: request() forgets it, records the failure and *)
(* re-raises.                                                               *)
Reraise(c) ==
  /\ pc[c] = "awaiting" /\ future[cur[c]].kind \in Raised
  /\ pending' = pending \ {cur[c]}
  /\ Raise(c, Failed(breaker))
  /\ UNCHANGED <<now, next_id, future, reader, lock, cur, env>>

-----------------------------------------------------------------------------
Resolve_InOrder ==   \* mutant: answers are taken to arrive in the order of requests
  LET m == Head(to_proxy)
      oldest == CHOOSE i \in pending : \A j \in pending : i <= j IN
  /\ reader = "reading" /\ to_proxy # <<>>
  /\ m.kind # "garbage" /\ m.id \in pending
  /\ to_proxy' = Tail(to_proxy)
  /\ pending' = pending \ {oldest}
  /\ future' = [future EXCEPT ![oldest] = m]
  /\ UNCHANGED <<now, breaker, next_id, reader, callers, life,
                 to_backend, link, working, executed, history>>

(* The read loop. Only the id decides: a registered one takes the message,  *)
(* into its future if nobody resolved or cancelled that first.              *)
Resolve ==
  LET m == Head(to_proxy) IN
  /\ reader = "reading" /\ to_proxy # <<>>
  /\ m.kind # "garbage" /\ m.id \in pending
  /\ to_proxy' = Tail(to_proxy)
  /\ pending' = pending \ {m.id}
  /\ future' = IF future[m.id].kind = "waiting"
                 THEN [future EXCEPT ![m.id] = m]
                 ELSE future
  /\ UNCHANGED <<now, breaker, next_id, reader, callers, life,
                 to_backend, link, working, executed, history>>

(* Any other message goes to the sink, and the loop waits for the sink.     *)
Deliver ==
  LET m == Head(to_proxy) IN
  /\ reader = "reading" /\ to_proxy # <<>>
  /\ m.kind # "garbage" /\ m.id \notin pending
  /\ to_proxy' = Tail(to_proxy)
  /\ reader' = "delivering"
  /\ sink' = sink \cup {m}
  /\ UNCHANGED <<now, breaker, next_id, pending, future, callers, life,
                 to_backend, link, working, executed, outcome, streak>>

Delivered ==
  /\ reader = "delivering"
  /\ reader' = "reading"
  /\ UNCHANGED <<now, breaker, next_id, pending, future, callers, life, env, history>>

StopReader_ClearsFirst ==   \* mutant: the registry is emptied before it is failed
  /\ reader' = "stopped"
  /\ pending' = {}
  /\ UNCHANGED <<future, next_id>>

(* The finally block: every unresolved future that is still registered      *)
(* fails, and the registry is emptied.                                      *)
StopReader ==
  /\ reader' = "stopped"
  /\ pending' = {}
  /\ future' = [i \in Ids |-> IF i \in pending /\ future[i].kind = "waiting"
                                THEN NoMessage("closed")
                                ELSE future[i]]
  /\ UNCHANGED next_id

(* The loop ends: at the end of the stream, on a line that does not decode, *)
(* or on an exception out of the sink.                                      *)
EndReader ==
  /\ \/ reader = "reading" /\ link = "down" /\ to_proxy = <<>>
     \/ reader = "reading" /\ to_proxy # <<>> /\ Head(to_proxy).kind = "garbage"
     \/ reader = "delivering" /\ "sink" \in Faults
  /\ StopReader
  /\ UNCHANGED <<now, breaker, callers, life, env, history>>

(* The end of serve: the client is gone and the route loop has returned;    *)
(* the pingers and then the reader are cancelled. A cancelled task unwinds  *)
(* at its next turn and runs no step of its own before that, with one       *)
(* exception: up to Python 3.11, wait_for swallows the cancellation of a    *)
(* caller whose future is done, so that pinger goes on (Survives).          *)
Survives(c) == HasTimeout /\ pc[c] = "awaiting" /\ future[cur[c]].kind \in MessageKind \cup {"closed"}

Close ==
  /\ phase = "serving" /\ pc[RouteLoop] = "idle"
  /\ phase' = "closed"
  /\ \E S \in SUBSET {c \in Pingers : Survives(c)} :
        pc' = [c \in Callers |-> IF c \in S THEN "awaiting" ELSE "gone"]
  /\ lock' = <<>>
  /\ StopReader
  /\ UNCHANGED <<now, breaker, cur, joined, env, history>>

-----------------------------------------------------------------------------
(* The environment.                                                         *)
Tick ==
  /\ now < MaxTime
  /\ now' = now + 1
  /\ UNCHANGED <<breaker, conn, callers, life, env, history>>

Serve ==
  /\ link = "up" /\ to_backend # <<>>
  /\ to_backend' = Tail(to_backend)
  /\ IF Head(to_backend) = NoId
       THEN UNCHANGED <<working, executed>>
       ELSE /\ working' = working \cup {Head(to_backend)}
            /\ executed' = [executed EXCEPT ![Head(to_backend)] = @ + 1]
  /\ UNCHANGED <<now, breaker, conn, callers, life, to_proxy, link, history>>

Answer(i) ==
  /\ link = "up" /\ i \in working
  /\ working' = working \ {i}
  /\ to_proxy' = Append(to_proxy, [kind |-> "response", id |-> i])
  /\ UNCHANGED <<now, breaker, conn, callers, life, to_backend, link, executed, history>>

Speak ==
  /\ link = "up" /\ Len(to_proxy) < MaxQueue
  /\ \E m \in {NoMessage("notification")}
              \cup [kind : {"request"}, id : ServerIds]
              \cup (IF "garbage" \in Faults THEN {NoMessage("garbage")} ELSE {}) :
        to_proxy' = Append(to_proxy, m)
  /\ UNCHANGED <<now, breaker, conn, callers, life, to_backend, link, working, executed, history>>

Crash ==
  /\ "crash" \in Faults /\ link = "up"
  /\ link' = "down"
  /\ to_backend' = <<>>
  /\ working' = {}
  /\ UNCHANGED <<now, breaker, conn, callers, life, to_proxy, executed, history>>

-----------------------------------------------------------------------------
CallerStep(c) == BeginSend(c) \/ EndSend(c) \/ FailSend(c) \/ Expire(c)
                   \/ Return(c) \/ FinishHandshake(c) \/ Reraise(c)

ReaderStep == Resolve \/ Deliver \/ Delivered \/ EndReader

Next ==
  \/ StartHandshake \/ Admit \/ StartRequest \/ StartRelay
  \/ \E c \in Pingers : StartPing(c)
  \/ \E c \in Callers : CallerStep(c)
  \/ ReaderStep
  \/ Close
  \/ Tick \/ Serve \/ Speak \/ Crash
  \/ \E i \in Ids : Answer(i)

Spec == Init /\ [][Next]_vars

(* The event loop runs every task that can run. Nothing obliges the backend *)
(* to read or to answer, and nobody to send a request.                      *)
Fairness == /\ WF_vars(StartHandshake) /\ WF_vars(StartRequest) /\ WF_vars(ReaderStep)
            /\ \A c \in Callers : WF_vars(CallerStep(c))

FairSpec == Spec /\ Fairness

-----------------------------------------------------------------------------
InRequest(c) == pc[c] \in {"locking", "sending", "awaiting"} /\ cur[c] # NoId

(* Every variable holds a value of its kind.                                *)
TypeOK ==
  /\ now \in Nat
  /\ breaker \in Breaker
  /\ next_id \in 0..MaxRequests
  /\ pending \subseteq Ids
  /\ future \in [Ids -> Future]
  /\ reader \in {"reading", "delivering", "stopped"}
  /\ lock \in Seq(Callers)
  /\ phase \in {"handshaking", "serving", "closed", "dead"}
  /\ joined \in BOOLEAN
  /\ pc \in [Callers -> {"idle", "admitted", "locking", "sending", "awaiting", "gone"}]
  /\ cur \in [Callers -> Ids \cup {NoId}]
  /\ to_backend \in Seq(Ids \cup {NoId})
  /\ to_proxy \in Seq(Message)
  /\ link \in {"up", "down"}
  /\ working \subseteq Ids
  /\ executed \in [Ids -> Nat]
  /\ sink \subseteq Message
  /\ outcome \in [Ids -> {"none", "ok", "error"}]
  /\ streak \in Nat

(* The lock's queue: whoever is writing holds it.                           *)
LockOrder ==
  \A c \in Callers : pc[c] = "sending" => lock # <<>> /\ Head(lock) = c

(* Two tasks never write to one backend at once, so the bytes of a ping and *)
(* of a routed call are not interleaved (_send_lock in request and          *)
(* send_message), also after a send has raised.                             *)
WritesExclusive ==
  \A c, d \in Callers : pc[c] = "sending" /\ pc[d] = "sending" => c = d

(* A request whose future is unresolved is still registered under its id:   *)
(* whatever other requests, timers, late answers and reader failures do, an *)
(* answer can reach it (request and _read_loop share _pending).             *)
NobodyForgotten ==
  \A c \in Callers :
    InRequest(c) /\ future[cur[c]].kind = "waiting" => cur[c] \in pending

(* What request() returns for an id is the backend's answer to that id, and *)
(* the backend has executed it: concurrent requests answered out of order,  *)
(* late or twice never cross.                                               *)
AnswersOwn ==
  \A i \in Ids : /\ future[i].kind \in MessageKind => future[i].id = i
                 /\ future[i].kind = "response" => executed[i] > 0

(* A breaker's state, count and opening time agree whatever the order in    *)
(* which pings and routed requests succeed, fail and time out.              *)
BreakerCoherent == Coherent(breaker, now)

(* A breaker opens only when the threshold's number of requests has failed  *)
(* in a row, none returning between them; a backend left out at the         *)
(* handshake has had one failure counted twice (_handshake).                *)
OpensOnConsecutiveFailures ==
  breaker.state = "open" => streak + (IF joined THEN 0 ELSE 1) >= Threshold

(* An open breaker stays open until its reset timeout has elapsed, unless a *)
(* request still under way returns (record_success closes from any state).  *)
OpenUntilReset ==
  [][breaker.state = "open" /\ breaker'.state # "open" =>
       \/ now - breaker.opened_at >= ResetTimeout
       \/ \E c \in Callers : InRequest(c) /\ outcome'[cur[c]] = "ok"]_vars

(* When the read loop ends, no caller is left waiting for an answer that    *)
(* nobody will read (the finally block of _read_loop).                      *)
StopFailsAll ==
  [][reader # "stopped" /\ reader' = "stopped" =>
       \A c \in Callers : pc'[c] = "awaiting" => future'[cur'[c]].kind # "waiting"]_vars

(* Without a timeout, a request that is under way when the backend goes     *)
(* away still ends: the read loop drains what had arrived and fails it.     *)
CrashEndsRequest ==
  (link = "down" /\ reader # "stopped" /\ pc[RouteLoop] = "awaiting")
    ~> pc[RouteLoop] # "awaiting"

(* The backend reads, or is gone: no drain waits for ever.                  *)
BackendReads == []<>(Len(to_backend) <= HighWater)

(* With a request timeout every request to a backend that reads what it is  *)
(* sent ends, whether it answers, dies or is silent: a ping or a call waits *)
(* neither for an answer nor for a lock that a failed send kept. The timer  *)
(* covers the answer alone (request), hence the condition; without it,      *)
(* TimeoutBounds below.                                                     *)
RequestsEnd ==
  BackendReads =>
    \A c \in Callers : pc[c] = "locking" ~> pc[c] \in {"idle", "gone"}

-----------------------------------------------------------------------------
(* What the safety properties rest on: their conjunction IndInv is          *)
(* inductive.                                                               *)

(* The requests under way have ids of their own, already minted.            *)
OwnIds ==
  /\ pending \subseteq 1..next_id
  /\ \A c \in Callers : /\ pc[c] = "awaiting" => cur[c] # NoId
                        /\ InRequest(c) => cur[c] \in 1..next_id
  /\ \A c, d \in Callers : InRequest(c) /\ InRequest(d) /\ cur[c] = cur[d] => c = d

(* No answer travels, or is in preparation, that was not executed.          *)
AnswersExecuted ==
  /\ \A i \in working : executed[i] > 0
  /\ \A k \in 1..Len(to_proxy) :
       to_proxy[k].kind = "response" => to_proxy[k].id \in Ids /\ executed[to_proxy[k].id] > 0

(* During the handshake the route loop is the connection's only user.       *)
HandshakeAlone ==
  phase = "handshaking" => ~joined /\ \A c \in Pingers : pc[c] = "idle"

(* The breaker counts no failure that no request had, but for the one that  *)
(* _handshake records once more; without a breaker nothing is counted.      *)
FailuresCounted ==
  /\ breaker.failures <= streak + (IF joined \/ phase = "handshaking" THEN 0 ELSE 1)
  /\ ~HasBreaker => breaker.failures = 0

IndInv == /\ TypeOK
          /\ LockOrder
          /\ OwnIds
          /\ NobodyForgotten
          /\ AnswersExecuted
          /\ AnswersOwn
          /\ BreakerCoherent
          /\ HandshakeAlone
          /\ FailuresCounted

-----------------------------------------------------------------------------
(* What the comments of the code say and the code does not do; each has a   *)
(* configuration that shows the counterexample (README.md).                 *)

(* "Anything else the backend sends (a server-initiated request such as     *)
(* sampling, or a notification) is handed to the sink" (class Backend): the *)
(* sink gets no response to a request of the proxy's own.                   *)
SinkServerInitiatedOnly == \A m \in sink : m.kind # "response"

(* "A background reader matches responses to pending requests by id" (class *)
(* Backend): only a response resolves a request.                            *)
ResolvedByResponses ==
  \A i \in Ids : future[i].kind \in MessageKind => future[i].kind = "response"

(* "In resilient mode a backend that is down at startup opens its breaker   *)
(* and is left out" (_handshake): serving starts without the backend only   *)
(* with its breaker open.                                                   *)
DownAtStartupLeftOut ==
  [][phase = "handshaking" /\ phase' = "serving" /\ ~joined' =>
       breaker'.state = "open"]_vars

(* "A ping succeeds or fails; request() records the breaker outcome"        *)
(* (_health_check_once): a ping that fails while the connection is served   *)
(* has been recorded as a failure.                                          *)
PingRecorded ==
  [][\A c \in Pingers :
       InRequest(c) /\ outcome[cur[c]] # outcome'[cur[c]] /\ outcome'[cur[c]] = "error" =>
         breaker' = RecordFailure(breaker, now)]_vars

(* "request_timeout" (Backend, and requestTimeout in a document): it bounds  *)
(* a request, also one to a backend that no longer reads.                   *)
TimeoutBounds ==
  \A c \in Callers : pc[c] = "locking" ~> pc[c] \in {"idle", "gone"}

(* "every backend drains its `_pending` map to empty when its session ends" *)
(* (tests/test_soak.py): once serve has returned, nothing is registered.    *)
DrainedAtEnd == phase = "closed" => pending = {}

(* "With none, routing keeps its strict behavior and failures propagate"    *)
(* (ForwardRouter, on backends without a breaker): once the connection's    *)
(* read loop has ended, a routed request does not wait for ever.            *)
FailuresPropagate ==
  (reader = "stopped" /\ pc[RouteLoop] = "awaiting") ~> pc[RouteLoop] # "awaiting"

-----------------------------------------------------------------------------
(* Backend.request keeps the contract of RpcContract: executed at most      *)
(* once, returned only when executed, and the outcome is final.             *)
Contract == INSTANCE RpcContract WITH
              Requests <- Ids,
              issued   <- 1..next_id

KeepsContract == Contract!Spec
=============================================================================
