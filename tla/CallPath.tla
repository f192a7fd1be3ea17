------------------------------ MODULE CallPath ------------------------------
(* The path of one client's requests through the forward router: the filter  *)
(* chain and the accountability log around a tools/call, the calls that the  *)
(* router serves itself, inline or in its pool, the routing of tasks/* by    *)
(* the id of a handle, resource subscriptions that a backend or the router   *)
(* itself serves, and the notifications that run beside them.                *)
(* router.py (_route_call, _route_task, _route_subscription,                 *)
(* publish_resource_update, _server_message), signing.py, subscriptions.py   *)
(* and tasks.py.                                                             *)
(*                                                                           *)
(* Which backend a name resolves to is ToolSurface's subject: here a request *)
(* names its backend.  The slots, deadlines and cancellation of pooled calls *)
(* are LocalWork's.  The client's transport takes one message at a time, in  *)
(* the order in which the writers asked for the client lock, which is FIFO;  *)
(* a writer that asks for it does not let go of the event loop before it is  *)
(* in the queue.                                                             *)
EXTENDS Integers, FiniteSets, FilterChain, Namespace

CONSTANTS
  Backends,     \* ids, as strings of characters
  Chains,       \* the filter chains the router may be given
  Handlers,     \* ids of local handlers
  Accepted,     \* the arguments that the input schema of their tools accepts
  Pools,        \* whether set_worker_pool was called: values it may have
  Sinks,        \* whether an on_server_message was given: values it may have
  Resilient,    \* some backend has a breaker: a failure is answered, not raised
  Uris,         \* resource names, of backends and local ones alike
  TaskIds,      \* the ids a backend mints for its tasks
  MaxRequests,  \* bound: requests of the client
  MaxUpdates    \* bound: updates of resources, by backends and by the router

ASSUME CallPathAssumption ==
  /\ MaxRequests \in Nat /\ MaxUpdates \in Nat /\ Sinks \subseteq BOOLEAN
  /\ Backends \cup TaskIds \subseteq Seq(STRING) \ {None}

ASSUME ChainsAssumption == Chains \subseteq Seq(Filters)

VARIABLES
  chain,      \* the filter chain of this router
  pooled,     \* whether it has a worker pool
  sink,       \* whether what backends send goes to its on_server_message
  loop,       \* the route loop: [pc, req, to]
  toBack,     \* requests on their way to each backend
  fromBack,   \* messages on their way from each backend, in order
  readers,    \* per backend, whether its read loop waits for the client lock
  lock,       \* the writers in the queue of the client lock: their messages
  log,        \* AuditLog.records
  head,       \* AuditLog._head
  local,      \* Subscriptions._uris: local URIs the client subscribed to
  remote,     \* per backend, the URIs it holds a subscription for
  expects,    \* the updates the client may see: subscribed, and not told otherwise
  handles,    \* the task handles the client holds: [id, owner, original]
  spawned,    \* pooled calls whose task has not run yet
  work,       \* local calls whose handler runs
  served,     \* what backends and handlers were asked to do, for the properties
  requests, updates

router == <<chain, pooled, sink>>
own    == <<spawned, work>>
vars   == <<router, loop, toBack, fromBack, readers, lock, log, head, local, remote,
            expects, handles, own, served, requests, updates>>

Idle == [pc |-> "reading", req |-> None, to |-> None]

(***************************************************************************)
(* signing.py: the hash of a link is injective in the link before it and   *)
(* the record, so it is the pair of both.                                  *)
(***************************************************************************)
Genesis == "genesis"
Attestation(req) == [type |-> "attestation", call |-> req]
Outcome(req, ok) == [type |-> "outcome", call |-> req, ok |-> ok]

\* AuditLog.append.
Record(r) ==
  /\ log' = Append(log, [record |-> r, prev |-> head, hash |-> <<head, r>>])
  /\ head' = <<head, r>>

\* AuditLog.verify.
Verifies(entries) ==
  \A i \in 1..Len(entries) :
    /\ entries[i].prev = (IF i = 1 THEN Genesis ELSE entries[i - 1].hash)
    /\ entries[i].hash = <<entries[i].prev, entries[i].record>>

(***************************************************************************)
(* The client and the route loop.                                          *)
(***************************************************************************)
Answer_Jumps(message) ==   \* mutant: the loop's answer overtakes what waits for the lock
  /\ lock' = <<message>> \o lock
  /\ loop' = [Idle EXCEPT !.pc = "writing"]

\* The loop asks for the client lock to send its answer, and waits its turn.
Answer(message) ==
  /\ lock' = Append(lock, message)
  /\ loop' = [Idle EXCEPT !.pc = "writing"]

Message(kind, req, body) == [kind |-> kind, req |-> req, body |-> body]
Error(req) == Message("error", req, None)
Result(req, body) == Message("result", req, body)

\* The request is sent, with the backend's own name for what it is about.
Forward(req, b, original, message) ==
  /\ toBack' = [toBack EXCEPT ![b] = Append(@, [req |-> req, original |-> original])]
  /\ served' = served \cup {[req |-> req, to |-> b, original |-> original, message |-> message]}
  /\ loop' = [pc |-> "calling", req |-> req, to |-> b]

Counted == requests < MaxRequests /\ requests' = requests + 1 /\ loop.pc = "reading"

\* A tools/call on a tool of backend b, after the filter chain.
Request(b, args) == [method |-> ToolsCall, tool |-> b, arguments |-> args, meta |-> {}]

CallBlocked(b, args) ==
  LET request == Request(b, args)
      req == [n |-> requests, kind |-> "call", of |-> request]
  IN  /\ Counted
      /\ run(chain, request).action = "block"
      /\ Record(Outcome(req, FALSE))
      /\ Answer(Error(req))
      /\ UNCHANGED <<router, toBack, fromBack, readers, local, remote, expects, handles, served, updates, own>>

CallForwarded(b, args) ==
  LET request == Request(b, args)
      req == [n |-> requests, kind |-> "call", of |-> request]
      outcome == run(chain, request)
  IN  /\ Counted
      /\ outcome.action = "forward"
      /\ Record(Attestation(req))
      /\ Forward(req, b, None, outcome.message)
      /\ UNCHANGED <<router, fromBack, readers, lock, local, remote, expects, handles, updates, own>>

\* The backend's breaker is open: an error, and nothing is recorded.
Refuse(req) == Resilient /\ Answer(Error(req)) /\ UNCHANGED <<toBack, served>>

CallRefused(b, args) ==
  LET request == Request(b, args)
  IN  /\ Counted
      /\ run(chain, request).action = "forward"
      /\ Refuse([n |-> requests, kind |-> "call", of |-> request])
      /\ UNCHANGED <<router, fromBack, readers, log, head, local, remote, expects, handles, updates, own>>

(***************************************************************************)
(* A call that names a local handler.                                      *)
(***************************************************************************)
\* What _route_call does of it before the handler runs: the filters, the input
\* schema.  An error is told at once; else the handler has the message.
LocalBlocked(req) == run(chain, req.of).action = "block" /\ Record(Outcome(req, FALSE))

LocalRejected(req) ==
  /\ run(chain, req.of).action = "forward" /\ run(chain, req.of).message.arguments \notin Accepted
  /\ UNCHANGED <<log, head>>

Handled(req) ==
  LET message == run(chain, req.of).message
  IN  /\ run(chain, req.of).action = "forward" /\ message.arguments \in Accepted
      /\ work' = work \cup {req}
      /\ served' = served \cup {[req |-> req, to |-> req.of.tool, original |-> None, message |-> message]}

\* Without a pool the route loop serves it, and reads nothing meanwhile.
LocalCall(h, args) ==
  LET req == [n |-> requests, kind |-> "local", of |-> Request(h, args)]
  IN  /\ Counted /\ ~pooled
      /\ \/ /\ LocalBlocked(req) \/ LocalRejected(req)
            /\ Answer(Error(req)) /\ UNCHANGED <<work, served>>
         \/ /\ Handled(req)
            /\ loop' = [pc |-> "calling", req |-> req, to |-> h]
            /\ UNCHANGED <<lock, log, head>>
      /\ UNCHANGED <<router, toBack, fromBack, readers, local, remote, expects, handles, spawned, updates>>

\* With a pool it makes a task of it, which runs when the loop next waits.
Spawn(h, args) ==
  /\ Counted /\ pooled
  /\ spawned' = spawned \cup {[n |-> requests, kind |-> "pooled", of |-> Request(h, args)]}
  /\ UNCHANGED <<router, loop, toBack, fromBack, readers, lock, log, head, local, remote, expects, handles,
                 work, served, updates>>

PooledStarts(req) ==
  /\ req \in spawned
  /\ spawned' = spawned \ {req}
  /\ \/ /\ LocalBlocked(req) \/ LocalRejected(req)
        /\ lock' = Append(lock, Error(req)) /\ UNCHANGED <<work, served>>
     \/ Handled(req) /\ UNCHANGED <<lock, log, head>>
  /\ UNCHANGED <<router, loop, toBack, fromBack, readers, local, remote, expects, handles, requests, updates>>

\* The handler returned: a result that breaks its schema or exceeds the output
\* limit becomes an error.
HandlerReturns(req, fits) ==
  LET answer == IF fits THEN Result(req, None) ELSE Error(req)
  IN  /\ req \in work
      /\ work' = work \ {req}
      /\ IF req.kind = "local" THEN Answer(answer) ELSE lock' = Append(lock, answer) /\ UNCHANGED loop
      /\ UNCHANGED <<router, toBack, fromBack, readers, log, head, local, remote, expects, handles, spawned,
                     served, requests, updates>>

\* It raised: the exception ends the pooled call's task, which tells nobody, or
\* the route loop.
HandlerRaises(req) ==
  /\ req \in work
  /\ work' = work \ {req}
  /\ loop' = IF req.kind = "local" THEN [Idle EXCEPT !.pc = "ended"] ELSE loop
  /\ UNCHANGED <<router, toBack, fromBack, readers, lock, log, head, local, remote, expects, handles, spawned,
                 served, requests, updates>>

\* A tasks/* request by the id of a handle, or by one that names no backend.
RouteTask(id) ==
  LET r == split(id)
      req == [n |-> requests, kind |-> "task", of |-> id]
  IN  /\ Counted
      /\ IF r # None /\ r[1] \in Backends
         THEN \/ Forward(req, r[1], r[2], None) /\ UNCHANGED lock
              \/ Refuse(req)
         ELSE Answer(Error(req)) /\ UNCHANGED <<toBack, served>>
      /\ UNCHANGED <<router, fromBack, readers, log, head, local, remote, expects, handles, updates, own>>

\* resources/subscribe and resources/unsubscribe of backend b's resource u.
RouteSubscription(kind, b, u) ==
  LET req == [n |-> requests, kind |-> kind, of |-> <<b, u>>]
  IN  /\ Counted
      /\ \/ Forward(req, b, u, None) /\ UNCHANGED lock
         \/ Refuse(req)
      /\ expects' = IF kind = "subscribe" THEN expects \cup {<<b, u>>} ELSE expects
      /\ UNCHANGED <<router, fromBack, readers, log, head, local, remote, handles, updates, own>>

\* The same of a resource of no backend: the router's own registry.
LocalSubscription(kind, u) ==
  LET req == [n |-> requests, kind |-> kind, of |-> <<None, u>>]
  IN  /\ Counted
      /\ local' = IF kind = "subscribe" THEN local \cup {u} ELSE local \ {u}
      /\ expects' = IF kind = "subscribe" THEN expects \cup {<<None, u>>} ELSE expects
      /\ Answer(Result(req, None))
      /\ UNCHANGED <<router, toBack, fromBack, readers, log, head, remote, handles, served, updates, own>>

RecordOutcome_None(req, ok) == UNCHANGED <<log, head>>   \* mutant: no outcome is recorded
namespace_task_id_Bare(id, b) == id   \* mutant: the id is handed on as it is

\* The backend's answer reached the loop.  A call's outcome is recorded; the id
\* of a task in the answer is marked as the backend's.
RecordOutcome(req, ok) == IF req.kind = "call" THEN Record(Outcome(req, ok)) ELSE UNCHANGED <<log, head>>

namespace_task_id(id, b) == IF id = None THEN None ELSE prefix(b, id)

Returned(b, ok, task) ==
  LET id == namespace_task_id(task, loop.to)
  IN  /\ RecordOutcome(loop.req, ok)
      /\ Answer(IF ok THEN Result(loop.req, id) ELSE Error(loop.req))
      /\ handles' = IF ok /\ id # None
                    THEN handles \cup {[id |-> id, owner |-> b, original |-> task]} ELSE handles

\* The request raised: it timed out, or the backend is gone.  In strict mode
\* the exception ends the route loop.
CallRaises ==
  /\ loop.pc = "calling" /\ loop.req.kind # "local"
  /\ IF Resilient THEN RecordOutcome(loop.req, FALSE) /\ Answer(Error(loop.req))
     ELSE loop' = [Idle EXCEPT !.pc = "ended"] /\ UNCHANGED <<log, head, lock>>
  /\ UNCHANGED <<router, toBack, fromBack, readers, local, remote, expects, handles, served, requests, updates, own>>

(***************************************************************************)
(* Notifications, and the client lock.                                     *)
(***************************************************************************)
Update(owner, u) == Message("updated", None, <<owner, u>>)

\* publish_resource_update, by another task of the embedding program.
Publish(u) ==
  /\ updates < MaxUpdates
  /\ updates' = updates + 1
  /\ u \in local
  /\ lock' = Append(lock, Update(None, u))
  /\ UNCHANGED <<router, loop, toBack, fromBack, readers, log, head, local, remote, expects,
                 handles, served, requests, own>>

\* A backend's read loop: an answer goes to the waiting request, if it still
\* waits; a notification is renamed and relayed before anything else is read.
ReadAnswer(b) ==
  /\ readers[b] = "reading" /\ fromBack[b] # << >>
  /\ LET m == Head(fromBack[b])
     IN  /\ m.kind = "answer"
         /\ IF loop.pc = "calling" /\ loop.req = m.req THEN Returned(b, m.ok, m.task)
            ELSE UNCHANGED <<loop, lock, log, head, handles>>
  /\ fromBack' = [fromBack EXCEPT ![b] = Tail(@)]
  /\ UNCHANGED <<router, toBack, readers, local, remote, expects, served, requests, updates, own>>

RelayUpdate(b) ==
  /\ ~sink /\ readers[b] = "reading" /\ fromBack[b] # << >>
  /\ LET m == Head(fromBack[b])
     IN  m.kind = "updated" /\ lock' = Append(lock, Update(b, m.uri))
  /\ fromBack' = [fromBack EXCEPT ![b] = Tail(@)]
  /\ readers' = [readers EXCEPT ![b] = "relaying"]
  /\ UNCHANGED <<router, loop, toBack, log, head, local, remote, expects, handles, served, requests, updates, own>>

\* With an on_server_message it is given to that, past the client lock.
SinkUpdate(b) ==
  /\ sink /\ readers[b] = "reading" /\ fromBack[b] # << >>
  /\ Head(fromBack[b]).kind = "updated"
  /\ fromBack' = [fromBack EXCEPT ![b] = Tail(@)]
  /\ UNCHANGED <<router, loop, toBack, readers, lock, log, head, local, remote, expects, handles,
                 served, requests, updates, own>>

\* The writer at the head of the lock's queue has written, and goes on.
Write ==
  /\ lock # << >>
  /\ LET m == Head(lock)
     IN  /\ loop' = IF m.kind \in {"result", "error"} /\ m.req.kind # "pooled" THEN Idle ELSE loop
         /\ readers' = [b \in Backends |-> IF m.kind = "updated" /\ m.body[1] = b THEN "reading" ELSE readers[b]]
         /\ expects' = IF m.kind = "result" /\ m.req.kind = "unsubscribe" THEN expects \ {m.req.of} ELSE expects
  /\ lock' = Tail(lock)
  /\ UNCHANGED <<router, toBack, fromBack, log, head, local, remote, handles, served, requests, updates, own>>

(***************************************************************************)
(* A backend: it answers what it is asked, in order, and tells of updates  *)
(* of the resources it holds a subscription for.                           *)
(***************************************************************************)
BackendAnswers(b, ok, task) ==
  /\ toBack[b] # << >>
  /\ ok \/ task = None
  /\ LET m == Head(toBack[b])
     IN  /\ fromBack' = [fromBack EXCEPT ![b] =
                           Append(@, [kind |-> "answer", req |-> m.req, ok |-> ok,
                                      task |-> IF m.req.kind = "task" THEN m.original
                                               ELSE IF m.req.kind = "call" THEN task ELSE None])]
         /\ remote' = [remote EXCEPT ![b] =
                         IF ~ok THEN @
                         ELSE IF m.req.kind = "subscribe" THEN @ \cup {m.original}
                         ELSE IF m.req.kind = "unsubscribe" THEN @ \ {m.original} ELSE @]
  /\ toBack' = [toBack EXCEPT ![b] = Tail(@)]
  /\ UNCHANGED <<router, loop, readers, lock, log, head, local, expects, handles, served, requests, updates, own>>

BackendUpdates(b, u) ==
  /\ updates < MaxUpdates
  /\ updates' = updates + 1
  /\ u \in remote[b]
  /\ fromBack' = [fromBack EXCEPT ![b] = Append(@, [kind |-> "updated", uri |-> u])]
  /\ UNCHANGED <<router, loop, toBack, readers, lock, log, head, local, remote, expects, handles,
                 served, requests, own>>

(***************************************************************************)
(* Specification.                                                          *)
(***************************************************************************)
Init ==
  /\ chain \in Chains /\ pooled \in Pools /\ sink \in Sinks
  /\ loop = Idle
  /\ toBack = [b \in Backends |-> << >>] /\ fromBack = [b \in Backends |-> << >>]
  /\ readers = [b \in Backends |-> "reading"]
  /\ lock = << >>
  /\ log = << >> /\ head = Genesis
  /\ local = {} /\ remote = [b \in Backends |-> {}] /\ expects = {}
  /\ handles = {} /\ served = {} /\ spawned = {} /\ work = {}
  /\ requests = 0 /\ updates = 0

LoopStep ==
  \/ \E b \in Backends, a \in Arguments : CallBlocked(b, a) \/ CallForwarded(b, a) \/ CallRefused(b, a)
  \/ \E h \in Handlers, a \in Arguments : LocalCall(h, a) \/ Spawn(h, a)
  \/ \E h \in handles : RouteTask(h.id)
  \/ RouteTask(<<"t">>)   \* an id that names no backend
  \/ \E k \in {"subscribe", "unsubscribe"}, u \in Uris :
       LocalSubscription(k, u) \/ \E b \in Backends : RouteSubscription(k, b, u)
  \/ CallRaises

Next ==
  \/ LoopStep
  \/ \E req \in spawned : PooledStarts(req)
  \/ \E req \in work : HandlerRaises(req) \/ \E fits \in BOOLEAN : HandlerReturns(req, fits)
  \/ \E u \in Uris : Publish(u)
  \/ \E b \in Backends : ReadAnswer(b) \/ RelayUpdate(b) \/ SinkUpdate(b)
  \/ Write
  \/ \E b \in Backends, ok \in BOOLEAN, t \in TaskIds \cup {None} : BackendAnswers(b, ok, t)
  \/ \E b \in Backends, u \in Uris : BackendUpdates(b, u)

Spec == Init /\ [][Next]_vars

(***************************************************************************)
(* Properties.                                                             *)
(***************************************************************************)
TypeOK ==
  /\ chain \in Chains /\ pooled \in Pools /\ sink \in Sinks
  /\ \A req \in spawned \cup work : req.of.tool \in Handlers
  /\ loop.pc \in {"reading", "calling", "writing", "ended"}
  /\ readers \in [Backends -> {"reading", "relaying"}]
  /\ local \subseteq Uris /\ remote \in [Backends -> SUBSET Uris]
  /\ requests \in 0..MaxRequests /\ updates \in 0..MaxUpdates

\* The log is "a pre-call attestation, then a paired outcome once the call
\* resolves": every attestation is followed by one outcome of its call, unless
\* that call is still under way; no call is attested to twice.  Outcomes of
\* calls that the filters blocked, in the pool, may stand between the two.
AttestationsPaired ==
  \A i \in 1..Len(log) : log[i].record.type = "attestation" =>
    LET same == {j \in 1..Len(log) : log[j].record.call = log[i].record.call} \ {i}
    IN  IF same = {} THEN loop.pc = "calling" /\ loop.req = log[i].record.call
        ELSE \E j \in same : same = {j} /\ j > i /\ log[j].record.type = "outcome"

\* However the records came to be written, the log passes its verification.
LogVerifies == Verifies(log)

\* What filters may make of a request.
Stages(request) ==
  [method : {request.method}, tool : {request.tool}, arguments : Arguments, meta : SUBSET Marks]

\* The filter lets the message pass, and makes the next one of it.
Passes(filter, message, next) ==
  LET v == Verdict(filter, message)
  IN  ~Terminal(v) /\ next = ApplyOne(v, message)

\* What a backend or a handler was given of a call is what the filters made of
\* it: there are stages of the message, from the client's to the one served,
\* such that each filter that is interested let the stage before it pass and
\* made the next one of it, and no other filter changed it.
ScannedAsForwarded ==
  \A s \in served : s.req.kind \in {"call", "local", "pooled"} =>
    \E stage \in [1..(Len(chain) + 1) -> Stages(s.req.of)] :
      /\ stage[1] = s.req.of /\ stage[Len(chain) + 1] = s.message
      /\ \A i \in 1..Len(chain) :
           IF interested(chain[i], s.req.of) THEN Passes(chain[i], stage[i], stage[i + 1])
           ELSE stage[i + 1] = stage[i]

\* A request about a task reaches the backend that minted the task, under the
\* id it minted.
HandlesRouteHome ==
  \A s \in served, h \in handles :
    s.req.kind = "task" /\ s.req.of = h.id => s.to = h.owner /\ s.original = h.original

\* After the client was told that it is unsubscribed, it gets no update of that
\* resource until it subscribes again: neither one that the embedding program
\* was about to publish nor one that was on its way from a backend; and
\* on_server_message is not given one then.
UpdatesOnlyWhileSubscribed ==
  [][/\ (lock # << >> /\ lock' = Tail(lock) /\ Head(lock).kind = "updated") =>
          Head(lock).body \in expects
     /\ \A b \in Backends : SinkUpdate(b) => <<b, Head(fromBack[b]).uri>> \in expects]_vars
=============================================================================
