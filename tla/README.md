# Verification of yamp

yamp is a proxy for the Model Context Protocol: a client talks JSON-RPC to one
server, yamp, which aggregates several backend servers behind it (namespaced
tools, prompts and resources), serves local handlers of its own, and relays
what backends ask of the client. It is one asyncio process. Its hard parts are
therefore not threads but tasks that interleave at every `await`: a read loop
per backend, a serial route loop per client, health pingers, pooled calls and
background tasks, all of which share registries of futures, locks, breakers and
a list cache, while backends crash, answer late, or never answer.

This directory holds TLA+ models of those parts, TLC configurations that check
them on small instances, and TLAPS proofs of the safety of each part that keeps
a state, for instances of every size.

    tlc -config conn_safety.cfg MCBackendConn      # one run
    tlapm BackendConnProofs.tla                    # the proofs

`PROJECT.json` lists every run, the lines of `src/` each definition stands for,
a mutation per property that makes it fail, and the hazards.

## 1. Inventory

| component | source | state it keeps | operations | here |
|---|---|---|---|---|
| Backend connection | `yamp/router.py` class `Backend` | `_next_id`, `_pending`, `_send_lock`, reader task | request, send_message, read loop, handshake, close | `BackendConn` |
| Circuit breaker | `yamp/resilience.py` | state, failures, opened_at | state, allow, record_success, record_failure | `CircuitBreaker` |
| Route loop, client replies, cancellation | `ForwardRouter._route_loop`, `_server_message`, `_route_client_*` | `_server_requests`, `_server_request_seq` | route a call, correlate, reply, cancel | `RouteLoop` |
| Calls, audit log, tasks, subscriptions | `ForwardRouter._route_call`, `_route_task`, `_route_subscription`, `signing.py`, `subscriptions.py` | the log and its head, the registry | call, attest, record, subscribe, publish | `CallPath` |
| Request filters | `yamp/filters.py` | none | interest, evaluate, combine | `FilterChain` |
| Callouts, ICAP | `yamp/callout.py`, `icap.py`, `content.py` | verdict cache, transport | scan, time out | `Callout` |
| List aggregation | `ForwardRouter._collect`, `_aggregate`, `emit_if_surface_changed` | `_surface`, `_reverse` | fan-out, announce, name, page | `ListServing`, `ToolSurface` |
| List cache | `yamp/cache.py` | entries, expiry | get, put, invalidate_backend | `ListServing` |
| Namespaces, collisions, variants, filters of lists | `yamp/namespace.py`, `collision.py`, `variants.py`, `routing.py` | none | prefix, split, resolve, bind a cursor | `Namespace`, `ToolSurface` |
| Capabilities | `yamp/capability.py`, `_handshake` | composed capabilities | compose, search, disclose | `Composition`, `ToolSurface` |
| Worker pool, local calls | `ForwardRouter._run_pooled_call`, `yamp/pool.py` | semaphore, `InFlight`, `_pool_tasks` | spawn, cancel, progress, drain | `LocalWork` |
| Server tasks | `yamp/tasks.py`, `_originate_task`, `_run_task` | the store, `_task_handles` | create, get, complete, fail, cancel | `LocalWork` |
| Streamable HTTP session | `serve_streamable.py` | `Session.lock`, two pipes, `outbound`, the session table, the configuration | POST, DELETE, GET stream, reload | `StreamableSession` |
| HTTP server, stateless forwarder, L2 proxy | `serve_http.py`, `yamp/stateless.py`, `serve_stateless.py`, `transparent_l2.py` | keep-alive pool | exchange | `StatelessServing` |
| Relays | `yamp/relay.py`, `transparent.py`, `forward.py` | two pumps | pump, deny, handshake | `Relays`, `FifoChannel` |
| Framing | `yamp/transport/` | buffers | send, receive | `Framing` |
| Configuration, doctor | `yamp/config.py`, `doctor.py`, `config_cli.py`, `handler.py` | none | check, load, adapt, explain, diff | `Config` |
| TCP server | `serve.py` | the shared cache | accept | its sharing: `ListServing` |
| Sequential router, REST, authentication, JSON Schema, errors, tools | the rest of `src/` | none that outlives a call | predicates, formats | section 5 |

A client message goes from its transport to the *route loop*. A call passes the
*filter chain*, its name is resolved to a local handler or a backend, and a call
to a backend is attested in the *audit log* and becomes `Backend.request`: mint
an id, register a future under it, write under the send lock, await the future,
feed the breaker. The backend's *read loop* resolves futures by id and hands
everything else to the *sink*, by which `_server_message` correlates a backend's
own request with the client, relays an update or invalidates cached lists. A list
request fans out to all available backends and goes through the cache that all
client connections share. Calls to local handlers run beside the loop in the
*pool* or as *server tasks* and write to the client under `_client_lock`. *Health
pingers* send requests of their own on the same connections. `serve` ends by
draining the local work, cancelling the pingers and closing the backends. The
Streamable HTTP server puts a whole `ForwardRouter` behind two in-memory pipes and
pairs requests with responses by their order. The stateless servers and the relays
are programs of their own, without a router.

### What is hard here, and what makes each part correct

- **Connection.** Several tasks share `_pending` with timers and the reader,
  each in the middle of a request. Correct: a waiting request is registered, an
  answer goes to its own request, a reader that ends fails all waiters, writes
  do not interleave, no request is executed twice, every request ends.
- **Breaker.** Outcomes arrive in any order; reading `state` changes it.
  Correct: it opens only after enough failures in a row, and stays open until
  its reset timeout.
- **Local work.** A handler's end, its deadline, the client's cancellation and
  the drain race. Correct: a call is answered at most once and not after its
  cancellation, ends when it has a deadline, and the drain leaves nothing.
- **Lists.** Invalidation races the answers under way; principals share
  entries; some backends of a fan-out fail; pages are fetched while backends
  fail. Correct: no private result crosses principals, nothing stale is served,
  what is missing is declared, no tool is lost or repeated, and every name that
  was served leads back to who listed it.
- **Route loop.** Backends choose ids independently; replies cross
  cancellations; the loop blocks on a call. Correct: a reply reaches the
  request it answers; nobody waits for ever.
- **Calls.** Filters rewrite what later filters judge; a pooled call's records
  mix with those of the loop's; updates cross an unsubscribe. Correct: what was
  scanned is what is forwarded, every attestation has its outcome, no update
  after the client was told that it is unsubscribed.
- **Sessions.** POSTs, DELETE and event streams are independent tasks over one
  pair of pipes and one queue. Correct: each response belongs to its request, a
  message goes to one stream, DELETE ends.
- **Exchanges.** Clients share pooled connections that backends close at will;
  callouts share a transport on which late answers stay. Correct: no answer
  crosses to another request, nothing is executed twice, a failure is decided by
  the failure policy and never by what the wire happens to hold.
- **Relays and framing.** Ends and cuts come at any point. Correct: what was
  sent arrives once, in order, before the end.

`PROJECT.json` lists the hazards at their lines, with the property that would
catch each, or why none does.

## 2. The modules

The modules that end in `Proofs` hold the theorems of section 4; those that begin
with `MC` give the constants their values for a run.

### CircuitBreaker, RpcContract, BackendConn

`CircuitBreaker` has one operator per method over the record of the class's
fields; `Refresh` is the write that reading the property `state` performs.

`BackendConn` is one `Backend` in the life that `ForwardRouter.serve` gives it.

| variables | code |
|---|---|
| `next_id`, `pending`, `future`, `reader`, `lock` | `_next_id`, the keys and futures of `_pending`, `_reader`, `_send_lock` and its FIFO of waiters |
| `breaker`, `now` | `self.breaker` and its clock |
| `pc`, `cur` | where each calling task (route loop, pinger) stands in `request` |
| `phase`, `joined` | `serve`: handshake, serving, closed, dead; whether the capabilities were added |
| `to_backend`, `to_proxy`, `link`, `working`, `executed` | the environment: the transport and the backend process |
| `sink`, `outcome`, `streak` | histories the properties read |

A step runs from one `await` to the next. `Register` is `request` up to the lock,
`BeginSend`/`EndSend`/`FailSend` the write and its drain (which ends while at most
`HighWater` messages are unread), `Expire` the timer of `wait_for`,
`Return`/`Reraise`/`FinishHandshake` the caller after its future,
`Resolve`/`Deliver`/`Delivered`/`EndReader` the read loop, `Close` the end of
`serve`. `StartHandshake`, `Admit`/`StartRequest`, `StartPing` and `StartRelay`
are who may call. The environment may answer in any order or never, stop reading,
send messages of its own (also one with an id that collides, where `ServerIds`
admits it), send a line that does not decode, and crash; `Faults` selects what a
run admits. A future is cancelled by its timer at one step and its caller runs at
a later one, as in asyncio.

`RpcContract` is the abstract specification: a request is issued, executed at
most once, and returns only if executed or fails at any time. `KeepsContract`
maps it to `BackendConn` (`issued` is `1..next_id`).

### LocalWork

The local calls and background tasks of one router: `Spawn`, `Enter`,
`HandlerEnds`, `Wake`, `Expire`, `GiveUp`, `HandlerStops`, `TimesOut`, `Write`,
`Written`, `Unwind`, `Reap` are the stations of `_run_pooled_call` and its done
callback; `Originate`, `TaskStarts`,
`TaskEnds`, `TaskUnwinds` those of a background task; `TaskGet`, `TaskCancel`,
`CallCancel`, `Progress` what the route loop does with them; `Drain`,
`WindowEnds`, `Unwound` the end of `serve`. `Task.cancel` puts a task into
`cancelling`; it unwinds at its next turn, may absorb the cancellation
(`Absorb`), and has no step of its own in between. With an idle deadline the
handler runs in a task of its own inside `wait_for`, as Python 3.11 has it: the
call is resumed a turn after the handler's end, and a cancellation that comes
until then is swallowed (`finished`). When the timer fires (`Expire`) or the call
is cancelled (`GiveUp`) the handler is cancelled and `wait_for` waits for it
(`expiring`, `leaving`). One that absorbs that keeps the call waiting, and its
slot, and its result is the call's after all (`TimesOut`); a second cancellation
leaves it running with nobody to wait for it.
`InFlight`'s deadline and `wait_for`'s timer are two clocks, `left` and `timer`.

### ListServing

Several client connections (`Clients`, each with its own router, breakers and
`_surface`), one cache. A result is the version of the surface it shows, with its
ttl and scope. `List` looks up and asks (with both readings of the breakers: whom
to ask, and whom to declare missing; `reset` is who came back in between),
`Gathered` stores and assembles, `Sent` writes and runs `emit_if_surface_changed`;
`Deliver` is a connection's reader: an answer, or a `list_changed` that
invalidates. A breaker is reduced to whether it admits requests. `MCListServing`
checks two worlds in one run: two connections and the cache, and one connection
with two backends that fail.

### ToolSurface, Namespace

What a `tools/list` serves and where a `tools/call` by a served name goes, over
real names: a string is the sequence of its characters, because everything here
depends on where the delimiter falls. `Namespace` has the functions of
`namespace.py`; `Glob`, `apply_priority`, `resolve_manual`, `disclose` are those
of `routing.py`, `collision.py` and `capability.py`; `AskedBackends`, `Merged`,
`NextCursors` and `ReverseMap` are the loops of `_collect`. `Sift` is the
comprehension that keeps some of a list in its order. `ListTools` is one
`tools/list` (the route loop serves one request at a time), fresh or with a
cursor, with any subset of the backends failing; `Call` and `Resolve` are
`_route_call` up to the backend. Offers change and breakers open and recover
between requests. `walk` is the history of the client's pages. The cache, which
these requests do not all use, is `ListServing`'s. `WellFormed` and `Callable` say
under which configurations the surface keeps its promises; section 3 has what
happens without them.

### FilterChain, CallPath

`FilterChain` is `filters.py`: interests, failure policies, verdicts, and the
outcome of a chain, over any `Arguments` of calls and `Marks` of provenance;
`Asked` is the loop of `FilterChain.run`, `Reduced` that of `chain_outcome`.
`CallPath` has the route loop's requests around it: `CallBlocked`,
`CallForwarded`, `CallRefused`, `Returned`, `CallRaises` with the records each
writes to the log (`Record` appends, `RecordOutcome` pairs); local calls inline
(`LocalCall`) or pooled (`Spawn`, `PooledStarts`, `HandlerReturns`,
`HandlerRaises`); `RouteTask` by the id of a handle; `RouteSubscription` and
`LocalSubscription`; `Publish`, `RelayUpdate` and, for a program that set
`on_server_message` (`sink`), `SinkUpdate`. `lock` is the FIFO of writers of
`_client_lock`, as the messages they are about to write; `Write` is the head's
turn. A hash of the log is the pair of what it hashes: injective, which is all the
chain relies on.

### Callout

A `ContentScanner` walks the blocks of a message, a `CalloutClient` asks about
each. `wire` holds answers with a history of what each was asked about (`for`),
so that a verdict applied to the wrong content can be told. A callout is sent
(`Send`, `EndSend`, `FailSend`), outside the deadline, and then awaited. The
service may answer anything that `icap_to_callout` gives, or an answer it would
not give, in any order with the deadlines, stop reading (`Stall`), and hang up.
An answer that is no frame raises out of the scan (`ReceiveRaises`), and what
follows its header may be taken for an answer by a later one (`Remainders`);
`strays` counts these and the deadlines.

### RouteLoop

One client, several backends, FIFO transports. `RouteCall`, `Answer` and
`TimesOut` are a routed call; `Deliver` a reader with `_server_message`;
`RouteReply` handles `_route_client_reply` and `_route_client_cancellation`.
A backend may ask the client something in order to answer a call
(`BackendAsksFor`), and then cannot answer before it is told. The message field
`about` is a history: what a reply really concerns.

### StreamableSession

One HTTP session from its opening POST. `Initialize` authorizes the client and
takes the resilience of the configuration of that moment, `Connect` is the await in
`Session.create`, `Reload` a SIGHUP. `Post`, `Send`, `Receive`, `Delete`, `Close`
are the handler tasks and `Session`; `Get`, `Take`, `Keepalive` an event stream,
`Leave` a client that is gone before the server learns of it; `Event` a message
of a backend, which may be a request that it wants answered before it answers a
call (router `asking`). The router is reduced to what it reads and writes on the
pipes. A `refusal` is a 400 or 401.

### StatelessServing, Relays, FifoChannel

`StatelessServing` has the three servers without a router, chosen by `mode`: a
handler per client connection (`Read`, `Take` a connection, `Send`, `Receive` or
`ReceiveEnd`, `Respond`), sockets as records of both directions, and the pool of
`serve_http`. A read of a response gives a `Part` of what the backend sent: all of
it, an end too early, or, without a Content-Length, only its head; the connection
is then `skewed`, and goes back to the pool with the rest unread. `Relays` has the
three programs that pump messages, one task per direction, with `ForwardProxy`'s
handshake before it. `FifoChannel` is the abstract specification of one direction;
`PumpsAreChannels` maps both directions to it, without the messages the policy
denies and those the handshake consumes.

### Composition, Config, Framing, MCAlgorithms

Pure functions: capabilities and variants; documents, their checks, the
configuration they become (`from_dict`), what `diff` finds between two, the
registry and the doctor; the three framings. Each module states its properties of
one input; `MCAlgorithms` picks every input of a bounded set.

## 3. The runs

All runs pass and set `CHECK_DEADLOCK FALSE`: a connection, a router and a
session really stop, and the bounds stop the rest; that nothing stops too soon
is what the liveness properties say.

| run (module) | instance | what it shows |
|---|---|---|
| `conn_safety` (`MCBackendConn`) | route loop and one pinger (what `serve` gives a backend), 3 requests, 1 tick, threshold 2, crash and failing sink, 1 message unread before a drain waits | `WritesExclusive`, `NobodyForgotten`, `AnswersOwn`, `OpensOnConsecutiveFailures`, `OpenUntilReset`, `RequestsEnd`, and that `request` keeps `RpcContract` |
| `conn_plain` (`MCBackendConn`) | no breaker, no timeout, every fault, a request of the backend, 3 requests | `StopFailsAll`: the read loop's end fails who waits |
| `work_pool` (`MCLocalWork`) | 2 calls on one slot and a task; with and without deadline and drain window; handlers that raise, ignore a cancellation (the client's or `wait_for`'s), never return | `AnsweredOnce`, `LiveWorkReachable`, `DrainLeavesNone`, `CallsEnd` |
| `list` (`MCListServing`) | 2 clients of different principals, 1 backend, a change, ttl 0 or 1, both scopes; or 1 client and 2 backends with breakers, 2 lists | `PrivateStaysPrivate`, `StaleOnlyIfOvertaken`, `NothingMissingSilently` |
| `route_replies` (`RouteLoop`) | 2 backends, 2 calls, a request of each backend, timeouts | `RepliesGoHome`, `ReplyArrives`, `CallsAnswered` |
| `sess_posts` (`MCStreamableSession`) | opening POST and 3 more, 2 event streams, 2 messages, a reload before it opens, at most 4 of these in one behaviour; with and without breakers | `StrictAnswerMatches`, `EventsOnce`, `DeleteEnds` |
| `scan_callouts` (`Callout`) | 2 messages of 2 blocks, 3 contents of which one is over the budget, a link, every answer, a service that may stop reading, both policies | `VerdictFits`, `FailurePolicyDecides`, `ScansEnd` |
| `relay_pumps` (`Relays`) | 3 programs, 3 messages each way | `PumpsAreChannels`, `DeniedAnswered` |
| `http_pool` (`StatelessServing`) | 3 servers, 2 clients of 2 requests, 2 backends, 3 sockets; symmetric in clients and sockets | `AnswersMatch`, `ExecutedOnce` |
| `surface` (`MCToolSurface`) | 7 configurations of 2 backends (strategies, variants, filters, disclosure, a handler), 3 offers each, 2 changes, 2 outages, pages of 1 to 3 | `CallReachesLister`, `PagesComplete`, `PriorityKeepsBest` |
| `calls` (`MCCallPath`) | 2 backends and a handler, with and without pool and sink, 5 filter chains, 3 requests, 1 update | `AttestationsPaired`, `ScannedAsForwarded`, `HandlesRouteHome`, `UpdatesOnlyWhileSubscribed` |
| `algorithms` (`MCAlgorithms`) | ids and names of up to 4 characters, 3 backends' capabilities, 2 backends and a handler in a document, streams of 2 messages cut anywhere | `NamesReversible`, `CompositionFaithful`, `DocumentsServe`, `FramesArrive` |

Why these bounds are enough. Two callers already overlap at every pair of awaits;
three requests are what a handshake, an overlapping pair and the threshold of two
need (a failure before, during and after a success); one tick lets a reset timeout
of one pass. `MaxQueue` bounds only what the environment volunteers, never
answers. With `HighWater` 1 the second unread message already blocks its sender,
and all who wait for the lock behind it. The colliding id of `conn_plain` (0) is
that of no request of the proxy; those that do collide are in `conn_ids`. Two
calls on one slot show queueing; a third would only queue longer. Two versions are
a stale answer and a change after it; a second backend makes a fan-out partial.
Two backends that both use id 1 are the id collision. Three POSTs are one that
waits, one that holds the lock and a DELETE; two streams are two readers of one
queue. Two blocks and two messages are a verdict reused within and across
messages. Two clients and three sockets let one client reuse what the other left
while a third connection is opened. Three tools on pages of one or two make three
pages, and one outage there and back needs two changes of a breaker. Three
requests are a call, a task it returned and a request about it, or a subscribe, an
unsubscribe and another; the router that has a pool is not asked for subscriptions
(`Within`), which the pool does not touch, and one with a sink has neither pool
nor filters. Four characters hold a delimiter with something on both sides. Only
`http_pool` uses symmetry (`Alike`), for invariants alone: no action prefers a
client or a socket, and permuting them maps initial states to initial states.

What the shipped programs do of this: `serve` (`serve.py:61`) gives every connection
the principal `None`, so the two principals of `list` are those of a program that
sets them. `PumpsAreChannels` of `ForwardProxy` has the client send `initialized`
second, as the protocol has it; the code consumes whatever comes second.

`TypeOK` of every module with a state, `IndInv` and `BreakerCoherent` of the
connection, `SlotsAccounted`, `InFlightAgrees`, `ClientWritesExclusive`,
`StatusNeverRegresses` and `DrainEnds` of the local work, `SettledOnce`,
`AnsweredInOrder` and `CorrelationKept` of the route loop, `VerdictSticks` of the
callouts, `WalkKeepsVariant`, `LogVerifies`, `EndPassedOn` and `CrashEndsRequest`
hold in the same instances, `ConnectionsExclusive` of the exchanges with two
sockets and their `RequestsEnd` with one backend, under `FairSpec` and without
symmetry; they are in no configuration: they restate what the listed properties
rest on, or what a theorem proves. Add them to a configuration to check them.

### Where the code and what it says of itself disagree

Each of these is a statement of the repository's comments or docstrings, stated
in a module; the configuration in the first column checks it and TLC gives a
counterexample within seconds. None of them is among the runs of `PROJECT.json`,
which are about what holds. Where a configuration names several statements,
check one at a time. The first table has the clear ones.

| configuration (module) | statement | the code says | what happens |
|---|---|---|---|
| `list_alone` (`MCListServing`) | `ChangeIsVisible` | a backend's `list_changed` invalidates its cached lists before it is relayed (`router.py:473`) | an answer read before the notification is stored after it (`router.py:913`), and served for its whole ttl to the client that was told to list again |
| `list_tripped` (`MCListServing`) | `RecoveredIsRefetched` | a breaker that opens drops the lists, so a recovered backend is fetched anew (`router.py:458`) | not when it recovers between two comparisons of the surface |
| `sess_disagreements` (`MCStreamableSession`) | `AnswerMatches` | the client transport carries only responses (`router.py:247`) | the proxy's own `list_changed` (`router.py:464`) is taken for a response, and every later POST gets its predecessor's |
| `route_nested` (`RouteLoop`) | `ReplyArrives` | a client's reply is sent back to the backend that asked (`router.py:549`) | the loop that would read the reply awaits the backend that awaits the reply; without a request timeout both wait for ever |
| `conn_dead_reader` (`MCBackendConn`) | `FailuresPropagate` | failures propagate in strict mode (`router.py:314`) | after the read loop's end a request waits for ever |
| `scan_callouts` with `DeadlineBounds` (`Callout`) | `DeadlineBounds` | "a deadline bounds a slow or hung scanner" (`callout.py:10`) | one that stops reading holds up the scan in its send (`callout.py:149`) |
| `http_pool` with `AnswersAlwaysMatch` (`StatelessServing`) | `AnswersAlwaysMatch` | "an absent header means no body" (`serve_http.py:31`) | a chunked or interim response has none either; its connection is pooled with the rest unread (`serve_http.py:85`), which the next exchange takes for its answer, possibly another client's |
| `list` with `AbsentNamed` (`MCListServing`) | `AbsentNamed` | "which backends were dropped from the surface and why" (`resilience.py:25`) | not one whose breaker resets between the two looks (`router.py:868` and `router.py:872`): it is neither asked nor named |
| `pure_disagreements` (`MCAlgorithms`) | `DiffsAreAll` | "a real behavioral change is shown" (`config.py:297`) | documents that differ in backends, handlers, overrides or priority alone do not differ |
| `conn_disagreements` (`MCBackendConn`) | `PingRecorded` | `request()` records a ping's outcome (`router.py:443`) | not when the send raises, outside its `try` |
| `conn_ids` (`MCBackendConn`) | `ResolvedByResponses` | responses are matched by id, anything else goes to the sink (`router.py:82`) | a request of the backend's that bears that id resolves the future |
| `work_disagreements` (`MCLocalWork`) | `IdleDeadlineHonoured` | progress resets the idle deadline (`router.py:517`) | the timer of `wait_for` is not moved |
| `pure_disagreements` (`MCAlgorithms`) | `NamesReversible` | ids that would break reverse resolution are rejected (`namespace.py:19`) | an id that ends in one underscore is not |
| `relay_identity` (`Relays`) | `BackendIdentityHidden` | backend identity is never exposed to the client (`forward.py:7`) | the handshake takes a backend's first message for its answer, and relays the real answer |

The others are weaker: the statement is vaguer, the case rarer, or it depends on
the Python version.

| configuration (module) | statement | the code says | what happens |
|---|---|---|---|
| `list_alone` with `ErrorsAnnounced` | `ErrorsAnnounced` | omitted backends are announced | a JSON-RPC error becomes an empty list |
| `sess_disagreements` (`MCStreamableSession`) | `RequestsAnswered` | requests get a JSON response | nobody ends the pipe when the router fails |
| `sess_reordered` | `RequestsAnswered` | requests get a JSON response | one taken for `notifications/initialized` gets none; or the POST that holds the lock waits for a backend that waits for the next POST |
| `conn_disagreements` (`MCBackendConn`) | `SinkServerInitiatedOnly` | the sink gets what the backend initiates | a late response is relayed to the client |
| | `TimeoutBounds` | a request has a timeout (`router.py:92`) | not its send: the drain (`serve.py:35`) is awaited before `wait_for` and under the send lock, so a backend that stops reading holds up this request and every later one |
| | `DownAtStartupLeftOut` | a backend down at startup opens its breaker | at most two failures are recorded, the default threshold is five |
| `conn_ids` | `DrainedAtEnd` | `_pending` drains when the session ends | a pinger whose answer came in its last turn goes on |
| `work_disagreements` (`MCLocalWork`) | `CancelledSilent` | a cancelled call sends no response | a cancellation in the turn of the handler's end is swallowed |
| | `EveryCallAnswered` | a pooled call sends its own response | not when the handler raises |
| | `NothingDangling` | nothing is left dangling | a task that the client cancelled is not awaited |
| `calls_strict` (`MCCallPath`) | `AttestationsPaired` | an attestation, "then a paired outcome once the call resolves" (`signing.py`) | in strict mode the exception leaves the loop before the outcome is recorded |
| `scan_callouts` with `RewritesApplied` | `RewritesApplied` | "200 with a modified body substitutes the CDR-rewritten content" (`icap.py`) | a rewrite that is no base64 is dropped and the original forwarded |
| `http_pool` with `NothingLeaks` | `NothingLeaks` | close our end of a connection that the backend closed (`serve_http.py:81`) | not when the response was cut off, which raises |
| `surface_disagreements` (`MCToolSurface`) | `CallReachesLister` | the explicit renames are served | a renamed local tool is called on nobody; a backend with a handler's id is hidden |
| | `PagesComplete` | a filtered list is forwarded to the backend | one that honours it applies a pattern meant for prefixed names to its own |
| | `PriorityKeepsBest` | higher-priority backends win | with one backend, names that contain the delimiter are taken for another backend's copies |
| | `PassthroughLive` | a call by the original name resolves to one backend | to the first that ever listed it, also when it no longer does |
| | `RestIsFindable` | the search tool finds the rest | not the local tools, nor what is on later pages |
| `pure_disagreements` (`MCAlgorithms`) | `DocumentsServe` | a document that passes can be served | a backend may be called like the built-in handler, which hides it |
| | `SubFlagsRaised` | a union of support, not last-writer-wins (`capability.py`) | a later backend's `false` overrides an earlier `true` |
| | `VariantsOfAll` | no variant that one of the backends cannot serve (`variants.py`) | one with an empty list of variants does not count |
| | `DiffsAreReal` | a difference is a real behavioural change (`config.py`) | an explicit default and an absent key differ |

Others that the models show but no statement covers: a late callout answer is
cached under another content's digest; a response of a wrong frame escapes
`_call` and ends the scan with an exception, and what follows its header may be
the answer to the next callout; a pooled connection that the backend
had closed is answered `{}`; an exchange of the stateless servers has no timeout;
a denied message after the client's end was passed on kills L1's pump; a blob
that does not decode is forwarded unscanned; a filter that declares content types
is asked about no request; a call that the filters block has an outcome without
an attestation; a handler that raises in the pool answers nobody; local tools are
repeated on every page and a strategy is applied per page; an event stream that
the client left takes a message with it, and DELETE does not end it; SSE loses a
carriage return at the end of a line of the payload.

The behaviours that depend on the Python version (`DrainedAtEnd`,
`CancelledSilent`) are those of Python 3.11, the oldest that `pyproject.toml`
admits; from 3.12 on `wait_for` lets the cancellation through. In both it waits
for a handler that it cancelled.

### Fairness

- *BackendConn*: weak fairness of every caller's step and of the reader: the
  event loop runs whatever can run, timers fire. A transport drains if the
  backend reads, which it need not: `RequestsEnd` is about one that does
  (`BackendReads`). The backend need not answer; nobody need send.
- *LocalWork*: of every step the loop owes a call or a task, of the route loop's
  own steps and of the clock. No handler is obliged to return, but one that is
  cancelled stops, where handlers do not absorb cancellations (`Faults`).
- *RouteLoop*: also of the client's reading and replying and of the backends'
  reading and answering a call once they know what they asked for: what is
  asked there is whether the *proxy* lets two willing parties finish.
- *StreamableSession*: of handlers and router; a routed call ends with an answer
  or a failure unless its backend waits for the client, and `close()`'s two
  seconds pass. The client need not post.
- *Callout*: of the scanner, whose timer fires, and of its send while the service
  has not stopped reading: `ScansEnd` is about one that keeps reading or hangs up.
  The service need not answer.
- *Relays*: of the pumps and the handshake. *StatelessServing*: of the handlers,
  and of a backend that was sent a request, which answers or closes: no timeout
  guards an exchange.

## 4. The proofs

Every component with tasks of its own that share state has a module of
theorems, `<Component>Proofs`, which extends the component's module. A theorem
holds for every value of the constants: any number of callers, clients,
backends, calls, sockets, streams, any cap, threshold, timeout and bound; where
section 3 has a run, it is the same definition on a small instance.

| module | theorem | property |
|---|---|---|
| `BackendConnProofs` | `SendLockExcludes` | `WritesExclusive` |
| | `NoRequestForgotten` | `NobodyForgotten` |
| | `NoCrossedAnswers` | `AnswersOwn` |
| | `CoherentBreaker` | `BreakerCoherent` |
| | `OpensOnEnoughFailures` | `OpensOnConsecutiveFailures` |
| | `StaysOpenUntilReset` | `OpenUntilReset`, an action property |
| | `StopFailsEveryone` | `StopFailsAll`, an action property |
| | `Refinement` | `KeepsContract`: the connection implements `RpcContract` |
| `LocalWorkProofs` | `PoolAccounted` | `SlotsAccounted`, `InFlightAgrees` |
| | `WritesExclusive` | `ClientWritesExclusive` |
| | `AnsweredAtMostOnce` | `AnsweredOnce` |
| | `LiveWorkFound` | `LiveWorkReachable` |
| | `DrainComplete` | `DrainLeavesNone` |
| | `FinalWordStands` | `StatusNeverRegresses`, an action property |
| `ListServingProofs` | `PrivateResultsStayPrivate` | `PrivateStaysPrivate` |
| | `StaleEntriesWereOvertaken` | `StaleOnlyIfOvertaken` |
| | `MissingPartsDeclared` | `NothingMissingSilently` |
| `RouteLoopProofs` | `NoCrossedReplies` | `RepliesGoHome` |
| | `NoSecondOutcome` | `SettledOnce` |
| | `SerialAnswers` | `AnsweredInOrder` |
| | `NoReplyOrphaned` | `CorrelationKept` |
| `StreamableSessionProofs` | `AnswersPaired` | `StrictAnswerMatches` |
| | `EventsReachOneStream` | `EventsOnce` |
| `StatelessServingProofs` | `AnswersToTheirRequests` | `AnswersMatch` |
| | `NoSecondExecution` | `ExecutedOnce` |
| | `ConnectionsNotShared` | `ConnectionsExclusive` |
| | `DenialsAnswered` | `DeniedAnswered` |
| | `PumpsImplementChannels` | `PumpsAreChannels`: each pump of `Relays` implements `FifoChannel` |
| `CalloutProofs` | `VerdictsAreForTheirContent` | `VerdictFits` |
| | `FailurePolicyHolds` | `FailurePolicyDecides` |
| | `VerdictsStick` | `VerdictSticks`, an action property |
| `CallPathProofs` | `CallsAccountedFor` | `AttestationsPaired` |
| | `ChainUnbroken` | `LogVerifies` |
| | `HandlesLeadHome` | `HandlesRouteHome` |
| | `NoUpdateAfterUnsubscribe` | `UpdatesOnlyWhileSubscribed`, an action property |
| | `ServedAsScanned` | `ScannedAsForwarded` |
| | `MarkedNamesReadBack` | `Reversible`, of every id and name |
| | `MarkedUrisReadBack` | `UriReversible`, of every id and URI |
| | `CallsReachTheirLister` | `CallReachesLister`, of `ToolSurface` |
| | `PriorityServesBest` | `PriorityKeepsBest`, of `ToolSurface` |
| | `WalksAreComplete` | `PagesComplete`, of `ToolSurface` |
| | `WalksKeepVariant` | `WalkKeepsVariant`, of `ToolSurface` |

Each module also has `Invariance`, that its `IndInv` is an invariant, from which
the others follow, and `TypeCorrect`; where a module serves a second component,
these are `PumpsInvariance`, `PumpsTypeCorrect` for `Relays`, which is beside
`StatelessServing`, and `SurfaceInvariance`, `SurfaceTypeCorrect` for `ToolSurface`,
which shares with `CallPath` the lemmas about `Namespace`. Each `IndInv` was first
checked by TLC in the instances of section 3.

### Assumptions

The named assumptions of the modules: bounds are natural numbers, flags are
Booleans, sets of faults and modes hold only what the actions know; the breaker's
threshold is positive (`BreakerAssumption`), the route loop is one of the
callers (`CallersAssumption`), calls, tasks and the loop are different
(`WorkAssumption`), there is a backend and a list method
(`ConfigurationAssumption`), ids are strings and none is the absent id
(`CallPathAssumption`), a chain is a sequence of filters (`ChainsAssumption`),
backends offer sequences of names that are not empty (`OffersAssumption`). TLC
evaluates them in the runs. Some theorems assume more, each because the code does
not give the property without it:

- `Refinement`: no request of the backend bears an id of the proxy's
  (`ServerIds = {}`). The read loop takes one that does for the answer
  (`conn_ids`), and the call returns unexecuted.
- `CallsAccountedFor`: the router has a breaker (`Resilient`). A strict one ends
  with the exception of a call before its outcome is recorded (`calls_strict`).
- `HandlesLeadHome`: every backend's id is valid and does not end in the
  delimiter's character. `valid_backend_id` accepts one that ends in `_`, and the
  name it marks is split one character too early (`pure_disagreements`).
- The theorems on `ToolSurface` but `WalksKeepVariant`: `WellFormed`. Ids are distinct, plain (as in
  `HandlesLeadHome`) and no backend has a handler's; a page of a backend holds at
  least one tool.
- `CallsReachTheirLister`: `Callable`. No name that is served without its owner's
  id (passed through, or of the only backend) reads as a handler's or as the search
  tool; under `manual` the renames are one to one, of backends' tools, to names
  without the delimiter.
- `PriorityServesBest`: no configuration with that strategy has a single backend,
  whose names are not prefixed and may contain the delimiter by themselves.
- `WalksAreComplete`: backends do not apply the patterns that are pushed down to
  them, which are meant for prefixed names.

`surface_disagreements` has a counterexample for each of the last four. The
configurations of the run `surface` satisfy all of them, which `SoundConfigs` of
`MCToolSurface` has TLC evaluate.

### The inductive invariants

**BackendConn.** `TypeOK` needs `LockOrder` (whoever writes heads the queue),
since releasing the lock takes the `Tail` of a queue that must not be empty; it
is also all there is to mutual exclusion. `NobodyForgotten` is not inductive
alone: one request's end removes its id, which is harmless only if no other
request has that id (`OwnIds`), and a fresh id is new only if all known ones are
at most `next_id`. `AnswersOwn` needs `AnswersExecuted`: what the reader takes
from the wire was executed before it was put there. `OpensOnConsecutiveFailures`
needs `BreakerCoherent` and `FailuresCounted` (the count never exceeds the run of
failures, plus the one that `_handshake` records again); that the extra one is
counted once needs `HandshakeAlone`. `OpenUntilReset` needs besides that no
outcome was recorded before the handshake's (`HandshakeFresh`). The refinement
needs `OncePart` (an id is with its caller, in the queue or executed, never two
of these, and has no outcome while its caller is in `request`) and `AnswersOnly`
(a future is resolved by a response); `StepKeepsContract` then says of every step
which step of the contract it is: an issue, an execution, the outcome of one
request, or nothing.

**LocalWork.** The slots and the registry are where `pc` says (`SlotsAccounted`,
`InFlightAgrees`), which counts slots, so that they are finite is part of it. A
waiter is in its queue and a writer at its head (`WaitersQueued`,
`WritersHead`). That the drain leaves nothing needs what it awaits to be all that
lives (`DrainCovers`), and that to be found at all, `LiveWorkReachable`; a call that
`wait_for` holds (`expiring`, `leaving`) is in all the tables.
`AnsweredOnce` needs that a call answers only in `writing` and that one given up
without a deadline has not got there and will unwind (`AnswersCounted`). A final
word stands because a reply in the making is not older than the store
(`ToldIsCurrent`): the loop reads the store before it waits for the lock.

**ListServing.** A result travels from a backend over the wire into a part of a
list and from there into the cache. `PrivacyInv` says at each of these places
whose request it answered; `CurrencyInv` that it is no older than what any router
has announced, unless an announcement overtook it; `PartsInv` which parts are
there in each phase, and that `unavailable` is who is absent but not in `reset`.
For currency the versions on a wire must be bounded by the
backend's own (`Dated`), or an announcement could go beyond what was offered.

**RouteLoop.** `RoutedInv`: a message about a request bears an id that means that
request as long as it is correlated, so that an id is never given out twice.
`PlacesInv`: a request of a backend is on its way to the proxy, correlated, on its
way back, or settled: one of these and once; hence one outcome. `OrderInv` is the
order of the calls as intervals of their numbers: answered, on the way back, with
the loop, on the way to it. `AskInv`: what the client says about a request it says
once and after reading it, which is why the correlation is still there.

**StreamableSession.** Responses are paired with requests by order alone, so the
invariant is about what is outstanding. The lock is held by its head, which alone
may wait for a response (`LockInv`); in a router without breakers what it has to
answer, is answering or has answered is one message, and the holder's
(`ExchangeInv`). `StageInv` says what cannot have happened before the opening POST
got its answer. Events are a window moving over their numbers (`EventsInv`).

**StatelessServing.** `HandlerInv` says what a handler and the connection it uses
have in common at every station of an exchange, above all that the request it is
about to send was executed nowhere (`Fresh`) and that all that can be read on the
connection is the answer to it (`Exchanges`); `SharingInv` and `PoolInv` that
nobody else can touch that connection; `SocketInv` that one left behind has no
request to execute. A pooled connection is clean unless it is `skewed`: of one that
is, only that its requests are executed once is left, and what is read from it
marks the reply.

**Callout.** Until something has strayed (a deadline passed, or an answer was no
frame), the transport holds the one request
under way or its answer (`OneInFlight`): without it a verdict fits its content
only by luck. `PolicyApplied` says of every verdict, also of a cached one, that
one that comes from the failure policy is the one it prescribes.

**CallPath.** `LoopInv`: at most one request of the route loop is under way, or
its answer waits for the client lock. On it rest the pairing of the log's
records (`LogInv`, for records of pooled calls interleave with it), the way of a
handle (`RouteInv`: what the router sent to which backend, what the answers are
to, whose id a handle hides) and the updates. For these, `LockInv` says that no
update waits behind the word that ends it, `WantInv` that whatever can still
produce an update is wanted, and `TurnInv` that no update follows the answer to
an unsubscribe on a backend's wire. That a handle is read back is `PrefixSplit`,
about the first occurrence of the delimiter in a sequence of any length; the
characters are abstract there, and only that the delimiter's is one is used.
`ScanInv` says of every request that the filters let pass, wherever it stands
(under way, in the pool, served), that its message is what `run` made of the
request (`Cleared`). The rest is about `run` alone (`ForwardedAsScanned`): as long
as no verdict is terminal, what the next filter is shown is what `chain_outcome`
makes of the verdicts so far, so the messages shown are the stages of the request.

**Relays.** `RelayInv` has `HandshakeInv`, what `ForwardProxy` wrote and took
before the pumps began, and for each direction `PumpInv`: what is due of the
messages a pump has taken is what arrived and the one in its hand, and it closes
its destination last. The queues of the abstract channel are the messages that
come after the handshake's and are not denied (`Kept`), of which a step of a pump
lengthens one at its end. `DeniedAnswered` counts on both sides and is inductive
with these.

**ToolSurface.** `SurfaceInv` says what a page can hold (`PageEntries`: tools of
backends and handlers under the names that the strategy gives them, and the search
tool), that cursors and the reverse map speak of the configured backends, and that
every passthrough name on a page is recorded. `CallsReachTheirLister` then is a
statement about names: what each kind of entry is resolved to, by what the first
delimiter of a name is. `PriorityKeepsBest` is inductive with it, as `Bests` of the
page that one list gives: `BestCopy` exists because ranks are numbers and the
copies finite. `WalkInv` says how far a walk has come: of each backend that was
never missing, the client has seen what is due of the first n tools offered, where n
is what the cursor says of it, or all when the cursor does not name it (`Progress`).
A page moves n to the end of the answer, which is never short of it, and neither
merging, filtering, renaming nor the handlers' tools adds or removes any of the
backend's entries (`OwnedPage`).

Proofs go by frame lemmas (a step that leaves certain variables alone keeps this
part) and effect lemmas (what an action does to one queue or record), and then
one case per action. What a loop of the code computes (`Sifted`, `Merged`,
`Reduced`, `Asked`, `Kept`) is a recursive function on `0..n`; that a statement
holds at every place of it is an induction, which goes through the set of the
places where it holds (`Climbing`): a set that contains 0 and with a place the next
one contains them all.

### Only model-checked

- Liveness under fairness (`RequestsEnd`, `CallsEnd`, `ScansEnd`, `ReplyArrives`,
  `CallsAnswered`, `DeleteEnds`) and anything with `ENABLED` is beyond the prover.
- What `MCAlgorithms` checks: `CompositionFaithful`, `DocumentsServe` and
  `FramesArrive` are about folds (`FoldLeft`, `SelectSeq`) over capabilities,
  documents and octets, which the provers do not unfold. Of `NamesReversible` both
  parts are proved of every input, `Reversible` (names, for ids that do not end in
  the delimiter's character) and `UriReversible` (URIs); what TLC adds is the run.

## 5. What is not modelled, and why

- Payloads: tool arguments, results, schemas, labels, metadata, tracing,
  redaction, wording of errors. The properties do not tell them apart.
- Cryptography (`signing.py`'s HMAC), token checks, origin and policy predicates,
  JSON Schema, REST translation: stateless and about strings.
- The parsing of HTTP requests, the server card and the status page; the limit of
  a StreamReader, at which `receive` raises; sockets and their packets.
- `ResilientRouter`, the sequential ancestor of `ForwardRouter`, which no entry
  point uses; conformance drivers, tools and examples.
- In `RouteLoop`, notifications broadcast to all backends and those that a backend
  sends about its own requests; in `LocalWork`, reuse of a request id in flight.
- The cache in `ToolSurface`, and names in `ListServing`: the two are separate
  because a list that is filtered, continued or of a variant bypasses the cache.
- Time is ticks. A timer may fire at any step once armed (`Expire`, `TimesOut`,
  `Deadline`), which includes every real duration.

## 6. Plan

Done: the connection with its breaker and contract, local work, lists, the route
loop and sessions; then the tool surface, the call path, callouts, exchanges,
relays, framing, and the pure parts of composition and configuration.

Next, compositions: `RouteLoop` with `BackendConn`'s failures and breakers in
place of `TimesOut`; `StreamableSession` over `RouteLoop`; the notifications of
a backend about its own requests in `RouteLoop`.

Theorems worth proving next: `RouteLoop` as an implementation of an abstract
exchange of requests and replies; that a document that `Config` accepts gives a
configuration that is `WellFormed`, but for the ids that section 3 names; the
framings, with their decoders as recursive functions.
