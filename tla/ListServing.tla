---------------------------- MODULE ListServing ----------------------------
(***************************************************************************)
(* Aggregated lists and the cache that client connections share            *)
(* (src/yamp/cache.py, ForwardRouter._collect, _server_message and         *)
(* emit_if_surface_changed in src/yamp/router.py, started by               *)
(* src/serve.py with one ListCache for every connection).                  *)
(*                                                                         *)
(* Each client has a ForwardRouter of its own with its own connections to  *)
(* the backends.  A list request looks every available backend up in the   *)
(* cache and asks the others; the answers come back on the connections, in *)
(* order with the backends' list_changed notifications; when all are in,   *)
(* the fetched results are cached and the list is sent.                    *)
(*                                                                         *)
(* A result is abstracted to the version of the backend's surface that it  *)
(* shows.  The connection itself is in BackendConn: here a request either  *)
(* gets its answer or fails.  The breaker is abstracted to whether it      *)
(* admits requests.                                                        *)
(***************************************************************************)
EXTENDS Integers, Sequences, FiniteSets

CONSTANTS
    Clients,     \* client connections
    Principal,   \* [Clients -> principals]: whose requests a connection carries
    NBackends,   \* backends are numbered in the order of the configuration
    Methods,     \* list methods
    Resilient,   \* whether backends have breakers
    Ttls,        \* values of ttlMs a backend may send, in ticks
    DefaultTtl,  \* ListCache's default_ttl_ms, for a result without ttlMs
    Scopes,      \* values of cacheScope a backend may send
    MaxVersion,  \* bound: changes of one backend's surface
    MaxLists,    \* bound: list requests of one client
    MaxTime      \* bound: ticks of the clock

Backends == 1 .. NBackends

ASSUME ConfigurationAssumption ==
    /\ NBackends \in Nat \ {0}
    /\ Methods # {}
    /\ Resilient \in BOOLEAN
    /\ Ttls \union {DefaultTtl} \subseteq Nat
    /\ Scopes \subseteq {"public", "private"}
    /\ DOMAIN Principal = Clients
    /\ {MaxVersion, MaxLists, MaxTime} \subseteq Nat

VARIABLES
    entries,  \* ListCache._entries
    now,      \* the cache's clock
    version,  \* the surface each backend really has
    wire,     \* [client][backend]: what the backend sent and nobody read yet
    loop,     \* each client's route loop
    lists,    \* list requests of each client so far
    open,     \* per client, the backends whose breaker refuses requests
    surface,  \* per client, ForwardRouter._surface
    seen,     \* [client][backend]: the latest version announced to the client
    told      \* history: the latest version announced to any router

vars == <<entries, now, version, wire, loop, lists, open, surface, seen, told>>

None == [absent |-> TRUE]
Keys == Backends \X Methods
Nobody == "nobody"
Nothing == [src |-> "none", version |-> 0, scope |-> "public", ttl |-> 0,
            error |-> FALSE, asker |-> Nobody, overtaken |-> FALSE, survived |-> {}]

(***************************************************************************)
(* The cache                                                               *)
(***************************************************************************)
Expired(e) == now >= e.expires
Readable(e, p) == e.result.scope = "public" \/ e.principal = p

Hit_AnyPrincipal(b, m, p) ==   \* mutant: a private entry is served to everybody
    entries[b, m] # None /\ ~Expired(entries[b, m])

\* A lookup returns the stored result, and deletes an entry past its ttl.
Hit(b, m, p) == entries[b, m] # None /\ ~Expired(entries[b, m]) /\ Readable(entries[b, m], p)

\* The lookups of one list delete what has expired among the entries they meet.
Purged(m, bs) ==
    [k \in Keys |-> IF k[2] = m /\ k[1] \in bs /\ entries[k] # None /\ Expired(entries[k])
                    THEN None ELSE entries[k]]

Entry(r, p) == [result    |-> r,
                   expires   |-> now + r.ttl,
                   principal |-> IF r.scope = "private" THEN p ELSE Nobody,
                   survived  |-> {}]

\* Storing a result replaces the entry; a ttl of zero only removes it.
Stored_Zero(m, rs, p) ==   \* mutant: a ttl of zero is stored
    [k \in Keys |-> IF k[2] = m /\ k[1] \in DOMAIN rs THEN Entry(rs[k[1]], p) ELSE entries[k]]
Stored(m, rs, p) ==
    [k \in Keys |-> IF k[2] = m /\ k[1] \in DOMAIN rs
                    THEN IF rs[k[1]].ttl = 0 THEN None ELSE Entry(rs[k[1]], p)
                    ELSE entries[k]]

\* invalidate_backend: every entry of the backend goes, of whatever method.
Dropped_Kept(bs, es) == es   \* mutant: an invalidation drops nothing
Dropped(bs, es) == [k \in Keys |-> IF k[1] \in bs THEN None ELSE es[k]]

(***************************************************************************)
(* The route loop of one client                                            *)
(***************************************************************************)
Idle == [pc |-> "idle", method |-> CHOOSE m \in Methods : TRUE,
         part |-> [b \in Backends |-> Nothing], unavailable |-> {}, reset |-> {},
         floor |-> [b \in Backends |-> 0]]

Init ==
    /\ entries = [k \in Keys |-> None]
    /\ now = 0
    /\ version = [b \in Backends |-> 0]
    /\ wire = [c \in Clients |-> [b \in Backends |-> <<>>]]
    /\ loop = [c \in Clients |-> Idle]
    /\ lists = [c \in Clients |-> 0]
    /\ open = [c \in Clients |-> {}]
    /\ surface = [c \in Clients |-> Backends]
    /\ seen = [c \in Clients |-> [b \in Backends |-> 0]]
    /\ told = [b \in Backends |-> 0]

Awaited(c) == {b \in Backends : loop[c].part[b].src = "wait"}
Failed(c) == {b \in Backends : loop[c].part[b].src = "failed"}

\* The backends missing from the list, declared to the client in _meta.
Missing_NoFailures(c) == loop[c].unavailable   \* mutant: failures are not declared
Missing(c) == loop[c].unavailable \union Failed(c)

\* A list request of client c: cache hits are taken at once, the other
\* available backends are asked.  With nothing to ask the answer leaves
\* in the same turn.  Which breakers refuse is read twice, first for whom to
\* ask and then for whom to declare missing; a reset timeout that ends in
\* between makes the second reading the smaller one (reset: whose).
List(c, m) ==
    LET refusing == IF Resilient THEN open[c] ELSE {}
        avail == Backends \ refusing
        hits  == {b \in avail : Hit(b, m, Principal[c])}
        found(b) == [entries[b, m].result EXCEPT
                        !.src = "cache",
                        !.survived = entries[b, m].survived]
    IN /\ loop[c].pc = "idle" /\ lists[c] < MaxLists
       /\ lists' = [lists EXCEPT ![c] = @ + 1]
       /\ entries' = Purged(m, avail)
       /\ \E reset \in SUBSET refusing :
          /\ loop' = [loop EXCEPT ![c] =
             [pc          |-> IF avail = hits THEN "sending" ELSE "fetching",
              method      |-> m,
              part        |-> [b \in Backends |->
                                 IF b \in hits THEN found(b)
                                 ELSE IF b \in avail
                                      THEN [Nothing EXCEPT !.src = "wait"]
                                      ELSE Nothing],
              unavailable |-> refusing \ reset,
              reset       |-> reset,
              floor       |-> seen[c]]]
          /\ open' = [open EXCEPT ![c] = @ \ reset]
       /\ UNCHANGED <<now, version, wire, surface, seen, told>>

\* All requests of the gather are over.  The fetched results are cached in
\* the order of the backends; in strict mode the first failure is raised,
\* which ends the connection after the results before it were cached.
Gathered(c) ==
    LET first == IF Failed(c) = {} THEN NBackends + 1
                 ELSE CHOOSE b \in Failed(c) : \A o \in Failed(c) : b <= o
        cached == {b \in Backends : loop[c].part[b].src = "fetched"
                                    /\ (Resilient \/ b < first)}
    IN /\ loop[c].pc = "fetching" /\ Awaited(c) = {}
       /\ entries' = Stored(loop[c].method, [b \in cached |-> loop[c].part[b]], Principal[c])
       /\ loop' = [loop EXCEPT ![c] = [@ EXCEPT
             !.pc = IF Resilient \/ Failed(c) = {} THEN "sending" ELSE "dead",
             !.unavailable = Missing(c)]]
       /\ UNCHANGED <<now, version, wire, lists, open, surface, seen, told>>

\* History: the requests for backends bs that an invalidation overtakes.
Overtaken(bs, lp) ==
    [c \in Clients |-> [lp[c] EXCEPT !.part = [b \in Backends |->
        IF b \in bs /\ lp[c].pc = "fetching"
        THEN [lp[c].part[b] EXCEPT !.overtaken = TRUE] ELSE lp[c].part[b]]]]

(***************************************************************************)
(* emit_if_surface_changed: backends that left the available set lose      *)
(* their entries.                                                          *)
(***************************************************************************)
Announced(c, refused, es, lp) ==
    LET current == Backends \ refused
        left    == surface[c] \ current
    IN IF Resilient /\ current # surface[c]
       THEN /\ entries' = Dropped(left, es)
            /\ loop' = Overtaken(left, lp)
            /\ surface' = [surface EXCEPT ![c] = current]
       ELSE entries' = es /\ loop' = lp /\ UNCHANGED surface

\* The list is written; the loop then announces a changed surface.
Sent(c) ==
    /\ loop[c].pc = "sending"
    /\ Announced(c, open[c], entries, [loop EXCEPT ![c] = Idle])
    /\ UNCHANGED <<now, version, wire, lists, open, seen, told>>

\* History: the entries there are when client c's breaker of b opens.
Outlived(c, b) ==
    [k \in Keys |-> IF k[1] = b /\ entries[k] # None
                    THEN [entries[k] EXCEPT !.survived = @ \union {c}] ELSE entries[k]]

\* A failure opens the breaker when it is the last one that it takes.
Trips(c, b) == Resilient /\ b \notin open[c]

\* A request of the gather fails: timeout, end of stream, write error.
Fail(c, b) ==
    /\ loop[c].pc = "fetching" /\ loop[c].part[b].src = "wait"
    /\ loop' = [loop EXCEPT ![c].part[b].src = "failed"]
    /\ \/ UNCHANGED <<open, entries>>
       \/ /\ Trips(c, b)
          /\ open' = [open EXCEPT ![c] = @ \union {b}]
          /\ entries' = Outlived(c, b)
    /\ UNCHANGED <<now, version, wire, lists, surface, seen, told>>

\* A ping of the health loop ends and the surface is compared at once.
PingSucceeds(c, b) ==
    /\ Resilient
    /\ open' = [open EXCEPT ![c] = @ \ {b}]
    /\ Announced(c, open'[c], entries, loop)
    /\ UNCHANGED <<now, version, wire, lists, seen, told>>

\* One that fails, or that an open breaker refuses, is followed by it as well.
PingFails(c, b) ==
    /\ Resilient
    /\ \/ /\ UNCHANGED open
          /\ Announced(c, open[c], entries, loop)
       \/ /\ Trips(c, b)
          /\ open' = [open EXCEPT ![c] = @ \union {b}]
          /\ Announced(c, open'[c], Outlived(c, b), loop)
    /\ UNCHANGED <<now, version, wire, lists, seen, told>>

\* The reset timeout of an open breaker has passed: it admits requests.
HalfOpen(c, b) ==
    /\ b \in open[c]
    /\ open' = [open EXCEPT ![c] = @ \ {b}]
    /\ UNCHANGED <<entries, now, version, wire, loop, lists, surface, seen, told>>

(***************************************************************************)
(* The connection: answers and list_changed arrive in the order sent       *)
(***************************************************************************)
\* Client c's reader takes the next message of backend b.
Deliver(c, b) ==
    /\ wire[c][b] # <<>> /\ loop[c].pc # "dead"
    /\ wire' = [wire EXCEPT ![c][b] = Tail(@)]
    /\ LET msg == Head(wire[c][b]) IN
       \/ /\ msg.kind = "answer"
          /\ loop' = IF loop[c].part[b].src = "wait" /\ msg.list = lists[c]
                     THEN [loop EXCEPT ![c].part[b] = [msg.result EXCEPT !.overtaken = loop[c].part[b].overtaken]]
                     ELSE loop
          /\ open' = IF loop' # loop THEN [open EXCEPT ![c] = @ \ {b}] ELSE open
          /\ UNCHANGED <<entries, seen, told>>
       \/ /\ msg.kind = "changed"
          /\ entries' = Dropped({b}, entries)
          /\ loop' = Overtaken({b}, loop)
          /\ told' = [told EXCEPT ![b] = IF msg.version > @ THEN msg.version ELSE @]
          /\ seen' = [seen EXCEPT ![c][b] = msg.version]
          /\ UNCHANGED open
    /\ UNCHANGED <<now, version, lists, surface>>

\* Backend b's surface, under the directives it sends along.
Shown(c, b, directives, error) ==
    [Nothing EXCEPT !.src = "fetched", !.version = version[b], !.asker = Principal[c],
                    !.ttl = directives.ttl, !.scope = directives.scope, !.error = error]

\* What backend b may answer: its surface, or an error, which the proxy
\* takes for an empty list without directives.
Results(c, b) ==
    {Shown(c, b, d, FALSE) : d \in [ttl : Ttls, scope : Scopes]}
       \union {Shown(c, b, [ttl |-> DefaultTtl, scope |-> "public"], TRUE)}

\* A backend answers client c's pending list request with its surface.
Answer(c, b) ==
    /\ loop[c].part[b].src = "wait"
    /\ \A i \in DOMAIN wire[c][b] : wire[c][b][i].list # lists[c]
    /\ \E res \in Results(c, b) :
          wire' = [wire EXCEPT ![c][b] = Append(@,
             [kind |-> "answer", list |-> lists[c], version |-> version[b], result |-> res])]
    /\ UNCHANGED <<entries, now, version, loop, lists, open, surface, seen, told>>

\* A backend's surface changes; it announces that on every connection.
Change(b) ==
    /\ version[b] < MaxVersion
    /\ version' = [version EXCEPT ![b] = @ + 1]
    /\ wire' = [c \in Clients |-> [wire[c] EXCEPT ![b] = Append(@,
             [kind |-> "changed", list |-> 0, version |-> version[b] + 1, result |-> Nothing])]]
    /\ UNCHANGED <<entries, now, loop, lists, open, surface, seen, told>>

Tick ==
    /\ now < MaxTime
    /\ now' = now + 1
    /\ UNCHANGED <<entries, version, wire, loop, lists, open, surface, seen, told>>

Next ==
    \/ \E c \in Clients :
          \/ \E m \in Methods : List(c, m)
          \/ Gathered(c)
          \/ Sent(c)
    \/ \E c \in Clients, b \in Backends :
          \/ Fail(c, b) \/ Deliver(c, b) \/ Answer(c, b)
          \/ PingSucceeds(c, b) \/ PingFails(c, b) \/ HalfOpen(c, b)
    \/ \E b \in Backends : Change(b)
    \/ Tick

Spec == Init /\ [][Next]_vars

(***************************************************************************)
(* Properties                                                              *)
(***************************************************************************)
Slot == [src : {"none", "wait", "failed", "cache", "fetched"},
         version : 0 .. MaxVersion, scope : {"public", "private"}, ttl : Ttls \union {0, DefaultTtl},
         error : BOOLEAN, asker : {Principal[c] : c \in Clients} \union {Nobody},
         overtaken : BOOLEAN, survived : SUBSET Clients]

Route == [pc : {"idle", "fetching", "sending", "dead"}, method : Methods, part : [Backends -> Slot],
          unavailable : SUBSET Backends, reset : SUBSET Backends, floor : [Backends -> 0 .. MaxVersion]]
Cached == [result : Slot, expires : Nat, principal : {Principal[c] : c \in Clients} \union {Nobody},
           survived : SUBSET Clients]
Message == [kind : {"answer", "changed"}, list : 0 .. MaxLists, version : 0 .. MaxVersion, result : Slot]

\* The type of every variable (the fields of ListCache and ForwardRouter).
TypeOK ==
    /\ entries \in [Keys -> Cached \union {None}]
    /\ \A k \in Keys : entries[k] # None =>
          /\ entries[k].result.ttl > 0
          /\ entries[k].expires \in 1 .. MaxTime + entries[k].result.ttl
    /\ now \in 0 .. MaxTime
    /\ version \in [Backends -> 0 .. MaxVersion]
    /\ wire \in [Clients -> [Backends -> Seq(Message)]]
    /\ loop \in [Clients -> Route]
    /\ lists \in [Clients -> 0 .. MaxLists]
    /\ open \in [Clients -> SUBSET Backends]
    /\ surface \in [Clients -> SUBSET Backends]
    /\ seen \in [Clients -> [Backends -> 0 .. MaxVersion]]
    /\ told \in [Backends -> 0 .. MaxVersion]

\* What a client is served out of the cache from a private result was asked
\* for on behalf of its own principal, whoever shares the cache
\* (ListCache.get and put).
PrivateStaysPrivate ==
    \A c \in Clients, b \in Backends :
        loop[c].part[b].src = "cache" /\ loop[c].part[b].scope = "private"
            => loop[c].part[b].asker = Principal[c]

\* An entry that is older than what any router has announced can only come
\* from a request that was already under way when the announcement was
\* processed: nothing asked for afterwards, and nothing that was cached
\* before, is stale (_server_message invalidates, _collect stores).
StaleOnlyIfOvertaken ==
    \A k \in Keys : entries[k] # None /\ entries[k].result.version < told[k[1]]
        => entries[k].result.overtaken

\* The backends that contributed no result to a list, whatever became of their
\* requests.  An error that a backend answers is a result, of no items.
Absent(c) == {b \in Backends : loop[c].part[b].src \notin {"cache", "fetched"}}

\* A list names a backend as unavailable exactly if it got no result of it,
\* except for a backend whose breaker refused when it was chosen whom to ask and
\* no longer when it was noted whom the list lacks: that one is not named,
\* and no other goes unnamed (_collect's unavailable and results).
NothingMissingSilently ==
    \A c \in Clients : loop[c].pc = "sending" => loop[c].unavailable = Absent(c) \ loop[c].reset

\* The same without that exception ("which backends were dropped from the
\* surface and why").
AbsentNamed ==
    \A c \in Clients : loop[c].pc = "sending" => loop[c].unavailable = Absent(c)

\* A backend that answered with an error is announced as missing from the
\* list ("which backends were dropped from the surface and why").
ErrorsAnnounced ==
    \A c \in Clients, b \in Backends :
        loop[c].pc = "sending" /\ loop[c].part[b].error => b \in loop[c].unavailable

\* A list asked for after the client was told of a change shows that change
\* ("a backend's own list_changed invalidates its cached lists before the
\* notification is relayed onward").
ChangeIsVisible ==
    \A c \in Clients, b \in Backends :
        loop[c].part[b].src \in {"cache", "fetched"}
            => loop[c].part[b].version >= loop[c].floor[b]

\* A backend whose breaker opened is fetched anew after it recovered ("drop
\* its cached lists so a recovered backend is re-fetched").
RecoveredIsRefetched ==
    \A c \in Clients, b \in Backends :
        loop[c].part[b].src = "cache" => c \notin loop[c].part[b].survived
=============================================================================
