-------------------------- MODULE StatelessServing --------------------------
(***************************************************************************)
(* The proxies without a session.  Each client connection has a handler     *)
(* that reads a request, exchanges it with a backend, and answers:          *)
(*   "http"       serve_http.py: backend connections are kept alive and     *)
(*                pooled among all clients;                                 *)
(*   "forwarder"  StatelessForwarder (stateless.py) under serve_stateless:  *)
(*                each client connection has its own connection to every    *)
(*                backend;                                                  *)
(*   "l2"         TransparentL2Stateless, which also reads the body.        *)
(***************************************************************************)
EXTENDS Naturals, Sequences, FiniteSets, SequencesExt

CONSTANTS
    Clients,      \* client connections
    Backends,     \* configured backends
    Sockets,      \* bound: backend connections that can be open
    MaxRequests,  \* bound: requests of one client connection
    None

\* A request is known by its connection and its number there.
Request == Clients \X Nat

\* What a read of a response gives: all of it, an end too early, or, over HTTP,
\* what comes before a blank line without a Content-Length: a response that has
\* no body ("bare"), or the head of one of which more is to come.
Part == [for : Request, kind : {"result", "cut off", "bare", "head"}]
Connection == [backend : Backends, peer : BOOLEAN, req : Seq(Request), resp : Seq(Part), skewed : BOOLEAN]
Reply == [for : SUBSET Request, kind : {"result", "error", "empty"}, skewed : BOOLEAN]

ASSUME StatelessAssumption ==
    /\ IsFiniteSet(Backends) /\ MaxRequests \in Nat
    /\ None \notin Clients \cup Sockets /\ None \notin Connection /\ None \notin Reply

VARIABLES
    mode,
    pc,        \* pc[c]: "accept", "read", "take", "send", "wait", "respond", "closed"
    count,     \* count[c]: the number of requests handler c has read
    todo,      \* todo[c]: the backends it still has to exchange with
    using,     \* using[c]: the socket of its exchange, or None
    reply,     \* reply[c]: its answer so far: the requests it answers, its kind,
               \* and whether it was read from a skewed connection
    socket,    \* socket[s]: a backend connection, or None; skewed (history): a head
               \* was read from it and the rest of that response left there
    owner,     \* owner[s]: the client connection it was opened for; None if pooled
    pool,      \* pool[b]: the idle sockets of backend b (pools of serve_http.py)
    executed,  \* history: requests executed, each with the backend that did it
    again      \* history: whether a backend executed one a second time

vars == <<mode, pc, count, todo, using, reply, socket, owner, pool, executed, again>>

Pooling == mode = "http"

\* What a request can be for the proxy, and what it does with it: exchange it,
\* with one backend or with all, answer an error itself, or fail and close.
Kinds ==
    CASE mode = "http"      -> {"call", "unknown tool", "not JSON", "not an object", "bad length"}
      [] mode = "forwarder" -> {"call", "discover", "unknown tool", "other method", "other version", "not JSON"}
      [] mode = "l2"        -> {"call", "discover", "unknown tool", "other method", "header mismatch", "not JSON"}

Exchanged == {"call", "discover"}

Refused ==
    {"unknown tool", "other method", "other version", "header mismatch"}
        \cup (IF Pooling THEN {"not JSON"} ELSE {})

NewSocket(b) == [backend |-> b, peer |-> TRUE, req |-> <<>>, resp |-> <<>>, skewed |-> FALSE]
FreeSockets == {s \in Sockets : socket[s] = None}
Open(s) == socket[s] # None /\ socket[s].peer
Owned(c) == {s \in Sockets : owner[s] = c /\ socket[s] # None}

\* Handler c ends and closes what handle_client's finally closes: the sockets
\* of its forwarder.  Those of serve_http belong to nobody.
Close(c) ==
    /\ pc' = [pc EXCEPT ![c] = "closed"]
    /\ socket' = IF Pooling THEN socket
                 ELSE [s \in Sockets |-> IF s \in Owned(c) THEN None ELSE socket[s]]

Answer(c, for, kind, skewed) ==
    /\ reply' = [reply EXCEPT ![c] = [for |-> for, kind |-> kind, skewed |-> skewed]]
    /\ pc' = [pc EXCEPT ![c] = "respond"]

\* handle_client opens every backend first; one that cannot be reached closes
\* the client's connection.
Accept(c) ==
    /\ pc[c] = "accept"
    /\ \/ Close(c) /\ UNCHANGED owner
       \/ /\ \E chosen \in [Backends -> FreeSockets] :
                LET opened == {chosen[b] : b \in Backends}
                    of(s) == CHOOSE b \in Backends : chosen[b] = s
                IN  /\ IsInjective(chosen)
                    /\ socket' = [s \in Sockets |-> IF s \in opened THEN NewSocket(of(s)) ELSE socket[s]]
                    /\ owner' = [s \in Sockets |-> IF s \in opened THEN c ELSE owner[s]]
          /\ pc' = [pc EXCEPT ![c] = "read"]
    /\ UNCHANGED <<mode, count, todo, using, reply, pool, executed, again>>

\* The next request, or the end of the client's stream.
Read(c) ==
    /\ pc[c] = "read"
    /\ \/ Close(c) /\ UNCHANGED <<count, todo, reply>>
       \/ /\ count[c] < MaxRequests
          /\ \E kind \in Kinds, b \in Backends :
                /\ count' = [count EXCEPT ![c] = @ + 1]
                /\ IF kind \in Exchanged
                   THEN /\ pc' = [pc EXCEPT ![c] = "take"]
                        /\ todo' = [todo EXCEPT ![c] =
                              IF kind = "call" THEN <<b>> ELSE SetToSeq(Backends)]
                        /\ reply' = [reply EXCEPT ![c] = [for |-> {}, kind |-> "result", skewed |-> FALSE]]
                        /\ UNCHANGED socket
                   ELSE IF kind \in Refused
                   THEN Answer(c, {<<c, count[c] + 1>>}, "error", FALSE) /\ UNCHANGED <<socket, todo>>
                   ELSE Close(c) /\ UNCHANGED <<reply, todo>>
    /\ UNCHANGED <<mode, using, owner, pool, executed, again>>

Fail_Retries(c) ==   \* mutant: a failed exchange is tried again
    /\ using' = [using EXCEPT ![c] = None]
    /\ pc' = [pc EXCEPT ![c] = IF Pooling THEN "take" ELSE "closed"]
    /\ UNCHANGED <<socket, reply>>

\* A failed exchange: http answers that the server is not available and forgets
\* the socket, the forwarder's serve raises.
Fail(c) ==
    /\ using' = [using EXCEPT ![c] = None]
    /\ IF Pooling
       THEN Answer(c, {<<c, count[c]>>}, "error", FALSE) /\ UNCHANGED socket
       ELSE Close(c) /\ UNCHANGED reply

Popped_Keeps(b) == pool   \* mutant: the connection stays in the pool
Popped(b) == [pool EXCEPT ![b] = Front(@)]

\* The connection to use: the one pooled last, a new one, or the handler's own.
Take(c) ==
    /\ pc[c] = "take"
    /\ LET b == Head(todo[c])
       IN  \/ /\ Pooling /\ pool[b] # <<>>
              /\ using' = [using EXCEPT ![c] = Last(pool[b])]
              /\ pool' = Popped(b)
              /\ pc' = [pc EXCEPT ![c] = "send"]
              /\ UNCHANGED <<socket, reply>>
           \/ /\ Pooling /\ pool[b] = <<>>
              /\ \E s \in FreeSockets :
                    /\ socket' = [socket EXCEPT ![s] = NewSocket(b)]
                    /\ using' = [using EXCEPT ![c] = s]
              /\ pc' = [pc EXCEPT ![c] = "send"]
              /\ UNCHANGED <<pool, reply>>
           \/ /\ Pooling /\ pool[b] = <<>>
              /\ Fail(c) /\ UNCHANGED pool
           \/ /\ ~Pooling
              /\ \E s \in Owned(c) : socket[s].backend = b /\ using' = [using EXCEPT ![c] = s]
              /\ pc' = [pc EXCEPT ![c] = "send"]
              /\ UNCHANGED <<socket, pool, reply>>
    /\ UNCHANGED <<mode, count, todo, owner, executed, again>>

\* A write to a closed connection raises or is lost.
Send(c) ==
    /\ pc[c] = "send"
    /\ LET s == using[c]
       IN  \/ /\ pc' = [pc EXCEPT ![c] = "wait"]
              /\ socket' = IF Open(s)
                           THEN [socket EXCEPT ![s].req = Append(@, <<c, count[c]>>)] ELSE socket
              /\ UNCHANGED <<using, reply>>
           \/ ~Open(s) /\ Fail(c)
    /\ UNCHANGED <<mode, count, todo, owner, pool, executed, again>>

\* The next response on the connection, whichever request it answers.  One
\* without a Content-Length is taken for an empty body, and the connection is
\* pooled with the rest of it unread.
Receive(c) ==
    /\ pc[c] = "wait" /\ socket[using[c]].resp # <<>>
    /\ LET s == using[c]
           r == Head(socket[s].resp)
           skewed == reply[c].skewed \/ socket[s].skewed
       IN  IF r.kind = "cut off"
           THEN Fail(c) /\ UNCHANGED <<todo, pool>>
           ELSE /\ using' = [using EXCEPT ![c] = None]
                /\ todo' = [todo EXCEPT ![c] = Tail(@)]
                /\ socket' = [socket EXCEPT ![s] = [@ EXCEPT
                      !.resp = Tail(socket[s].resp), !.skewed = socket[s].skewed \/ r.kind = "head"]]
                /\ pool' = IF Pooling THEN [pool EXCEPT ![socket[s].backend] = Append(@, s)] ELSE pool
                /\ IF Len(todo[c]) > 1
                   THEN /\ pc' = [pc EXCEPT ![c] = "take"]
                        /\ reply' = [reply EXCEPT ![c] =
                              [for |-> reply[c].for \cup {r.for}, kind |-> "result", skewed |-> skewed]]
                   ELSE Answer(c, reply[c].for \cup {r.for}, IF r.kind = "result" THEN "result" ELSE "empty", skewed)
    /\ UNCHANGED <<mode, count, owner, executed, again>>

\* End of stream in place of a response: http closes the connection and answers
\* an empty object, exchange raises.
ReceiveEnd(c) ==
    /\ pc[c] = "wait"
    /\ LET s == using[c]
       IN  /\ socket[s].resp = <<>> /\ ~socket[s].peer
           /\ IF Pooling
              THEN /\ Answer(c, {<<c, count[c]>>}, "empty", FALSE)
                   /\ socket' = [socket EXCEPT ![s] = None]
                   /\ using' = [using EXCEPT ![c] = None]
              ELSE Fail(c)
    /\ UNCHANGED <<mode, count, todo, owner, pool, executed, again>>

\* The answer is written, or the client is gone.
Respond(c) ==
    /\ pc[c] = "respond"
    /\ \/ pc' = [pc EXCEPT ![c] = "read"] /\ UNCHANGED socket
       \/ Close(c)
    /\ reply' = [reply EXCEPT ![c] = None]
    /\ UNCHANGED <<mode, count, todo, using, owner, pool, executed, again>>

Handler(c) ==
    Accept(c) \/ Take(c) \/ Send(c) \/ Receive(c) \/ ReceiveEnd(c) \/ Respond(c)

(***************************************************************************)
(* The backends                                                            *)
(***************************************************************************)
Answers(s, parts, peer) ==
    socket' = [socket EXCEPT ![s] = [@ EXCEPT
        !.req = IF peer THEN Tail(socket[s].req) ELSE <<>>,
        !.resp = socket[s].resp \o parts,
        !.peer = peer]]

Ends(s) == socket' = [socket EXCEPT ![s] = [@ EXCEPT !.req = <<>>, !.peer = FALSE]]

\* A backend executes the next request of a connection, and then answers it, or
\* its answer is cut off, or it closes without one.  Over HTTP its response may
\* lack a Content-Length: it has no body, or a head (that of an interim response,
\* or of a chunked body) precedes a part that reads as a message of its own, or
\* the body ends with the connection.
BackendServes(s) ==
    /\ Open(s) /\ socket[s].req # <<>>
    /\ LET r == Head(socket[s].req)
           done == <<r, socket[s].backend>>
           part(kind) == [for |-> r, kind |-> kind]
       IN  /\ executed' = executed \cup {done}
           /\ again' = (again \/ done \in executed)
           /\ \/ Answers(s, <<part("result")>>, TRUE)
              \/ Answers(s, <<part("cut off")>>, FALSE)
              \/ Ends(s)
              \/ Pooling /\ Answers(s, <<part("bare")>>, TRUE)
              \/ Pooling /\ \E rest \in {"result", "bare"} : Answers(s, <<part("head"), part(rest)>>, TRUE)
              \/ Pooling /\ Answers(s, <<part("head")>>, FALSE)
    /\ UNCHANGED <<mode, pc, count, todo, using, reply, owner, pool>>

\* It closes a connection, idle or not.
BackendCloses(s) ==
    /\ Open(s) /\ Ends(s)
    /\ UNCHANGED <<mode, pc, count, todo, using, reply, owner, pool, executed, again>>

\* Without a pool, client connections share nothing: one of them is enough.
Init ==
    /\ mode \in {"http", "forwarder", "l2"}
    /\ \/ Pooling /\ pc = [c \in Clients |-> "read"]
       \/ ~Pooling /\ \E c \in Clients : pc = [d \in Clients |-> IF d = c THEN "accept" ELSE "closed"]
    /\ count = [c \in Clients |-> 0]
    /\ todo = [c \in Clients |-> <<>>] /\ using = [c \in Clients |-> None]
    /\ reply = [c \in Clients |-> None]
    /\ socket = [s \in Sockets |-> None] /\ owner = [s \in Sockets |-> None]
    /\ pool = [b \in Backends |-> <<>>]
    /\ executed = {} /\ again = FALSE

Next ==
    \/ \E c \in Clients : Read(c) \/ Handler(c)
    \/ \E s \in Sockets : BackendServes(s) \/ BackendCloses(s)

Spec == Init /\ [][Next]_vars

\* The event loop runs every handler that can run.  No timeout guards an
\* exchange, so a backend has to answer or to close.
FairSpec ==
    /\ Spec
    /\ \A c \in Clients : WF_vars(Handler(c))
    /\ \A s \in Sockets : WF_vars(BackendServes(s))

(***************************************************************************)
(* Properties                                                              *)
(***************************************************************************)
\* The type of every variable (the locals of handle and route, the pools).
TypeOK ==
    /\ mode \in {"http", "forwarder", "l2"}
    /\ pc \in [Clients -> {"accept", "read", "take", "send", "wait", "respond", "closed"}]
    /\ count \in [Clients -> 0..MaxRequests]
    /\ todo \in [Clients -> Seq(Backends)]
    /\ using \in [Clients -> Sockets \cup {None}]
    /\ reply \in [Clients -> Reply \cup {None}]
    /\ socket \in [Sockets -> Connection \cup {None}]
    /\ owner \in [Sockets -> Clients \cup {None}]
    /\ pool \in [Backends -> Seq(Sockets)]
    /\ executed \subseteq Request \X Backends
    /\ again \in BOOLEAN

\* The n-th answer on a client connection is about its n-th request, and holds
\* nothing but what backends answered to that request, though clients share the
\* pooled connections and a failed exchange may leave one with an answer unread
\* (backend_post, exchange): unless it was read from a connection on which the
\* rest of an earlier response, one without a Content-Length, had been left.
AnswersMatch ==
    \A c \in Clients : pc[c] = "respond" /\ ~reply[c].skewed => reply[c].for = {<<c, count[c]>>}

\* The same without that exception ("an absent header means no body").
AnswersAlwaysMatch ==
    \A c \in Clients : pc[c] = "respond" => reply[c].for = {<<c, count[c]>>}

\* A backend connection serves one exchange at a time: none is used twice, or
\* used and pooled, or pooled twice; and a pooled one has nothing outstanding in
\* either direction, unless it is skewed (pool.pop, pool.append).
ConnectionsExclusive ==
    /\ \A c, d \in Clients : c # d /\ using[c] # None => using[c] # using[d]
    /\ \A b \in Backends :
          /\ IsInjective(pool[b])
          /\ \A i \in DOMAIN pool[b] :
                LET s == pool[b][i]
                IN  /\ \A c \in Clients : using[c] # s
                    /\ socket[s] # None
                    /\ socket[s].backend = b
                    /\ socket[s].skewed \/ (socket[s].req = <<>> /\ socket[s].resp = <<>>)

\* A backend executes a request at most once, whatever fails: nothing is sent
\* again on another connection (a tools/call may have side effects).
ExecutedOnce == ~again

\* "The backend closed the keep-alive connection: close our end" (serve_http.py):
\* every open end of the proxy is in use or in the pool.
NothingLeaks ==
    Pooling => \A s \in Sockets :
        socket[s] # None => \/ \E c \in Clients : using[c] = s
                            \/ \E b \in Backends : s \in ToSet(pool[b])

\* Every request that is read is answered, or its client's connection closed.
RequestsEnd ==
    \A c \in Clients : pc[c] = "take" ~> pc[c] \in {"read", "closed"}

\* For TLC, and for invariants only: clients are alike, and so are sockets.
Alike == Permutations(Clients) \cup Permutations(Sockets)

=============================================================================
