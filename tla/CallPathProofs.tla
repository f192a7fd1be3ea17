--------------------------- MODULE CallPathProofs ---------------------------
(***************************************************************************)
(* What holds of the requests of one client, whatever the filters, the      *)
(* backends and the local handlers answer, and in whatever order their      *)
(* answers, the pooled calls and the notifications come; and of the lists   *)
(* that it is served and the names it calls by.                             *)
(*                                                                         *)
(* LoopInv says that one request at most is under way in the route loop,    *)
(* and that its answer is the only one of the loop's in the queue of the    *)
(* client lock.  On it rest the pairing of the log's records (LogInv), the  *)
(* way of a task's handle back to its backend (RouteInv), and the updates   *)
(* that a client no longer wants (UpdateInv).                               *)
(*                                                                         *)
(* The second part is about ToolSurface, with which CallPath shares the     *)
(* names of Namespace and nothing else.  SurfaceInv says what a page can    *)
(* hold, Bests that the page is the best of what was listed, and WalkInv    *)
(* how far a walk through the pages has come.                               *)
(***************************************************************************)
EXTENDS CallPath, ToolSurface, SequenceTheorems, FiniteSetTheorems, WellFoundedInduction, TLAPS

Elems(q) == {q[i] : i \in DOMAIN q}
IsSeq(q) == q \in Seq(Elems(q))
Queues(f) == f = [b \in Backends |-> f[b]] /\ \A b \in Backends : IsSeq(f[b])

Known(r) == r.n \in Nat /\ r.n < requests

\* The answers that the route loop itself writes.
LoopAnswer(m) == m.kind \in {"result", "error"} /\ m.req.kind # "pooled"

ShapeInv ==
    /\ requests \in Nat
    /\ IsSeq(lock) /\ IsSeq(log) /\ Queues(toBack) /\ Queues(fromBack)

LoopInv ==
    /\ loop.pc # "writing" => \A m \in Elems(lock) : ~LoopAnswer(m)
    /\ \A i, j \in DOMAIN lock : LoopAnswer(lock[i]) /\ LoopAnswer(lock[j]) => i = j
    /\ loop.pc = "calling" => Known(loop.req) /\ loop.req.kind # "pooled"
    /\ \A r \in spawned : r.kind = "pooled" /\ Known(r)
    /\ \A r \in work : /\ r.kind \in {"local", "pooled"} /\ Known(r)
                       /\ r.kind = "local" => loop.pc = "calling" /\ loop.req = r

\* The records of a call, by their places in the log.
RecordsOf(call) == {i \in DOMAIN log : log[i].record.call = call}

\* The call under way was attested to, and that is all the log says of it.
Attested(call) ==
    \E i \in DOMAIN log : log[i].record.type = "attestation" /\ RecordsOf(call) = {i}

\* The attestation at i of a call: the call is under way, or one outcome follows.
Paired(i, call) ==
    /\ call.kind = "call"
    /\ \/ RecordsOf(call) = {i} /\ loop.pc = "calling" /\ loop.req = call
       \/ \E j \in DOMAIN log : RecordsOf(call) = {i, j} /\ i < j /\ log[j].record.type = "outcome"

LogInv ==
    /\ \A i \in DOMAIN log : Known(log[i].record.call)
    /\ loop.pc = "calling" /\ loop.req.kind = "call" => Attested(loop.req)
    /\ \A i \in DOMAIN log : log[i].record.type = "attestation" => Paired(i, log[i].record.call)

ChainInv ==
    /\ head = IF log = << >> THEN Genesis ELSE log[Len(log)].hash
    /\ Verifies(log)

\* The router has sent request r to backend b.
Sent(r, b) == \E s \in served : s.req = r /\ s.to = b

\* A request to backend b.
Asks(m, b) ==
    /\ Known(m.req) /\ m.req.kind \notin {"local", "pooled"} /\ Sent(m.req, b)
    /\ m.req.kind = "task" => Name(m.original)
    /\ m.req.kind \in {"subscribe", "unsubscribe"} => m.original \in Uris /\ m.req.of = <<b, m.original>>

\* An answer of backend b.
Answers(m, b) ==
    /\ Known(m.req) /\ m.req.kind \notin {"local", "pooled"} /\ Sent(m.req, b)
    /\ m.task # None => Name(m.task) /\ m.req.kind \in {"call", "task"}
    /\ m.req.kind \in {"subscribe", "unsubscribe"} => \E u \in Uris : m.req.of = <<b, u>>

RouteInv ==
    /\ \A s \in served : /\ Known(s.req)
                         /\ s.req.kind = "pooled" => s.to = s.req.of.tool
                         /\ s.req.kind = "task" => split(s.req.of) = <<s.to, s.original>>
    /\ \A s, t \in served : s.req = t.req => s.to = t.to
    /\ loop.pc = "calling" => Sent(loop.req, loop.to)
    /\ \A b \in Backends : \A m \in Elems(toBack[b]) : Asks(m, b)
    /\ \A b \in Backends : \A m \in Elems(fromBack[b]) :
          /\ m.kind = "answer" \/ (m.kind = "updated" /\ m.uri \in Uris)
          /\ m.kind = "answer" => Answers(m, b)
    /\ \A h \in handles : h.owner \in Backends /\ Name(h.original) /\ h.id = prefix(h.owner, h.original)

Unsubscribed(m, x) == m.kind = "result" /\ m.req.kind = "unsubscribe" /\ m.req.of = x

\* What may still send updates of x is only what the client has subscribed to
\* and not been told, nor is about to be told, that it is unsubscribed.
Wanted(x) == x \in expects /\ \A m \in Elems(lock) : ~Unsubscribed(m, x)

\* Backend b may send updates of u: it has a subscription, has sent an update,
\* or is to be asked for a subscription.
Live(b, u) ==
    \/ u \in remote[b]
    \/ \E m \in Elems(fromBack[b]) : m.kind = "updated" /\ m.uri = u
    \/ \E m \in Elems(toBack[b]) : m.req.kind = "subscribe" /\ m.original = u

\* m is the answer to the request under way.
Awaited(m) == m.kind = "answer" /\ loop.pc = "calling" /\ m.req = loop.req

\* The answer that says that b sends no more updates of u.
Ends(m, b, u) == m.kind = "answer" /\ m.ok /\ m.req.kind = "unsubscribe" /\ m.req.of = <<b, u>>

\* What waits for the client lock: no update follows the word that it ends.
LockInv ==
    /\ \A m \in Elems(lock) : m.kind = "updated" => m.body \in expects
    /\ \A i, j \in DOMAIN lock : i < j /\ lock[j].kind = "updated" => ~Unsubscribed(lock[i], lock[j].body)

WantInv ==
    /\ \A u \in local : Wanted(<<None, u>>)
    /\ \A b \in Backends : \A u \in Uris : Live(b, u) => Wanted(<<b, u>>)

\* A backend has the request under way as its last, and once it has answered it,
\* has no other; if the answer ends a subscription, no update comes after it.
TurnInv ==
    /\ \A b \in Backends : \A i \in DOMAIN toBack[b] :
          loop.pc = "calling" /\ toBack[b][i].req = loop.req => i = Len(toBack[b])
    /\ \A b \in Backends : \A i \in DOMAIN fromBack[b] : Awaited(fromBack[b][i]) =>
          /\ toBack[b] = << >>
          /\ \A u \in Uris : Ends(fromBack[b][i], b, u) =>
                /\ u \notin remote[b]
                /\ \A j \in DOMAIN fromBack[b] : i < j => ~(fromBack[b][j].kind = "updated" /\ fromBack[b][j].uri = u)

UpdateInv == LockInv /\ WantInv /\ TurnInv

IndInv == TypeOK /\ ShapeInv /\ LoopInv /\ (Resilient => LogInv) /\ ChainInv /\ RouteInv /\ UpdateInv

-----------------------------------------------------------------------------
\* Queues.
LEMMA Listed ==
  ASSUME NEW S, NEW q \in Seq(S)
  PROVE  q \in Seq(Elems(q))
<1>1. Len(q) \in Nat /\ DOMAIN q = 1 .. Len(q) /\ q \in [1 .. Len(q) -> S]
  OBVIOUS
<1>2. q \in [1 .. Len(q) -> Elems(q)]
  BY <1>1 DEF Elems
<1>3. \A n \in Nat : [1 .. n -> Elems(q)] \subseteq Seq(Elems(q))
  OBVIOUS
<1> QED BY <1>1, <1>2, <1>3

LEMMA Joined ==
  ASSUME NEW q, IsSeq(q), NEW x
  PROVE  /\ IsSeq(Append(q, x)) /\ Append(q, x) # << >>
         /\ Elems(Append(q, x)) = Elems(q) \union {x}
         /\ Len(q) \in Nat /\ DOMAIN q = 1 .. Len(q) /\ Len(Append(q, x)) = Len(q) + 1
         /\ DOMAIN Append(q, x) = 1 .. Len(q) + 1
         /\ Append(q, x)[Len(q) + 1] = x /\ \A i \in DOMAIN q : Append(q, x)[i] = q[i]
         /\ \A i \in DOMAIN Append(q, x) : i \in DOMAIN q \/ i = Len(q) + 1
         /\ \A i \in DOMAIN q : i \in DOMAIN Append(q, x) /\ i < Len(q) + 1 /\ i # Len(q) + 1
<1> DEFINE S == Elems(q) \union {x}
<1>1. q \in Seq(S) /\ x \in S
  BY DEF IsSeq
<1>2. /\ Append(q, x) \in Seq(S) /\ Len(Append(q, x)) = Len(q) + 1 /\ Len(q) \in Nat
      /\ Append(q, x)[Len(q) + 1] = x /\ \A i \in 1 .. Len(q) : Append(q, x)[i] = q[i]
      /\ Append(q, x) # << >>
  <2> HIDE DEF S
  <2> QED BY <1>1, AppendProperties
<1>3. /\ DOMAIN q = 1 .. Len(q) /\ DOMAIN Append(q, x) = 1 .. Len(q) + 1
      /\ \A i \in 1 .. Len(q) + 1 : i = Len(q) + 1 \/ i \in 1 .. Len(q)
      /\ Len(q) + 1 \in 1 .. Len(q) + 1 /\ 1 .. Len(q) \subseteq 1 .. Len(q) + 1
      /\ \A i \in 1 .. Len(q) : i < Len(q) + 1
  BY <1>1, <1>2
<1>4. Elems(Append(q, x)) = S
  BY <1>2, <1>3 DEF Elems
<1> QED BY <1>2, <1>3, <1>4 DEF IsSeq

LEMMA Shifted ==
  ASSUME NEW q, IsSeq(q), q # << >>
  PROVE  /\ IsSeq(Tail(q)) /\ Head(q) = q[1] /\ Head(q) \in Elems(q)
         /\ Elems(q) = {Head(q)} \union Elems(Tail(q)) /\ Elems(Tail(q)) \subseteq Elems(q)
         /\ 1 \in DOMAIN q /\ Len(q) \in Nat /\ Len(Tail(q)) = Len(q) - 1
         /\ \A i \in DOMAIN Tail(q) : i + 1 \in DOMAIN q /\ Tail(q)[i] = q[i + 1] /\ i \in Nat /\ 1 < i + 1
<1> DEFINE S == Elems(q)
<1>1. q \in Seq(S)
  BY DEF IsSeq
<1>2. /\ Tail(q) \in Seq(S) /\ Len(Tail(q)) = Len(q) - 1 /\ Len(q) \in Nat \ {0}
      /\ \A i \in 1 .. Len(Tail(q)) : Tail(q)[i] = q[i + 1]
      /\ Head(q) = q[1]
  <2> HIDE DEF S
  <2> QED BY <1>1, HeadTailProperties
<1>3. DOMAIN q = 1 .. Len(q) /\ DOMAIN Tail(q) = 1 .. Len(q) - 1
  BY <1>1, <1>2
<1>4. /\ 1 \in DOMAIN q
      /\ \A i \in DOMAIN Tail(q) : i + 1 \in DOMAIN q /\ Tail(q)[i] = q[i + 1] /\ i \in Nat /\ 1 < i + 1
      /\ \A i \in DOMAIN q : i = 1 \/ (i - 1 \in DOMAIN Tail(q) /\ (i - 1) + 1 = i)
  BY <1>2, <1>3
<1>5. Elems(q) = {Head(q)} \union Elems(Tail(q))
  BY <1>2, <1>4 DEF Elems
<1>6. Tail(q) \in Seq(Elems(Tail(q)))
  BY <1>2, Listed
<1> QED BY <1>2, <1>4, <1>5, <1>6 DEF IsSeq, Elems

\* One queue of several.
LEMMA Changed ==
  ASSUME NEW f, NEW g, NEW b \in Backends, NEW q, Queues(f), IsSeq(q), g = [f EXCEPT ![b] = q]
  PROVE  Queues(g) /\ g[b] = q /\ \A d \in Backends : d # b => g[d] = f[d]
<1>1. f = [d \in Backends |-> f[d]]
  BY DEF Queues
<1>2. g = [d \in Backends |-> IF d = b THEN q ELSE f[d]]
  BY <1>1
<1>3. \A d \in Backends : g[d] = IF d = b THEN q ELSE f[d]
  BY <1>2
<1> HIDE DEF IsSeq
<1> QED BY <1>2, <1>3 DEF Queues

\* The number of a new request.
LEMMA Later ==
  ASSUME requests \in Nat, requests' \in {requests, requests + 1}
  PROVE  /\ requests' \in Nat /\ \A r : Known(r) => r.n \in Nat /\ r.n < requests'
         /\ \A r : r.n = requests => ~Known(r)
BY DEF Known

-----------------------------------------------------------------------------
\* The route loop and the client lock.
Base == ShapeInv /\ LoopInv

\* The loop has an answer to the request it reads or waits for.
LEMMA Answering ==
  ASSUME Base, NEW m, Answer(m), LoopAnswer(m), loop.pc # "writing", requests' \in {requests, requests + 1},
         spawned' = spawned, work' \subseteq work, \A r \in work' : r.kind = "pooled"
  PROVE  LoopInv' /\ IsSeq(lock)' /\ loop'.pc = "writing"
<1>1. lock' = Append(lock, m) /\ loop'.pc = "writing"
  BY DEF Answer, Idle
<1>2. IsSeq(lock) /\ requests \in Nat
  BY DEF Base, ShapeInv
<1>3. \A i \in DOMAIN lock : ~LoopAnswer(lock[i])
  BY DEF Base, LoopInv, Elems
<1>4. \A i, j \in DOMAIN lock' : LoopAnswer(lock'[i]) /\ LoopAnswer(lock'[j]) => i = j
  <2> HIDE DEF LoopAnswer
  <2> QED BY <1>1, <1>2, <1>3, Joined
<1>5. IsSeq(lock')
  BY <1>1, <1>2, Joined
<1>6. \A r : Known(r) => r.n \in Nat /\ r.n < requests'
  BY <1>2, Later
<1>7. \A r \in spawned' : r.kind = "pooled" /\ r.n \in Nat /\ r.n < requests'
  BY <1>6 DEF Base, LoopInv
<1>8. \A r \in work' : r.kind = "pooled" /\ r.n \in Nat /\ r.n < requests'
  BY <1>6 DEF Base, LoopInv
<1> QED BY <1>1, <1>4, <1>5, <1>7, <1>8 DEF LoopInv, LoopAnswer, Known, IsSeq, Elems

\* It waits for a backend or for a local handler.
LEMMA Calling ==
  ASSUME Base, NEW req, loop.pc = "reading", loop'.pc = "calling", loop'.req = req, req.kind # "pooled",
         req.n = requests, requests' = requests + 1, lock' = lock, spawned' = spawned,
         work' = work \/ (req.kind = "local" /\ work' = work \cup {req})
  PROVE  LoopInv'
<1>1. requests \in Nat /\ requests' \in Nat
  BY DEF Base, ShapeInv
<1>2. \A r : Known(r) => r.n \in Nat /\ r.n < requests'
  BY <1>1, Later
<1>3. req.n \in Nat /\ req.n < requests'
  BY <1>1
<1>4. /\ \A m \in Elems(lock') : ~LoopAnswer(m)
      /\ \A i, j \in DOMAIN lock' : LoopAnswer(lock'[i]) /\ LoopAnswer(lock'[j]) => i = j
  BY DEF Base, LoopInv
<1>5. \A r \in spawned' : r.kind = "pooled" /\ r.n \in Nat /\ r.n < requests'
  BY <1>2 DEF Base, LoopInv
<1>6. \A r \in work : r.kind = "pooled" /\ r.n \in Nat /\ r.n < requests'
  BY <1>2 DEF Base, LoopInv
<1>7. \A r \in work' : /\ r.kind \in {"local", "pooled"} /\ r.n \in Nat /\ r.n < requests'
                       /\ r.kind = "local" => r = req
  BY <1>3, <1>6
<1> QED BY <1>3, <1>4, <1>5, <1>7 DEF LoopInv, LoopAnswer, Known, Elems

\* Others work or write beside it.
LEMMA Beside ==
  ASSUME Base, loop' = loop, requests' \in {requests, requests + 1},
         lock' = lock \/ \E m : lock' = Append(lock, m) /\ ~LoopAnswer(m),
         \A r \in spawned' : r \in spawned \/ (r.kind = "pooled" /\ r.n \in Nat /\ r.n < requests'),
         \A r \in work' : r \in work \/ (r.kind = "pooled" /\ Known(r))
  PROVE  LoopInv' /\ IsSeq(lock)'
<1>1. IsSeq(lock) /\ requests \in Nat
  BY DEF Base, ShapeInv
<1>2. \A r : Known(r) => r.n \in Nat /\ r.n < requests'
  BY <1>1, Later
<1>3. CASE lock' = lock
  <2>1. IsSeq(lock')
    BY <1>1, <1>3
  <2> QED BY <1>2, <1>3, <2>1 DEF Base, LoopInv, LoopAnswer, Known, Elems, IsSeq
<1>4. ASSUME NEW m, lock' = Append(lock, m), ~LoopAnswer(m) PROVE LoopInv' /\ IsSeq(lock)'
  <2>1. IsSeq(lock') /\ Elems(lock') = Elems(lock) \union {m}
    BY <1>1, <1>4, Joined
  <2>2. loop'.pc # "writing" => \A n \in Elems(lock') : ~LoopAnswer(n)
    BY <1>4, <2>1 DEF Base, LoopInv
  <2>3. \A i, j \in DOMAIN lock' : LoopAnswer(lock'[i]) /\ LoopAnswer(lock'[j]) => i = j
    <3> HIDE DEF LoopAnswer
    <3> QED BY <1>1, <1>4, Joined DEF Base, LoopInv
  <2>4. loop'.pc = "calling" => loop'.req.n \in Nat /\ loop'.req.n < requests' /\ loop'.req.kind # "pooled"
    BY <1>2 DEF Base, LoopInv
  <2>5. \A r \in spawned' : r.kind = "pooled" /\ r.n \in Nat /\ r.n < requests'
    BY <1>2 DEF Base, LoopInv
  <2>6. \A r \in work' : /\ r.kind \in {"local", "pooled"} /\ r.n \in Nat /\ r.n < requests'
                         /\ r.kind = "local" => loop'.pc = "calling" /\ loop'.req = r
    BY <1>2 DEF Base, LoopInv
  <2> QED BY <2>1, <2>2, <2>3, <2>4, <2>5, <2>6 DEF LoopInv, LoopAnswer, Known, IsSeq, Elems
<1> QED BY <1>3, <1>4

\* An exception ends it.
LEMMA Ending ==
  ASSUME Base, loop.pc = "calling", loop'.pc = "ended", requests' = requests, lock' = lock, spawned' = spawned,
         work' \subseteq work, \A r \in work' : r.kind = "pooled"
  PROVE  LoopInv'
BY DEF Base, LoopInv, LoopAnswer, Known, Elems

LEMMA Writing ==
  ASSUME Base, Write
  PROVE  LoopInv' /\ IsSeq(lock)' /\ (loop' = loop \/ (loop.pc = "writing" /\ loop' = Idle))
<1> DEFINE m == Head(lock)
<1>1. lock' = Tail(lock) /\ lock # << >> /\ IsSeq(lock) /\ requests' = requests /\ spawned' = spawned /\ work' = work
      /\ loop' = IF LoopAnswer(m) THEN Idle ELSE loop
  BY DEF Write, Base, ShapeInv, own, LoopAnswer
<1>2. IsSeq(lock') /\ m = lock[1] /\ m \in Elems(lock) /\ 1 \in DOMAIN lock /\ Elems(lock') \subseteq Elems(lock)
  BY <1>1, Shifted
<1>3. LoopAnswer(m) => loop.pc = "writing"
  BY <1>2 DEF Base, LoopInv
<1>4. \A i \in DOMAIN lock' : i + 1 \in DOMAIN lock /\ i + 1 # 1 /\ lock'[i] = lock[i + 1] /\ i \in Nat
  BY <1>1, Shifted
<1> HIDE DEF m
<1>5. \A i, j \in DOMAIN lock' : LoopAnswer(lock'[i]) /\ LoopAnswer(lock'[j]) => i = j
  <2>1. TAKE i, j \in DOMAIN lock'
  <2>2. LoopAnswer(lock'[i]) /\ LoopAnswer(lock'[j]) => i + 1 = j + 1
    <3> HIDE DEF LoopAnswer
    <3> QED BY <1>4 DEF Base, LoopInv
  <2>3. i \in Nat /\ j \in Nat
    BY <1>4
  <2> QED BY <2>2, <2>3
<1>6. loop'.pc # "writing" => \A n \in Elems(lock') : ~LoopAnswer(n)
  <2>1. CASE LoopAnswer(m)
    <3>1. ASSUME NEW i \in DOMAIN lock', LoopAnswer(lock'[i]) PROVE FALSE
      <4> HIDE DEF LoopAnswer
      <4> QED BY <1>2, <1>4, <2>1, <3>1 DEF Base, LoopInv
    <3> QED BY <3>1 DEF Elems
  <2>2. CASE ~LoopAnswer(m)
    BY <1>1, <1>2, <2>2 DEF Base, LoopInv
  <2> QED BY <2>1, <2>2
<1>7. loop' = loop \/ (loop.pc = "writing" /\ loop' = Idle)
  BY <1>1, <1>3
<1>8. loop.pc = "writing" => \A r \in work : r.kind = "pooled"
  BY DEF Base, LoopInv
<1>9. Idle.pc = "reading"
  BY DEF Idle
<1>10. /\ loop'.pc = "calling" => loop' = loop
       /\ \A r \in work' : r.kind = "local" => loop'.pc = "calling" /\ loop'.req = r
  BY <1>1, <1>7, <1>8, <1>9 DEF Base, LoopInv
<1> QED BY <1>1, <1>2, <1>5, <1>6, <1>7, <1>10 DEF Base, LoopInv, LoopAnswer, Known, IsSeq, Elems

LEMMA Replies ==
  ASSUME NEW req, NEW body
  PROVE  /\ Error(req).kind = "error" /\ Error(req).req = req
         /\ Result(req, body).kind = "result" /\ Result(req, body).req = req /\ Result(req, body).body = body
         /\ req.kind # "pooled" => LoopAnswer(Error(req)) /\ LoopAnswer(Result(req, body))
         /\ req.kind = "pooled" => ~LoopAnswer(Error(req)) /\ ~LoopAnswer(Result(req, body))
BY DEF LoopAnswer, Error, Result, Message

LEMMA Updates ==
  ASSUME NEW o, NEW u
  PROVE  Update(o, u).kind = "updated" /\ Update(o, u).body = <<o, u>> /\ ~LoopAnswer(Update(o, u))
BY DEF LoopAnswer, Update, Message

LEMMA LoopHolds ==
  ASSUME Base, RouteInv, Next
  PROVE  LoopInv' /\ IsSeq(lock)'
<1>0. requests \in Nat /\ IsSeq(lock) /\ (loop.pc = "reading" => \A r \in work : r.kind = "pooled")
  BY DEF Base, ShapeInv, LoopInv
<1>1. ASSUME Counted, NEW m, Answer(m), LoopAnswer(m), UNCHANGED <<spawned, work>>
      PROVE  LoopInv' /\ IsSeq(lock)'
  <2>1. loop.pc = "reading" /\ requests' = requests + 1
    BY <1>1 DEF Counted
  <2> QED BY <1>0, <1>1, <2>1, Answering
<1>2. ASSUME Counted, NEW req, NEW b, loop' = [pc |-> "calling", req |-> req, to |-> b], lock' = lock,
             req.n = requests, req.kind # "pooled", spawned' = spawned,
             work' = work \/ (req.kind = "local" /\ work' = work \cup {req})
      PROVE  LoopInv' /\ IsSeq(lock)'
  <2>1. loop.pc = "reading" /\ requests' = requests + 1 /\ loop'.pc = "calling" /\ loop'.req = req
    BY <1>2 DEF Counted
  <2>2. LoopInv'
    BY <1>2, <2>1, Calling
  <2> QED BY <1>0, <1>2, <2>2
<1>3. ASSUME NEW b \in Backends, NEW a \in Arguments, CallBlocked(b, a) \/ CallRefused(b, a)
      PROVE  LoopInv' /\ IsSeq(lock)'
  <2> DEFINE req == [n |-> requests, kind |-> "call", of |-> Request(b, a)]
  <2>1. Counted /\ Answer(Error(req)) /\ UNCHANGED <<spawned, work>>
    BY <1>3 DEF CallBlocked, CallRefused, Refuse, own
  <2>2. req.kind # "pooled"
    OBVIOUS
  <2> HIDE DEF req
  <2> QED BY <1>1, <2>1, <2>2, Replies
<1>4. ASSUME NEW b \in Backends, NEW a \in Arguments, CallForwarded(b, a)
      PROVE  LoopInv' /\ IsSeq(lock)'
  <2> DEFINE req == [n |-> requests, kind |-> "call", of |-> Request(b, a)]
  <2>1. Counted /\ loop' = [pc |-> "calling", req |-> req, to |-> b] /\ UNCHANGED <<lock, spawned, work>>
    BY <1>4 DEF CallForwarded, Forward, own
  <2>2. req.n = requests /\ req.kind # "pooled"
    OBVIOUS
  <2> HIDE DEF req
  <2> QED BY <1>2, <2>1, <2>2
<1>5. ASSUME NEW h \in Handlers, NEW a \in Arguments, LocalCall(h, a)
      PROVE  LoopInv' /\ IsSeq(lock)'
  <2> DEFINE req == [n |-> requests, kind |-> "local", of |-> Request(h, a)]
  <2>1. Counted /\ spawned' = spawned
        /\ \/ Answer(Error(req)) /\ work' = work
           \/ work' = work \cup {req} /\ loop' = [pc |-> "calling", req |-> req, to |-> h] /\ lock' = lock
    BY <1>5 DEF LocalCall, Handled
  <2>2. req.n = requests /\ req.kind = "local"
    OBVIOUS
  <2> HIDE DEF req
  <2> QED BY <1>1, <1>2, <2>1, <2>2, Replies
<1>6. ASSUME NEW h \in Handlers, NEW a \in Arguments, Spawn(h, a)
      PROVE  LoopInv' /\ IsSeq(lock)'
  <2> DEFINE req == [n |-> requests, kind |-> "pooled", of |-> Request(h, a)]
  <2>1. requests' = requests + 1 /\ spawned' = spawned \cup {req} /\ UNCHANGED <<loop, lock, work>>
    BY <1>6 DEF Spawn, Counted
  <2>2. req.kind = "pooled" /\ req.n \in Nat /\ req.n < requests'
    BY <1>0, <2>1
  <2> HIDE DEF req
  <2> QED BY <2>1, <2>2, Beside
<1>7. ASSUME NEW id, RouteTask(id)
      PROVE  LoopInv' /\ IsSeq(lock)'
  <2> DEFINE req == [n |-> requests, kind |-> "task", of |-> id]
  <2>1. Counted /\ UNCHANGED <<spawned, work>>
        /\ \/ Answer(Error(req))
           \/ loop' = [pc |-> "calling", req |-> req, to |-> split(id)[1]] /\ lock' = lock
    BY <1>7 DEF RouteTask, Refuse, Forward, own
  <2>2. req.n = requests /\ req.kind = "task"
    OBVIOUS
  <2> HIDE DEF req
  <2> QED BY <1>1, <1>2, <2>1, <2>2, Replies
<1>8. ASSUME NEW kind \in {"subscribe", "unsubscribe"}, NEW u \in Uris, NEW b \in Backends, RouteSubscription(kind, b, u)
      PROVE  LoopInv' /\ IsSeq(lock)'
  <2> DEFINE req == [n |-> requests, kind |-> kind, of |-> <<b, u>>]
  <2>1. Counted /\ UNCHANGED <<spawned, work>>
        /\ \/ Answer(Error(req))
           \/ loop' = [pc |-> "calling", req |-> req, to |-> b] /\ lock' = lock
    BY <1>8 DEF RouteSubscription, Refuse, Forward, own
  <2>2. req.n = requests /\ req.kind = kind
    OBVIOUS
  <2> HIDE DEF req
  <2> QED BY <1>1, <1>2, <2>1, <2>2, Replies
<1>9. ASSUME NEW kind \in {"subscribe", "unsubscribe"}, NEW u \in Uris, LocalSubscription(kind, u)
      PROVE  LoopInv' /\ IsSeq(lock)'
  <2> DEFINE req == [n |-> requests, kind |-> kind, of |-> <<None, u>>]
  <2>1. Counted /\ UNCHANGED <<spawned, work>> /\ Answer(Result(req, None))
    BY <1>9 DEF LocalSubscription, own
  <2>2. req.kind = kind
    OBVIOUS
  <2> HIDE DEF req
  <2> QED BY <1>1, <2>1, <2>2, Replies
<1>10. ASSUME CallRaises
       PROVE  LoopInv' /\ IsSeq(lock)'
  <2>1. loop.pc = "calling" /\ loop.req.kind # "local" /\ UNCHANGED <<spawned, work, requests>>
        /\ \/ Answer(Error(loop.req))
           \/ loop'.pc = "ended" /\ lock' = lock
    BY <1>10 DEF CallRaises, own, Idle
  <2>2. loop.req.kind # "pooled" /\ \A r \in work : r.kind = "pooled"
    BY <2>1 DEF Base, LoopInv
  <2> QED BY <1>0, <2>1, <2>2, Answering, Ending, Replies
<1>11. ASSUME NEW req \in spawned, PooledStarts(req)
       PROVE  LoopInv' /\ IsSeq(lock)'
  <2>1. /\ UNCHANGED <<loop, requests>> /\ spawned' \subseteq spawned
        /\ lock' = lock \/ lock' = Append(lock, Error(req))
        /\ work' = work \/ work' = work \cup {req}
    BY <1>11 DEF PooledStarts, Handled
  <2>2. req.kind = "pooled" /\ Known(req)
    BY DEF Base, LoopInv
  <2>3. lock' = lock \/ \E m : lock' = Append(lock, m) /\ ~LoopAnswer(m)
    BY <2>1, <2>2, Replies
  <2> QED BY <2>1, <2>2, <2>3, Beside
<1>12. ASSUME NEW req \in work, NEW fits \in BOOLEAN, HandlerReturns(req, fits)
       PROVE  LoopInv' /\ IsSeq(lock)'
  <2>1. /\ UNCHANGED <<requests, spawned>> /\ work' = work \ {req}
        /\ \E m : /\ m = Error(req) \/ m = Result(req, None)
                  /\ IF req.kind = "local" THEN Answer(m) ELSE lock' = Append(lock, m) /\ loop' = loop
    BY <1>12 DEF HandlerReturns
  <2>2. /\ req.kind \in {"local", "pooled"}
        /\ req.kind = "local" => loop.pc = "calling" /\ \A r \in work' : r.kind = "pooled"
    BY <2>1 DEF Base, LoopInv
  <2>3. PICK m : /\ m = Error(req) \/ m = Result(req, None)
                 /\ IF req.kind = "local" THEN Answer(m) ELSE lock' = Append(lock, m) /\ loop' = loop
    BY <2>1
  <2>4. m.kind \in {"result", "error"} /\ m.req = req
    <3>1. m = Error(req) \/ m = Result(req, None)
      BY <2>3
    <3> QED BY <3>1 DEF Error, Result, Message
  <2>5. CASE req.kind = "local"
    <3>1. Answer(m) /\ LoopAnswer(m) /\ loop.pc # "writing" /\ \A r \in work' : r.kind = "pooled"
      BY <2>2, <2>3, <2>4, <2>5 DEF LoopAnswer
    <3> QED BY <2>1, <3>1, Answering
  <2>6. CASE req.kind = "pooled"
    <3>1. lock' = Append(lock, m) /\ loop' = loop /\ ~LoopAnswer(m)
      BY <2>3, <2>4, <2>6 DEF LoopAnswer
    <3> QED BY <2>1, <3>1, Beside
  <2> QED BY <2>2, <2>5, <2>6
<1>13. ASSUME NEW req \in work, HandlerRaises(req)
       PROVE  LoopInv' /\ IsSeq(lock)'
  <2>1. UNCHANGED <<requests, spawned, lock>> /\ work' = work \ {req}
        /\ IF req.kind = "local" THEN loop'.pc = "ended" ELSE loop' = loop
    BY <1>13 DEF HandlerRaises, Idle
  <2>2. /\ req.kind \in {"local", "pooled"}
        /\ req.kind = "local" => loop.pc = "calling" /\ \A r \in work' : r.kind = "pooled"
    BY <2>1 DEF Base, LoopInv
  <2> QED BY <1>0, <2>1, <2>2, Ending, Beside
<1>14. ASSUME NEW u \in Uris, Publish(u)
       PROVE  LoopInv' /\ IsSeq(lock)'
  <2>1. UNCHANGED <<loop, requests, spawned, work>> /\ lock' = Append(lock, Update(None, u))
    BY <1>14 DEF Publish, own
  <2> QED BY <2>1, Beside, Updates
<1>15. ASSUME NEW b \in Backends, ReadAnswer(b)
       PROVE  LoopInv' /\ IsSeq(lock)'
  <2> DEFINE m == Head(fromBack[b])
  <2>1. UNCHANGED <<spawned, work, requests>> /\ m.kind = "answer" /\ fromBack[b] # << >>
    BY <1>15 DEF ReadAnswer, own
  <2>2. CASE UNCHANGED <<loop, lock>>
    BY <1>0, <2>1, <2>2, Beside
  <2>3. CASE loop.pc = "calling" /\ loop.req = m.req /\ Returned(b, m.ok, m.task)
    <3>1. PICK n : Answer(n) /\ n.kind \in {"result", "error"} /\ n.req = loop.req
      BY <2>3, Replies DEF Returned
    <3>2. m \in Elems(fromBack[b])
      BY <2>1, Shifted DEF Base, ShapeInv, Queues
    <3>3. loop.req.kind \notin {"local", "pooled"}
      BY <2>1, <2>3, <3>2 DEF RouteInv, Answers
    <3>4. LoopAnswer(n) /\ \A r \in work : r.kind = "pooled"
      BY <3>1, <3>3 DEF LoopAnswer, Base, LoopInv
    <3> QED BY <2>1, <2>3, <3>1, <3>4, Answering
  <2> QED BY <1>15, <2>2, <2>3 DEF ReadAnswer
<1>16. ASSUME NEW b \in Backends, RelayUpdate(b)
       PROVE  LoopInv' /\ IsSeq(lock)'
  <2>1. UNCHANGED <<loop, requests, spawned, work>> /\ lock' = Append(lock, Update(b, Head(fromBack[b]).uri))
    BY <1>16 DEF RelayUpdate, own
  <2> QED BY <2>1, Beside, Updates
<1>17. CASE Write
  BY <1>17, Writing
<1>18. ASSUME NEW b \in Backends, (\E ok \in BOOLEAN, t \in TaskIds \cup {None} : BackendAnswers(b, ok, t))
                                  \/ SinkUpdate(b) \/ \E u \in Uris : BackendUpdates(b, u)
       PROVE  LoopInv' /\ IsSeq(lock)'
  <2>1. UNCHANGED <<loop, lock, requests, spawned, work>>
    BY <1>18 DEF BackendAnswers, BackendUpdates, SinkUpdate, own
  <2> QED BY <2>1, Beside
<1> QED BY <1>3, <1>4, <1>5, <1>6, <1>7, <1>8, <1>9, <1>10, <1>11, <1>12, <1>13, <1>14, <1>15, <1>16, <1>17, <1>18
        DEF Next, LoopStep

-----------------------------------------------------------------------------
\* Names.
LEMMA HasFirst ==
  ASSUME NEW T, T \subseteq Nat, T # {}
  PROVE  First(T) \in T /\ \A j \in T : First(T) <= j
<1> DEFINE R == {p \in Nat \X Nat : p[1] < p[2]}
<1>1. OpToRel(<, Nat) = R
  BY DEF OpToRel
<1>2. IsWellFoundedOn(R, Nat)
  BY <1>1, NatLessThanWellFounded
<1>3. PICK x \in T : \A y \in T : <<y, x>> \notin R
  <2> HIDE DEF R
  <2> QED BY <1>2, WFMin
<1>4. \A y \in T : x <= y
  <2>1. TAKE y \in T
  <2>2. <<y, x>> \in Nat \X Nat /\ <<y, x>> \notin R /\ x \in Nat /\ y \in Nat
    BY <1>3
  <2>3. ~(<<y, x>>[1] < <<y, x>>[2])
    BY <2>2
  <2> QED BY <2>2, <2>3
<1> QED BY <1>4 DEF First

LEMMA Mark ==
  Len(Delimiter) = 2 /\ Delimiter[1] = Delimiter[2] /\ Delimiter \in Seq({Delimiter[1]})
<1>1. \E c : Delimiter = <<c, c>>
  BY Zenon DEF Delimiter
<1>2. \A c : Len(<<c, c>>) = 2 /\ <<c, c>>[1] = c /\ <<c, c>>[2] = c /\ <<c, c>> \in Seq({c})
  OBVIOUS
<1> QED BY <1>1, <1>2

LEMMA Widened ==
  ASSUME NEW S, NEW T, S \subseteq T
  PROVE  Seq(S) \subseteq Seq(T)
OBVIOUS

LEMMA ShortSplit ==
  ASSUME NEW c
  PROVE  split(<<c>>) = None
<1>1. Len(<<c>>) = 1
  OBVIOUS
<1>2. Occurrences(<<c>>, Delimiter) = {}
  BY <1>1, Mark DEF Occurrences
<1> QED BY <1>2 DEF split, Partition

\* What split makes of a name is two names.
LEMMA SplitNames ==
  ASSUME NEW id \in Seq(Characters), split(id) # None
  PROVE  split(id) = <<split(id)[1], split(id)[2]>> /\ Name(split(id)[2])
<1> DEFINE at == Occurrences(id, Delimiter)
           p  == Partition(id, Delimiter)
<1>1. at \subseteq Nat /\ Len(id) \in Nat /\ Len(Delimiter) = 2
  BY Mark DEF Occurrences
<1>2. split(id) = <<p.before, p.after>> /\ p.found /\ p.after # << >>
  BY DEF split
<1>3. at # {} /\ p.after = SubSeq(id, First(at) + 2, Len(id))
  BY <1>1, <1>2 DEF Partition
<1>4. First(at) \in at /\ First(at) \in Nat
  <2> HIDE DEF at
  <2> QED BY <1>1, <1>3, HasFirst
<1>5. \A i \in First(at) + 2 .. Len(id) : id[i] \in Characters
  BY <1>1, <1>4
<1>6. First(at) + 2 \in Int
  BY <1>4
<1>7. SubSeq(id, First(at) + 2, Len(id)) \in Seq(Characters)
  <2> HIDE DEF at
  <2> QED BY <1>1, <1>5, <1>6, SubSeqProperties
<1>8. split(id)[2] = p.after /\ split(id) = <<split(id)[1], split(id)[2]>>
  <2> HIDE DEF p
  <2> QED BY <1>2
<1>9. p.after \in Seq(Characters) /\ p.after # << >>
  <2> HIDE DEF at, p
  <2> QED BY <1>2, <1>3, <1>7
<1> HIDE DEF at, p
<1> QED BY <1>8, <1>9 DEF Name, None

LEMMA MarkSplit ==
  ASSUME NEW T, Delimiter[1] \in T, NEW id \in Seq(T), NEW name \in Seq(T), id # None, name # None,
         Occurrences(id, Delimiter) = {}, id[Len(id)] # Delimiter[1]
  PROVE  split(prefix(id, name)) = <<id, name>>
<1> DEFINE L == Len(id)
           mark == id \o Delimiter
           s == prefix(id, name)
           at == Occurrences(s, Delimiter)
<1>1. id \in Seq(T) /\ name \in Seq(T) /\ Delimiter \in Seq(T) /\ Len(Delimiter) = 2
      /\ Delimiter[2] = Delimiter[1] /\ L \in Nat /\ Len(name) \in Nat
  BY Mark, Widened
<1>2. /\ mark \in Seq(T) /\ Len(mark) = L + 2
      /\ \A i \in 1 .. L + 2 : mark[i] = IF i <= L THEN id[i] ELSE Delimiter[i - L]
  <2> HIDE DEF L
  <2>1. /\ mark \in Seq(T) /\ Len(mark) = L + Len(Delimiter)
        /\ \A i \in 1 .. L + Len(Delimiter) : mark[i] = IF i <= L THEN id[i] ELSE Delimiter[i - L]
    BY <1>1, ConcatProperties DEF L
  <2> HIDE DEF mark
  <2> QED BY <1>1, <2>1
<1>3. /\ s \in Seq(T) /\ Len(s) = L + 2 + Len(name)
      /\ \A i \in 1 .. L + 2 + Len(name) : s[i] = IF i <= L + 2 THEN mark[i] ELSE name[i - (L + 2)]
  <2>1. s = mark \o name
    BY DEF prefix
  <2>2. \A x, y \in Seq(T) : x \o y \in Seq(T) /\ Len(x \o y) = Len(x) + Len(y)
           /\ \A i \in 1 .. Len(x) + Len(y) : (x \o y)[i] = IF i <= Len(x) THEN x[i] ELSE y[i - Len(x)]
    BY ConcatProperties
  <2> HIDE DEF mark, s, L
  <2>3. /\ s \in Seq(T) /\ Len(s) = Len(mark) + Len(name)
        /\ \A i \in 1 .. Len(mark) + Len(name) : s[i] = IF i <= Len(mark) THEN mark[i] ELSE name[i - Len(mark)]
    BY <1>1, <1>2, <2>1, <2>2
  <2> QED BY <1>2, <2>3
<1> HIDE DEF mark, s
<1>4. /\ \A i \in 1 .. L : s[i] = id[i]
      /\ s[L + 1] = Delimiter[1] /\ s[L + 2] = Delimiter[1]
      /\ \A i \in 1 .. Len(name) : s[L + 2 + i] = name[i]
  <2> HIDE DEF L
  <2>1. \A i \in 1 .. L : i <= L /\ i <= L + 2 /\ i \in 1 .. L + 2 /\ i \in 1 .. L + 2 + Len(name)
    BY <1>1
  <2>2. \A i \in 1 .. L : s[i] = id[i]
    BY <1>2, <1>3, <2>1
  <2>3. /\ L + 1 \in 1 .. L + 2 /\ L + 1 \in 1 .. L + 2 + Len(name) /\ ~(L + 1 <= L) /\ (L + 1) - L = 1 /\ L + 1 <= L + 2
        /\ L + 2 \in 1 .. L + 2 /\ L + 2 \in 1 .. L + 2 + Len(name) /\ ~(L + 2 <= L) /\ (L + 2) - L = 2 /\ L + 2 <= L + 2
    BY <1>1
  <2>4. mark[L + 1] = Delimiter[1] /\ mark[L + 2] = Delimiter[2]
    BY <1>2, <2>3
  <2>5. s[L + 1] = Delimiter[1] /\ s[L + 2] = Delimiter[1]
    BY <1>1, <1>3, <2>3, <2>4
  <2>6. \A i \in 1 .. Len(name) : L + 2 + i \in 1 .. L + 2 + Len(name) /\ ~(L + 2 + i <= L + 2) /\ (L + 2 + i) - (L + 2) = i
    BY <1>1
  <2>7. \A i \in 1 .. Len(name) : s[L + 2 + i] = name[i]
    BY <1>3, <2>6
  <2> QED BY <2>2, <2>5, <2>7
<1>5. L > 0 /\ Len(name) > 0
  BY <1>1, EmptySeq DEF None
<1>6. at = {i \in 1 .. Len(s) : i + 1 <= Len(s) /\ s[i] = Delimiter[1] /\ s[i + 1] = Delimiter[1]}
  <2>1. \A i \in 1 .. Len(s) : (\A k \in 1 .. 2 : s[i + k - 1] = Delimiter[k]) <=> s[i] = Delimiter[1] /\ s[i + 1] = Delimiter[1]
    BY <1>1
  <2> QED BY <1>1, <1>3, <2>1 DEF Occurrences
<1>7. \A i \in 1 .. L : ~(i + 1 <= L /\ id[i] = Delimiter[1] /\ id[i + 1] = Delimiter[1])
  <2>1. ASSUME NEW i \in 1 .. L, i + 1 <= L, id[i] = Delimiter[1], id[i + 1] = Delimiter[1] PROVE i \in Occurrences(id, Delimiter)
    BY <1>1, <2>1 DEF Occurrences
  <2> QED BY <2>1
<1>8. L + 1 \in at
  BY <1>1, <1>3, <1>4, <1>5, <1>6
<1>9. \A i \in at : L + 1 <= i
  <2>1. SUFFICES ASSUME NEW i \in at, i <= L PROVE FALSE
    BY <1>1, <1>6
  <2>2. i \in 1 .. L /\ s[i] = Delimiter[1] /\ s[i + 1] = Delimiter[1]
    BY <1>1, <1>3, <1>6, <2>1
  <2>3. CASE i = L
    BY <1>4, <2>2, <2>3
  <2>4. CASE i # L
    <3>1. i + 1 \in 1 .. L /\ i + 1 <= L
      BY <1>1, <2>2, <2>4
    <3> QED BY <1>4, <1>7, <2>2, <3>1
  <2> QED BY <2>3, <2>4
<1>10. First(at) = L + 1
  <2>1. at \subseteq Nat
    BY <1>6
  <2> HIDE DEF at
  <2>2. First(at) \in at /\ First(at) <= L + 1 /\ L + 1 <= First(at)
    BY <1>8, <1>9, <2>1, HasFirst
  <2>3. First(at) \in Nat
    BY <2>1, <2>2
  <2> DEFINE f == First(at)
  <2>4. f \in Nat /\ f <= L + 1 /\ L + 1 <= f
    BY <2>2, <2>3
  <2> HIDE DEF f, L
  <2>5. f = L + 1
    BY <1>1, <2>4
  <2> QED BY <2>5 DEF f
<1>11. SubSeq(s, 1, L) = id
  <2> DEFINE t == SubSeq(s, 1, L)
  <2>1. t \in Seq(T) /\ Len(t) = L /\ \A i \in 1 .. L : t[i] = s[i]
    <3>1. \A i \in 1 .. L : s[i] \in T
      BY <1>1, <1>4
    <3>2. /\ t \in Seq(T) /\ Len(t) = IF 1 <= L THEN L - 1 + 1 ELSE 0
          /\ \A i \in 1 .. L - 1 + 1 : t[i] = s[1 + i - 1]
      BY <1>1, <3>1, SubSeqProperties
    <3> QED BY <1>1, <1>5, <3>2
  <2> HIDE DEF t
  <2> QED BY <1>1, <1>4, <2>1, SeqEqual DEF t
<1>12. SubSeq(s, L + 3, Len(s)) = name
  <2> DEFINE t == SubSeq(s, L + 3, Len(s))
  <2>1. t \in Seq(T) /\ Len(t) = Len(name) /\ \A i \in 1 .. Len(name) : t[i] = name[i]
    <3>1. \A i \in L + 3 .. Len(s) : s[i] \in T
      BY <1>1, <1>3, Mark
    <3>2. L + 3 \in Int /\ Len(s) \in Int
      BY <1>1, <1>3
    <3>3. /\ t \in Seq(T) /\ Len(t) = IF L + 3 <= Len(s) THEN Len(s) - (L + 3) + 1 ELSE 0
          /\ \A i \in 1 .. Len(s) - (L + 3) + 1 : t[i] = s[L + 3 + i - 1]
      BY <3>1, <3>2, SubSeqProperties
    <3>4. Len(s) - (L + 3) + 1 = Len(name) /\ L + 3 <= Len(s) /\ \A i \in 1 .. Len(name) : L + 3 + i - 1 = L + 2 + i
      BY <1>1, <1>3, <1>5
    <3> HIDE DEF t
    <3>5. t \in Seq(T) /\ Len(t) = Len(name)
      BY <3>3, <3>4
    <3>6. \A i \in 1 .. Len(name) : t[i] = s[L + 2 + i]
      BY <3>3, <3>4
    <3> QED BY <1>4, <3>5, <3>6
  <2> HIDE DEF t
  <2> QED BY <1>1, <2>1, SeqEqual DEF t
<1>13. L + 1 - 1 = L /\ L + 1 + Len(Delimiter) = L + 3 /\ at # {}
  BY <1>1, <1>8
<1>14. Partition(s, Delimiter) = [before |-> id, found |-> TRUE, after |-> name]
  <2>1. Partition(s, Delimiter) = [before |-> SubSeq(s, 1, First(at) - 1), found |-> TRUE,
                                   after |-> SubSeq(s, First(at) + Len(Delimiter), Len(s))]
    BY <1>13 DEF Partition
  <2>2. First(at) - 1 = L /\ First(at) + Len(Delimiter) = L + 3
    BY <1>10, <1>13
  <2> HIDE DEF at, L
  <2> QED BY <1>11, <1>12, <2>1, <2>2
<1>15. id # << >> /\ name # << >>
  BY DEF None
<1> QED BY <1>14, <1>15 DEF split, s

LEMMA PrefixSplit ==
  ASSUME NEW id, NEW name, PlainId(id), Name(name)
  PROVE  split(prefix(id, name)) = <<id, name>>
<1>1. Delimiter[1] \in Characters
  BY DEF Characters
<1>2. /\ id \in Seq(Characters) /\ name \in Seq(Characters) /\ id # None /\ name # None
      /\ Occurrences(id, Delimiter) = {} /\ id[Len(id)] # Delimiter[1]
  BY DEF PlainId, Name
<1> QED BY <1>1, <1>2, MarkSplit

-----------------------------------------------------------------------------
\* The queues, the log and the types.
Sends(f, g) == \E b \in Backends : \E x : g = [f EXCEPT ![b] = Append(f[b], x)]
Takes(f, g) == \E b \in Backends : f[b] # << >> /\ g = [f EXCEPT ![b] = Tail(f[b])]

LEMMA Moved ==
  ASSUME NEW f, NEW g, Queues(f), g = f \/ Sends(f, g) \/ Takes(f, g)
  PROVE  Queues(g)
<1>1. ASSUME NEW b \in Backends, NEW x, g = [f EXCEPT ![b] = Append(f[b], x)] PROVE Queues(g)
  <2>1. IsSeq(Append(f[b], x))
    BY Joined DEF Queues
  <2> QED BY <1>1, <2>1, Changed
<1>2. ASSUME NEW b \in Backends, f[b] # << >>, g = [f EXCEPT ![b] = Tail(f[b])] PROVE Queues(g)
  <2>1. IsSeq(Tail(f[b]))
    BY <1>2, Shifted DEF Queues
  <2> QED BY <1>2, <2>1, Changed
<1> QED BY <1>1, <1>2 DEF Sends, Takes

LEMMA Moves ==
  ASSUME Next
  PROVE  /\ requests' \in {requests, requests + 1}
         /\ UNCHANGED <<log, head>> \/ \E r : Record(r)
         /\ toBack' = toBack \/ Sends(toBack, toBack') \/ Takes(toBack, toBack')
         /\ fromBack' = fromBack \/ Sends(fromBack, fromBack') \/ Takes(fromBack, fromBack')
<1> DEFINE Logged == UNCHANGED <<log, head>> \/ \E r : Record(r)
           Posted == toBack' = toBack \/ Sends(toBack, toBack')
           Same == UNCHANGED <<toBack, fromBack>>
<1>1. ASSUME NEW b \in Backends, NEW a \in Arguments, CallBlocked(b, a) \/ CallForwarded(b, a) \/ CallRefused(b, a)
      PROVE  requests' = requests + 1 /\ Logged /\ Posted /\ UNCHANGED fromBack
  BY <1>1 DEF CallBlocked, CallForwarded, CallRefused, Counted, Forward, Refuse, Sends
<1>2. ASSUME NEW h \in Handlers, NEW a \in Arguments, LocalCall(h, a) \/ Spawn(h, a)
      PROVE  requests' = requests + 1 /\ Logged /\ Same
  BY <1>2 DEF LocalCall, Spawn, Counted, LocalBlocked, LocalRejected
<1>3. ASSUME NEW id, RouteTask(id)
      PROVE  requests' = requests + 1 /\ UNCHANGED <<log, head>> /\ Posted /\ UNCHANGED fromBack
  <2>1. requests' = requests + 1 /\ UNCHANGED <<log, head, fromBack>>
    BY <1>3 DEF RouteTask, Counted
  <2>2. toBack' = toBack \/ (split(id)[1] \in Backends /\ \E x : toBack' = [toBack EXCEPT ![split(id)[1]] = Append(@, x)])
    BY <1>3 DEF RouteTask, Forward, Refuse
  <2> QED BY <2>1, <2>2 DEF Sends
<1>4. ASSUME NEW kind, NEW u, (\E b \in Backends : RouteSubscription(kind, b, u)) \/ LocalSubscription(kind, u)
      PROVE  requests' = requests + 1 /\ UNCHANGED <<log, head>> /\ Posted /\ UNCHANGED fromBack
  BY <1>4 DEF RouteSubscription, LocalSubscription, Counted, Forward, Refuse, Sends
<1>5. ASSUME CallRaises
      PROVE  requests' = requests /\ Logged /\ Same
  BY <1>5 DEF CallRaises, RecordOutcome
<1>6. ASSUME NEW req, PooledStarts(req) \/ HandlerRaises(req) \/ \E fits \in BOOLEAN : HandlerReturns(req, fits)
      PROVE  requests' = requests /\ Logged /\ Same
  BY <1>6 DEF PooledStarts, HandlerRaises, HandlerReturns, LocalBlocked, LocalRejected
<1>7. ASSUME (\E u \in Uris : Publish(u)) \/ Write
      PROVE  requests' = requests /\ Logged /\ Same
  BY <1>7 DEF Publish, Write
<1>8. ASSUME NEW b \in Backends, ReadAnswer(b) \/ RelayUpdate(b) \/ SinkUpdate(b)
      PROVE  requests' = requests /\ Logged /\ UNCHANGED toBack /\ Takes(fromBack, fromBack')
  BY <1>8 DEF ReadAnswer, RelayUpdate, SinkUpdate, Returned, RecordOutcome, Takes
<1>9. ASSUME NEW b \in Backends, NEW ok \in BOOLEAN, NEW t, BackendAnswers(b, ok, t)
      PROVE  requests' = requests /\ Logged /\ Takes(toBack, toBack') /\ Sends(fromBack, fromBack')
  BY <1>9 DEF BackendAnswers, Takes, Sends
<1>10. ASSUME NEW b \in Backends, NEW u \in Uris, BackendUpdates(b, u)
       PROVE  requests' = requests /\ Logged /\ UNCHANGED toBack /\ Sends(fromBack, fromBack')
  BY <1>10 DEF BackendUpdates, Sends
<1> HIDE DEF Logged, Posted, Same
<1>11. requests' \in {requests, requests + 1} /\ Logged
  BY <1>1, <1>2, <1>3, <1>4, <1>5, <1>6, <1>7, <1>8, <1>9, <1>10 DEF Next, LoopStep, Logged
<1>12. Posted \/ Takes(toBack, toBack')
  BY <1>1, <1>2, <1>3, <1>4, <1>5, <1>6, <1>7, <1>8, <1>9, <1>10 DEF Next, LoopStep, Posted, Same
<1>13. fromBack' = fromBack \/ Sends(fromBack, fromBack') \/ Takes(fromBack, fromBack')
  BY <1>1, <1>2, <1>3, <1>4, <1>5, <1>6, <1>7, <1>8, <1>9, <1>10 DEF Next, LoopStep, Same
<1> QED BY <1>11, <1>12, <1>13 DEF Logged, Posted

LEMMA ShapeHolds ==
  ASSUME ShapeInv, IsSeq(lock)', Next
  PROVE  ShapeInv'
<1>1. requests' \in Nat
  BY Moves DEF ShapeInv
<1>2. Queues(toBack') /\ Queues(fromBack')
  <2> HIDE DEF Queues
  <2> QED BY Moves, Moved DEF ShapeInv
<1>3. IsSeq(log')
  <2>1. log' = log \/ \E x : log' = Append(log, x)
    BY Moves DEF Record
  <2>2. IsSeq(log)
    BY DEF ShapeInv
  <2>3. \A x : IsSeq(Append(log, x))
    BY <2>2, Joined
  <2> HIDE DEF IsSeq
  <2> QED BY <2>1, <2>2, <2>3
<1> QED BY <1>1, <1>2, <1>3 DEF ShapeInv, IsSeq, Queues, Elems

\* However the records come to be written, each links to the one before it.
LEMMA ChainHolds ==
  ASSUME ShapeInv, ChainInv, Next
  PROVE  ChainInv'
<1>1. IsSeq(log)
  BY DEF ShapeInv
<1>2. CASE UNCHANGED <<log, head>>
  BY <1>2 DEF ChainInv, Verifies
<1>3. ASSUME NEW r, Record(r) PROVE ChainInv'
  <2> DEFINE e == [record |-> r, prev |-> head, hash |-> <<head, r>>]
  <2>1. log' = Append(log, e) /\ head' = <<head, r>>
    BY <1>3 DEF Record
  <2>2. e.prev = head /\ e.hash = <<head, r>> /\ e.record = r
    OBVIOUS
  <2> HIDE DEF e
  <2>3. /\ Len(log) \in Nat /\ DOMAIN log = 1 .. Len(log) /\ Len(log') = Len(log) + 1 /\ log' # << >>
        /\ log'[Len(log) + 1] = e /\ \A i \in 1 .. Len(log) : log'[i] = log[i]
    BY <1>1, <2>1, Joined
  <2>4. head = IF Len(log) = 0 THEN Genesis ELSE log[Len(log)].hash
    <3>1. Len(log) = 0 <=> log = << >>
      BY <1>1, EmptySeq DEF IsSeq
    <3> QED BY <3>1 DEF ChainInv
  <2>5. ASSUME NEW i \in 1 .. Len(log) + 1
        PROVE  /\ log'[i].prev = (IF i = 1 THEN Genesis ELSE log'[i - 1].hash)
               /\ log'[i].hash = <<log'[i].prev, log'[i].record>>
    <3>1. CASE i = Len(log) + 1
      <4>1. log'[i] = e /\ i - 1 = Len(log) /\ (i = 1 <=> Len(log) = 0)
        BY <2>3, <3>1
      <4>2. Len(log) # 0 => log'[i - 1] = log[Len(log)]
        BY <2>3, <4>1
      <4> QED BY <2>2, <2>4, <4>1, <4>2
    <3>2. CASE i # Len(log) + 1
      <4>1. i \in 1 .. Len(log) /\ (i # 1 => i - 1 \in 1 .. Len(log))
        BY <2>3, <3>2
      <4> QED BY <2>3, <4>1 DEF ChainInv, Verifies
    <3> QED BY <3>1, <3>2
  <2>6. Verifies(log')
    BY <2>3, <2>5 DEF Verifies
  <2>7. head' = log'[Len(log')].hash
    BY <2>1, <2>2, <2>3
  <2> QED BY <2>3, <2>6, <2>7 DEF ChainInv, Verifies
<1> QED BY <1>2, <1>3, Moves

\* A router keeps its filters and its pool.
LEMMA RouterKept == Next => UNCHANGED router
<1>1. \A b \in Backends, a \in Arguments : CallBlocked(b, a) \/ CallForwarded(b, a) \/ CallRefused(b, a) => UNCHANGED router
  BY DEF CallBlocked, CallForwarded, CallRefused
<1>2. \A h \in Handlers, a \in Arguments : LocalCall(h, a) \/ Spawn(h, a) => UNCHANGED router
  BY DEF LocalCall, Spawn
<1>3. \A id : RouteTask(id) => UNCHANGED router
  BY DEF RouteTask
<1>4. \A k, u, b : RouteSubscription(k, b, u) \/ LocalSubscription(k, u) => UNCHANGED router
  BY DEF RouteSubscription, LocalSubscription
<1>5. CallRaises \/ Write => UNCHANGED router
  BY DEF CallRaises, Write
<1>6. \A req : PooledStarts(req) \/ HandlerRaises(req) \/ (\E fits \in BOOLEAN : HandlerReturns(req, fits)) => UNCHANGED router
  BY DEF PooledStarts, HandlerRaises, HandlerReturns
<1>7. \A u, b : Publish(u) \/ ReadAnswer(b) \/ RelayUpdate(b) \/ SinkUpdate(b) \/ BackendUpdates(b, u) => UNCHANGED router
  BY DEF Publish, ReadAnswer, RelayUpdate, SinkUpdate, BackendUpdates
<1>8. \A b, ok, t : BackendAnswers(b, ok, t) => UNCHANGED router
  BY DEF BackendAnswers
<1> QED BY <1>1, <1>2, <1>3, <1>4, <1>5, <1>6, <1>7, <1>8 DEF Next, LoopStep

\* The kinds of values: of every action, what it makes of the few variables
\* that TypeOK speaks of.
LEMMA TypeHolds ==
  ASSUME TypeOK, ShapeInv, RouteInv, Next
  PROVE  TypeOK'
<1> DEFINE Quiet == UNCHANGED <<readers, local, remote, updates>>
           Tools == \A req \in spawned' \cup work' : req.of.tool \in Handlers
           Place == loop'.pc \in {"reading", "calling", "writing", "ended"}
           Fits == requests' \in 0 .. MaxRequests
<1> USE CallPathAssumption
<1>0. /\ loop.pc \in {"reading", "calling", "writing", "ended"}
      /\ \A req \in spawned \cup work : req.of.tool \in Handlers
      /\ \A m : Answer(m) => Place
      /\ requests \in 0 .. MaxRequests /\ updates \in 0 .. MaxUpdates
  BY DEF TypeOK, Answer, Idle
<1>1. Counted => Fits
  BY <1>0 DEF Counted
<1>2. ASSUME NEW b \in Backends, NEW a \in Arguments, CallBlocked(b, a) \/ CallForwarded(b, a) \/ CallRefused(b, a)
      PROVE  Quiet /\ Tools /\ Place /\ Fits
  <2>1. CASE CallBlocked(b, a)
    BY <1>0, <1>1, <2>1 DEF CallBlocked, own
  <2>2. CASE CallForwarded(b, a)
    BY <1>0, <1>1, <2>2 DEF CallForwarded, Forward, own
  <2>3. CASE CallRefused(b, a)
    BY <1>0, <1>1, <2>3 DEF CallRefused, Refuse, own
  <2> QED BY <1>2, <2>1, <2>2, <2>3
<1>3. ASSUME NEW h \in Handlers, NEW a \in Arguments, LocalCall(h, a) \/ Spawn(h, a)
      PROVE  Quiet /\ Tools /\ Place /\ Fits
  <2>1. \A n, kind : [n |-> n, kind |-> kind, of |-> Request(h, a)].of.tool \in Handlers
    BY DEF Request
  <2> QED BY <1>0, <1>1, <1>3, <2>1 DEF LocalCall, Spawn, Handled
<1>4. ASSUME NEW id, RouteTask(id)
      PROVE  Quiet /\ Tools /\ Place /\ Fits
  BY <1>0, <1>1, <1>4 DEF RouteTask, Forward, Refuse, own
<1>5. ASSUME NEW kind, NEW u, NEW b, RouteSubscription(kind, b, u)
      PROVE  Quiet /\ Tools /\ Place /\ Fits
  BY <1>0, <1>1, <1>5 DEF RouteSubscription, Forward, Refuse, own
<1>6. ASSUME NEW kind, NEW u \in Uris, LocalSubscription(kind, u)
      PROVE  UNCHANGED <<readers, remote, updates>> /\ local' \subseteq Uris /\ Tools /\ Place /\ Fits
  BY <1>0, <1>1, <1>6 DEF LocalSubscription, own, TypeOK
<1>7. CallRaises => Quiet /\ Tools /\ Place /\ UNCHANGED requests
  BY <1>0 DEF CallRaises, own, Idle
<1>8. ASSUME NEW req, PooledStarts(req)
      PROVE  Quiet /\ Tools /\ Place /\ UNCHANGED requests
  BY <1>0, <1>8 DEF PooledStarts, Handled
<1>9. ASSUME NEW req, HandlerRaises(req) \/ \E fits \in BOOLEAN : HandlerReturns(req, fits)
      PROVE  Quiet /\ Tools /\ Place /\ UNCHANGED requests
  BY <1>0, <1>9 DEF HandlerRaises, HandlerReturns, Idle
<1>10. ASSUME NEW u \in Uris, Publish(u)
       PROVE  UNCHANGED <<readers, local, remote, requests>> /\ updates' \in 0 .. MaxUpdates /\ Tools /\ Place
  BY <1>0, <1>10 DEF Publish, own
<1>11. ASSUME NEW b \in Backends, ReadAnswer(b)
       PROVE  Quiet /\ Tools /\ Place /\ UNCHANGED requests
  BY <1>0, <1>11 DEF ReadAnswer, Returned, own
<1>12. ASSUME NEW b \in Backends, RelayUpdate(b) \/ SinkUpdate(b)
       PROVE  /\ UNCHANGED <<local, remote, updates, requests>> /\ Tools /\ Place
              /\ readers' \in [Backends -> {"reading", "relaying"}]
  BY <1>0, <1>12 DEF RelayUpdate, SinkUpdate, own, TypeOK
<1>13. Write => /\ UNCHANGED <<local, remote, updates, requests>> /\ Tools /\ Place
                /\ readers' \in [Backends -> {"reading", "relaying"}]
  BY <1>0 DEF Write, own, TypeOK, Idle
<1>14. ASSUME NEW b \in Backends, NEW u \in Uris, BackendUpdates(b, u)
       PROVE  UNCHANGED <<readers, local, remote, requests>> /\ updates' \in 0 .. MaxUpdates /\ Tools /\ Place
  BY <1>0, <1>14 DEF BackendUpdates, own
<1>15. ASSUME NEW b \in Backends, NEW ok \in BOOLEAN, NEW t, BackendAnswers(b, ok, t)
       PROVE  /\ UNCHANGED <<readers, local, updates, requests>> /\ Tools /\ Place
              /\ remote' \in [Backends -> SUBSET Uris]
  <2> DEFINE m == Head(toBack[b])
             subs == IF ~ok THEN remote[b]
                     ELSE IF m.req.kind = "subscribe" THEN remote[b] \cup {m.original}
                     ELSE IF m.req.kind = "unsubscribe" THEN remote[b] \ {m.original} ELSE remote[b]
  <2>1. UNCHANGED <<readers, local, updates, requests>> /\ Tools /\ Place /\ toBack[b] # << >>
    BY <1>0, <1>15 DEF BackendAnswers, own
  <2>2. remote' = [remote EXCEPT ![b] = subs]
    BY <1>15 DEF BackendAnswers
  <2>3. m \in Elems(toBack[b])
    BY <2>1, Shifted DEF ShapeInv, Queues
  <2>4. m.req.kind = "subscribe" => m.original \in Uris
    BY <2>3 DEF RouteInv, Asks
  <2>5. remote[b] \subseteq Uris
    BY DEF TypeOK
  <2>6. subs \subseteq Uris
    <3> HIDE DEF m
    <3> QED BY <2>4, <2>5
  <2> HIDE DEF subs
  <2>7. remote' \in [Backends -> SUBSET Uris]
    BY <2>2, <2>6 DEF TypeOK
  <2> QED BY <2>1, <2>7
<1>16. UNCHANGED router
  BY RouterKept
<1>17. chain' \in Chains /\ pooled' \in Pools /\ sink' \in Sinks
  BY <1>16 DEF TypeOK, router
<1>18. requests \in 0 .. MaxRequests /\ updates \in 0 .. MaxUpdates /\ local \subseteq Uris
       /\ readers \in [Backends -> {"reading", "relaying"}] /\ remote \in [Backends -> SUBSET Uris]
  BY DEF TypeOK
<1> HIDE DEF Tools, Place, Fits
<1>19. Tools /\ Place
  BY <1>2, <1>3, <1>4, <1>5, <1>6, <1>7, <1>8, <1>9, <1>10, <1>11, <1>12, <1>13, <1>14, <1>15 DEF Next, LoopStep
<1>20. requests' \in 0 .. MaxRequests /\ updates' \in 0 .. MaxUpdates
  BY <1>2, <1>3, <1>4, <1>5, <1>6, <1>7, <1>8, <1>9, <1>10, <1>11, <1>12, <1>13, <1>14, <1>15, <1>18 DEF Next, LoopStep, Fits
<1>21. local' \subseteq Uris /\ readers' \in [Backends -> {"reading", "relaying"}] /\ remote' \in [Backends -> SUBSET Uris]
  BY <1>2, <1>3, <1>4, <1>5, <1>6, <1>7, <1>8, <1>9, <1>10, <1>11, <1>12, <1>13, <1>14, <1>15, <1>18 DEF Next, LoopStep
<1> QED BY <1>17, <1>19, <1>20, <1>21 DEF TypeOK, Tools, Place

-----------------------------------------------------------------------------
\* What is asked of the backends, and their answers.
Comes(m, b) ==
    /\ m.kind = "answer" \/ (m.kind = "updated" /\ m.uri \in Uris)
    /\ m.kind = "answer" => Answers(m, b)
Minted(h) == h.owner \in Backends /\ Name(h.original) /\ h.id = prefix(h.owner, h.original)
Placed(s) ==
    /\ Known(s.req)
    /\ s.req.kind = "pooled" => s.to = s.req.of.tool
    /\ s.req.kind = "task" => split(s.req.of) = <<s.to, s.original>>

LEMMA RouteFrame ==
  ASSUME ShapeInv, RouteInv, requests' \in {requests, requests + 1}, served \subseteq served',
         \A s \in served' : s \in served \/ Placed(s)',
         \A s, t \in served' : s.req = t.req => s.to = t.to,
         loop'.pc = "calling" => loop' = loop \/ Sent(loop.req, loop.to)',
         \A b \in Backends : \A m \in Elems(toBack'[b]) : m \in Elems(toBack[b]) \/ Asks(m, b)',
         \A b \in Backends : \A m \in Elems(fromBack'[b]) : m \in Elems(fromBack[b]) \/ Comes(m, b)',
         \A h \in handles' : h \in handles \/ Minted(h)
  PROVE  RouteInv'
<1>1. requests \in Nat
  BY DEF ShapeInv
<1>2. \A r : Known(r) => r.n \in Nat /\ r.n < requests'
  BY <1>1, Later
<1>3. \A r, b : Sent(r, b) => \E s \in served' : s.req = r /\ s.to = b
  BY DEF Sent
<1>4. \A s \in served' : Placed(s)'
  BY <1>2 DEF RouteInv, Placed, Known
<1>5. loop'.pc = "calling" => Sent(loop.req, loop.to)'
  BY <1>3 DEF RouteInv, Sent
<1>6. ASSUME NEW b \in Backends, NEW m \in Elems(toBack'[b]) PROVE Asks(m, b)'
  <2>1. CASE m \in Elems(toBack[b])
    <3>1. Asks(m, b)
      BY <2>1 DEF RouteInv
    <3> QED BY <1>2, <1>3, <3>1 DEF Asks, Known, Sent
  <2> QED BY <1>6, <2>1
<1>7. ASSUME NEW b \in Backends, NEW m \in Elems(fromBack'[b]) PROVE Comes(m, b)'
  <2>1. CASE m \in Elems(fromBack[b])
    <3>1. Comes(m, b)
      BY <2>1 DEF RouteInv, Comes
    <3> QED BY <1>2, <1>3, <3>1 DEF Comes, Answers, Known, Sent
  <2> QED BY <1>7, <2>1
<1>8. \A h \in handles' : Minted(h)
  BY DEF RouteInv, Minted
<1> QED BY <1>4, <1>5, <1>6, <1>7, <1>8 DEF RouteInv, Placed, Comes, Minted, Elems, Sent

\* Nothing is sent: the loop is told no, or others work beside it.
LEMMA RouteQuiet ==
  ASSUME ShapeInv, RouteInv, requests' \in {requests, requests + 1},
         UNCHANGED <<toBack, fromBack, served, handles>>, loop'.pc = "calling" => loop' = loop
  PROVE  RouteInv'
<1>1. \A s, t \in served' : s.req = t.req => s.to = t.to
  BY DEF RouteInv
<1> QED BY <1>1, RouteFrame

\* A request is sent, or a handler has it.
LEMMA RouteServed ==
  ASSUME ShapeInv, RouteInv, NEW s, served' = served \cup {s}, UNCHANGED handles,
         requests' \in {requests, requests + 1}, Placed(s)',
         s.req.n = requests \/ s.req.kind = "pooled",
         loop' = loop \/ (loop'.req = s.req /\ loop'.to = s.to),
         \A b \in Backends : \A m \in Elems(toBack'[b]) : m \in Elems(toBack[b]) \/ Asks(m, b)',
         UNCHANGED fromBack
  PROVE  RouteInv'
<1>1. requests \in Nat
  BY DEF ShapeInv
<1>2. \A t \in served : t.req = s.req => t.to = s.to
  <2>1. CASE s.req.kind = "pooled"
    BY <2>1 DEF RouteInv, Placed
  <2>2. CASE s.req.n = requests
    BY <1>1, <2>2 DEF RouteInv, Known
  <2> QED BY <2>1, <2>2
<1>3. \A t, r \in served' : t.req = r.req => t.to = r.to
  BY <1>2 DEF RouteInv
<1>4. \A t \in served' : t \in served \/ Placed(t)'
  OBVIOUS
<1>5. loop'.pc = "calling" => loop' = loop \/ Sent(loop.req, loop.to)'
  BY DEF Sent
<1> QED BY <1>3, <1>4, <1>5, RouteFrame

LEMMA RouteForward ==
  ASSUME ShapeInv, RouteInv, NEW req, NEW b \in Backends, NEW original, NEW message, Forward(req, b, original, message),
         req.n = requests, requests' = requests + 1, req.kind \notin {"local", "pooled"},
         req.kind = "task" => Name(original) /\ split(req.of) = <<b, original>>,
         req.kind \in {"subscribe", "unsubscribe"} => original \in Uris /\ req.of = <<b, original>>,
         UNCHANGED <<fromBack, handles>>
  PROVE  RouteInv'
<1> DEFINE s == [req |-> req, to |-> b, original |-> original, message |-> message]
           m == [req |-> req, original |-> original]
<1>1. /\ served' = served \cup {s} /\ loop'.req = req /\ loop'.to = b
      /\ toBack' = [toBack EXCEPT ![b] = Append(toBack[b], m)]
  BY DEF Forward
<1>2. s.req = req /\ s.to = b /\ s.original = original /\ m.req = req /\ m.original = original
  OBVIOUS
<1> HIDE DEF s, m
<1>3. requests \in Nat /\ Queues(toBack)
  BY DEF ShapeInv
<1>4. Known(req)'
  BY <1>3 DEF Known
<1>5. Placed(s)'
  BY <1>2, <1>4 DEF Placed, Known
<1>6. Asks(m, b)'
  BY <1>1, <1>2, <1>4 DEF Asks, Sent, Known
<1>7. /\ IsSeq(Append(toBack[b], m)) /\ Elems(Append(toBack[b], m)) = Elems(toBack[b]) \union {m}
  BY <1>3, Joined DEF Queues
<1>8. toBack'[b] = Append(toBack[b], m) /\ \A d \in Backends : d # b => toBack'[d] = toBack[d]
  BY <1>1, <1>3 DEF Queues
<1>9. ASSUME NEW d \in Backends, NEW n \in Elems(toBack'[d]) PROVE n \in Elems(toBack[d]) \/ Asks(n, d)'
  <2>1. CASE d = b
    <3>1. n \in Elems(toBack[b]) \/ n = m
      BY <1>7, <1>8, <1>9, <2>1
    <3> QED BY <1>6, <2>1, <3>1
  <2>2. CASE d # b
    BY <1>8, <1>9, <2>2
  <2> QED BY <2>1, <2>2
<1> QED BY <1>1, <1>2, <1>5, <1>9, RouteServed

LEMMA RouteHolds ==
  ASSUME ShapeInv, LoopInv, RouteInv, Next
  PROVE  RouteInv'
<1>0. requests \in Nat /\ Queues(toBack) /\ Queues(fromBack)
  BY DEF ShapeInv
<1>1. ASSUME NEW m, Answer(m) PROVE loop'.pc # "calling"
  BY <1>1 DEF Answer, Idle
<1>2. ASSUME NEW b \in Backends, NEW a \in Arguments, CallBlocked(b, a) \/ CallRefused(b, a)
      PROVE  RouteInv'
  <2>1. /\ requests' = requests + 1 /\ UNCHANGED <<toBack, fromBack, served, handles>> /\ \E m : Answer(m)
    BY <1>2 DEF CallBlocked, CallRefused, Refuse, Counted
  <2> QED BY <1>1, <2>1, RouteQuiet
<1>3. ASSUME NEW b \in Backends, NEW a \in Arguments, CallForwarded(b, a)
      PROVE  RouteInv'
  <2> DEFINE req == [n |-> requests, kind |-> "call", of |-> Request(b, a)]
             message == run(chain, Request(b, a)).message
  <2>1. /\ requests' = requests + 1 /\ UNCHANGED <<fromBack, handles>> /\ Forward(req, b, None, message)
    BY <1>3 DEF CallForwarded, Counted
  <2>2. req.n = requests /\ req.kind = "call"
    OBVIOUS
  <2> HIDE DEF req, message
  <2> QED BY <2>1, <2>2, RouteForward
<1>4. ASSUME NEW h \in Handlers, NEW a \in Arguments, LocalCall(h, a)
      PROVE  RouteInv'
  <2>1. PICK req : req = [n |-> requests, kind |-> "local", of |-> Request(h, a)]
    OBVIOUS
  <2>2. PICK s : s = [req |-> req, to |-> req.of.tool, original |-> None, message |-> run(chain, req.of).message]
    OBVIOUS
  <2>3. /\ requests' = requests + 1 /\ UNCHANGED <<toBack, fromBack, handles>>
        /\ \/ Answer(Error(req)) /\ UNCHANGED served
           \/ served' = served \cup {s} /\ loop' = [pc |-> "calling", req |-> req, to |-> h]
    BY <1>4, <2>1, <2>2 DEF LocalCall, Counted, Handled
  <2>4. req.n = requests /\ req.kind = "local" /\ req.of.tool = h
    BY <2>1 DEF Request
  <2>5. s.req = req /\ s.to = h
    BY <2>2, <2>4
  <2>6. CASE Answer(Error(req)) /\ UNCHANGED served
    BY <1>1, <2>3, <2>6, RouteQuiet
  <2>7. CASE served' = served \cup {s} /\ loop' = [pc |-> "calling", req |-> req, to |-> h]
    <3>1. Placed(s)'
      BY <1>0, <2>3, <2>4, <2>5 DEF Placed, Known
    <3>2. loop'.req = s.req /\ loop'.to = s.to
      BY <2>5, <2>7
    <3>3. \A d \in Backends : \A m \in Elems(toBack'[d]) : m \in Elems(toBack[d])
      BY <2>3
    <3>4. s.req.n = requests /\ served' = served \cup {s} /\ requests' \in {requests, requests + 1}
      BY <2>3, <2>4, <2>5, <2>7
    <3> QED BY <2>3, <3>1, <3>2, <3>3, <3>4, RouteServed
  <2> QED BY <2>3, <2>6, <2>7
<1>5. ASSUME NEW h \in Handlers, NEW a \in Arguments, Spawn(h, a)
      PROVE  RouteInv'
  <2>1. requests' = requests + 1 /\ UNCHANGED <<loop, toBack, fromBack, served, handles>>
    BY <1>5 DEF Spawn, Counted
  <2> QED BY <2>1, RouteQuiet
<1>6. ASSUME NEW id, RouteTask(id), id \in Seq(Characters) \/ split(id) = None
      PROVE  RouteInv'
  <2> DEFINE req == [n |-> requests, kind |-> "task", of |-> id]
  <2>1. /\ requests' = requests + 1 /\ UNCHANGED <<fromBack, handles>>
        /\ \/ /\ split(id) # None /\ split(id)[1] \in Backends
              /\ Forward(req, split(id)[1], split(id)[2], None)
           \/ Answer(Error(req)) /\ UNCHANGED <<toBack, served>>
    BY <1>6 DEF RouteTask, Counted, Refuse
  <2>2. req.n = requests /\ req.kind = "task" /\ req.of = id
    OBVIOUS
  <2> HIDE DEF req
  <2>3. CASE Answer(Error(req)) /\ UNCHANGED <<toBack, served>>
    BY <1>1, <2>1, <2>3, RouteQuiet
  <2>4. CASE split(id) # None /\ split(id)[1] \in Backends /\ Forward(req, split(id)[1], split(id)[2], None)
    <3>1. Name(split(id)[2]) /\ split(id) = <<split(id)[1], split(id)[2]>>
      BY <1>6, <2>4, SplitNames
    <3> QED BY <2>1, <2>2, <2>4, <3>1, RouteForward
  <2> QED BY <2>1, <2>3, <2>4
<1>7. ASSUME NEW kind \in {"subscribe", "unsubscribe"}, NEW u \in Uris, NEW b \in Backends, RouteSubscription(kind, b, u)
      PROVE  RouteInv'
  <2> DEFINE req == [n |-> requests, kind |-> kind, of |-> <<b, u>>]
  <2>1. /\ requests' = requests + 1 /\ UNCHANGED <<fromBack, handles>>
        /\ \/ Forward(req, b, u, None)
           \/ Answer(Error(req)) /\ UNCHANGED <<toBack, served>>
    BY <1>7 DEF RouteSubscription, Counted, Refuse
  <2>2. req.n = requests /\ req.kind = kind /\ req.of = <<b, u>>
    OBVIOUS
  <2> HIDE DEF req
  <2>3. CASE Answer(Error(req)) /\ UNCHANGED <<toBack, served>>
    BY <1>1, <2>1, <2>3, RouteQuiet
  <2>4. CASE Forward(req, b, u, None)
    BY <2>1, <2>2, <2>4, RouteForward
  <2> QED BY <2>1, <2>3, <2>4
<1>8. ASSUME NEW kind \in {"subscribe", "unsubscribe"}, NEW u \in Uris, LocalSubscription(kind, u)
      PROVE  RouteInv'
  <2>1. /\ requests' = requests + 1 /\ UNCHANGED <<toBack, fromBack, served, handles>> /\ \E m : Answer(m)
    BY <1>8 DEF LocalSubscription, Counted
  <2> QED BY <1>1, <2>1, RouteQuiet
<1>9. ASSUME CallRaises
      PROVE  RouteInv'
  <2>1. UNCHANGED <<requests, toBack, fromBack, served, handles>> /\ ((\E m : Answer(m)) \/ loop'.pc = "ended")
    BY <1>9 DEF CallRaises, Idle
  <2> QED BY <1>1, <2>1, RouteQuiet
<1>10. ASSUME NEW req \in spawned, PooledStarts(req)
       PROVE  RouteInv'
  <2>1. PICK s : s = [req |-> req, to |-> req.of.tool, original |-> None, message |-> run(chain, req.of).message]
    OBVIOUS
  <2>2. /\ UNCHANGED <<requests, loop, toBack, fromBack, handles>>
        /\ served' = served \/ served' = served \cup {s}
    BY <1>10, <2>1 DEF PooledStarts, Handled
  <2>3. req.kind = "pooled" /\ Known(req) /\ s.req = req /\ s.to = req.of.tool
    BY <2>1 DEF LoopInv
  <2>4. CASE served' = served \cup {s}
    <3>1. Placed(s)'
      BY <2>2, <2>3 DEF Placed, Known
    <3>2. \A d \in Backends : \A m \in Elems(toBack'[d]) : m \in Elems(toBack[d])
      BY <2>2
    <3> QED BY <2>2, <2>3, <2>4, <3>1, <3>2, RouteServed
  <2> QED BY <2>2, <2>4, RouteQuiet
<1>11. ASSUME NEW req \in work, HandlerRaises(req) \/ \E fits \in BOOLEAN : HandlerReturns(req, fits)
       PROVE  RouteInv'
  <2>1. /\ UNCHANGED <<requests, toBack, fromBack, served, handles>>
        /\ loop' = loop \/ loop'.pc = "ended" \/ \E m : Answer(m)
    BY <1>11 DEF HandlerRaises, HandlerReturns, Idle
  <2> QED BY <1>1, <2>1, RouteQuiet
<1>12. ASSUME (\E u \in Uris : Publish(u)) \/ Write
       PROVE  RouteInv'
  <2>1. /\ UNCHANGED <<requests, toBack, fromBack, served, handles>> /\ (loop' = loop \/ loop'.pc = "reading")
    BY <1>12 DEF Publish, Write, Idle
  <2> QED BY <2>1, RouteQuiet
<1>13. ASSUME NEW b \in Backends, fromBack[b] # << >>
       PROVE  /\ Head(fromBack[b]) \in Elems(fromBack[b]) /\ Comes(Head(fromBack[b]), b)
              /\ fromBack' = [fromBack EXCEPT ![b] = Tail(fromBack[b])] =>
                   \A d \in Backends : \A m \in Elems(fromBack'[d]) : m \in Elems(fromBack[d])
  <2>1. /\ Head(fromBack[b]) \in Elems(fromBack[b]) /\ Elems(Tail(fromBack[b])) \subseteq Elems(fromBack[b])
    BY <1>0, <1>13, Shifted DEF Queues
  <2>2. Comes(Head(fromBack[b]), b)
    BY <2>1 DEF RouteInv, Comes
  <2>3. fromBack' = [fromBack EXCEPT ![b] = Tail(fromBack[b])] =>
          \A d \in Backends : fromBack'[d] = IF d = b THEN Tail(fromBack[b]) ELSE fromBack[d]
    BY <1>0 DEF Queues
  <2> QED BY <2>1, <2>2, <2>3
<1>14. ASSUME NEW b \in Backends, ReadAnswer(b)
       PROVE  RouteInv'
  <2> DEFINE m == Head(fromBack[b])
  <2>1. /\ UNCHANGED <<requests, toBack, served>> /\ m.kind = "answer" /\ fromBack[b] # << >>
        /\ fromBack' = [fromBack EXCEPT ![b] = Tail(fromBack[b])]
    BY <1>14 DEF ReadAnswer
  <2>2. Answers(m, b)
    BY <1>13, <2>1 DEF Comes
  <2>3. \/ UNCHANGED <<loop, handles>>
        \/ loop.pc = "calling" /\ loop.req = m.req /\ Returned(b, m.ok, m.task)
    BY <1>14 DEF ReadAnswer
  <2>4. ASSUME loop.pc = "calling", loop.req = m.req, Returned(b, m.ok, m.task)
        PROVE  loop'.pc # "calling" /\ \A h \in handles' : h \in handles \/ Minted(h)
    <3> DEFINE id == namespace_task_id(m.task, loop.to)
               h == [id |-> id, owner |-> b, original |-> m.task]
    <3>1. loop'.pc # "calling"
      BY <1>1, <2>4 DEF Returned
    <3>2. handles' = handles \/ (id # None /\ handles' = handles \cup {h})
      BY <2>4 DEF Returned
    <3>3. loop.to = b
      BY <2>2, <2>4 DEF RouteInv, Answers, Sent
    <3>4. id # None => m.task # None /\ id = prefix(b, m.task)
      BY <3>3 DEF namespace_task_id
    <3>5. h.id = id /\ h.owner = b /\ h.original = m.task
      OBVIOUS
    <3> HIDE DEF h, id, m
    <3>6. id # None => Minted(h)
      BY <2>2, <3>4, <3>5 DEF Minted, Answers
    <3> QED BY <3>1, <3>2, <3>6
  <2>5. loop'.pc = "calling" => loop' = loop
    BY <2>3, <2>4
  <2>6. \A h \in handles' : h \in handles \/ Minted(h)
    BY <2>3, <2>4
  <2>7. \A s, t \in served' : s.req = t.req => s.to = t.to
    BY <2>1 DEF RouteInv
  <2> HIDE DEF m
  <2> QED BY <1>13, <2>1, <2>5, <2>6, <2>7, RouteFrame
<1>15. ASSUME NEW b \in Backends, RelayUpdate(b) \/ SinkUpdate(b)
       PROVE  RouteInv'
  <2>1. /\ UNCHANGED <<requests, loop, toBack, served, handles>> /\ fromBack[b] # << >>
        /\ fromBack' = [fromBack EXCEPT ![b] = Tail(fromBack[b])]
    BY <1>15 DEF RelayUpdate, SinkUpdate
  <2>2. \A s, t \in served' : s.req = t.req => s.to = t.to
    BY <2>1 DEF RouteInv
  <2> QED BY <1>13, <2>1, <2>2, RouteFrame
<1>16. ASSUME NEW b \in Backends, NEW x, fromBack' = [fromBack EXCEPT ![b] = Append(fromBack[b], x)], Comes(x, b)'
       PROVE  \A d \in Backends : \A m \in Elems(fromBack'[d]) : m \in Elems(fromBack[d]) \/ Comes(m, d)'
  <2>1. Elems(Append(fromBack[b], x)) = Elems(fromBack[b]) \union {x}
    BY <1>0, Joined DEF Queues
  <2>2. \A d \in Backends : fromBack'[d] = IF d = b THEN Append(fromBack[b], x) ELSE fromBack[d]
    BY <1>0, <1>16 DEF Queues
  <2>3. ASSUME NEW d \in Backends, NEW m \in Elems(fromBack'[d]) PROVE m \in Elems(fromBack[d]) \/ Comes(m, d)'
    <3>1. d = b => m \in Elems(fromBack[b]) \/ m = x
      BY <2>1, <2>2, <2>3
    <3>2. d # b => m \in Elems(fromBack[d])
      BY <2>2, <2>3
    <3> QED BY <1>16, <3>1, <3>2
  <2> QED BY <2>3
<1>17. ASSUME NEW b \in Backends, NEW ok \in BOOLEAN, NEW t \in TaskIds \cup {None}, BackendAnswers(b, ok, t)
       PROVE  RouteInv'
  <2> DEFINE m == Head(toBack[b])
             task == IF m.req.kind = "task" THEN m.original ELSE IF m.req.kind = "call" THEN t ELSE None
             x == [kind |-> "answer", req |-> m.req, ok |-> ok, task |-> task]
  <2>1. /\ UNCHANGED <<requests, loop, served, handles>> /\ toBack[b] # << >>
        /\ toBack' = [toBack EXCEPT ![b] = Tail(toBack[b])]
        /\ fromBack' = [fromBack EXCEPT ![b] = Append(fromBack[b], x)]
    BY <1>17 DEF BackendAnswers
  <2>2. m \in Elems(toBack[b]) /\ Elems(Tail(toBack[b])) \subseteq Elems(toBack[b])
    BY <1>0, <2>1, Shifted DEF Queues
  <2>3. Asks(m, b)
    BY <2>2 DEF RouteInv
  <2>4. \A d \in Backends : toBack'[d] = IF d = b THEN Tail(toBack[b]) ELSE toBack[d]
    BY <1>0, <2>1 DEF Queues
  <2>5. x.kind = "answer" /\ x.req = m.req /\ x.task = task
    OBVIOUS
  <2>6. t # None => Name(t)
    BY CallPathAssumption, Widened DEF Name, Characters
  <2>7. task # None => Name(task) /\ m.req.kind \in {"call", "task"}
    <3> HIDE DEF m
    <3> QED BY <2>3, <2>6 DEF Asks
  <2> HIDE DEF m, task, x
  <2>8. PICK y : y = x
    OBVIOUS
  <2>9. Answers(y, b)
    BY <2>3, <2>5, <2>7, <2>8 DEF Answers, Asks
  <2>10. Comes(y, b)'
    BY <2>1, <2>5, <2>9, <2>8 DEF Comes, Answers, Sent, Known
  <2>11. \A d \in Backends : \A n \in Elems(toBack'[d]) : n \in Elems(toBack[d])
    BY <2>2, <2>4
  <2>12. \A r, s \in served' : r.req = s.req => r.to = s.to
    BY <2>1 DEF RouteInv
  <2> QED BY <1>16, <2>1, <2>10, <2>11, <2>12, <2>8, RouteFrame
<1>18. ASSUME NEW b \in Backends, NEW u \in Uris, BackendUpdates(b, u)
       PROVE  RouteInv'
  <2> DEFINE x == [kind |-> "updated", uri |-> u]
  <2>1. /\ UNCHANGED <<requests, loop, toBack, served, handles>>
        /\ fromBack' = [fromBack EXCEPT ![b] = Append(fromBack[b], x)]
    BY <1>18 DEF BackendUpdates
  <2>2. x.kind = "updated" /\ x.uri \in Uris
    OBVIOUS
  <2> HIDE DEF x
  <2>3. Comes(x, b)'
    BY <2>2 DEF Comes
  <2>4. \A s, t \in served' : s.req = t.req => s.to = t.to
    BY <2>1 DEF RouteInv
  <2> QED BY <1>16, <2>1, <2>3, <2>4, RouteFrame
<1>19. ASSUME NEW h \in handles PROVE h.id \in Seq(Characters)
  <2>1. h.owner \in Seq(Characters) /\ h.original \in Seq(Characters) /\ h.id = prefix(h.owner, h.original)
    BY CallPathAssumption, Widened DEF RouteInv, Name, Characters
  <2>2. Delimiter \in Seq(Characters)
    BY Mark, Widened DEF Characters
  <2>3. \A a, b, c \in Seq(Characters) : a \o b \o c \in Seq(Characters)
    BY ConcatProperties
  <2> QED BY <2>1, <2>2, <2>3 DEF prefix
<1>20. ASSUME \E h \in handles : RouteTask(h.id)
       PROVE  RouteInv'
  BY <1>6, <1>19, <1>20
<1>21. ASSUME RouteTask(<<"t">>)
       PROVE  RouteInv'
  BY <1>6, <1>21, ShortSplit
<1> QED BY <1>2, <1>3, <1>4, <1>5, <1>20, <1>21, <1>7, <1>8, <1>9, <1>10, <1>11, <1>12, <1>14, <1>15, <1>17, <1>18
        DEF Next, LoopStep

-----------------------------------------------------------------------------
\* The accountability log.
Pending == loop.pc = "calling" /\ loop.req.kind = "call"

\* Nothing is recorded, and the loop neither starts nor ends a call.
LEMMA LogQuiet ==
  ASSUME ShapeInv, LogInv, requests' \in {requests, requests + 1}, log' = log, Pending \/ Pending' => loop' = loop
  PROVE  LogInv'
<1>1. \A r : Known(r) => r.n \in Nat /\ r.n < requests'
  BY Later DEF ShapeInv
<1>2. \A i \in DOMAIN log' : Known(log[i].record.call)'
  BY <1>1 DEF LogInv, Known
<1>3. \A call : RecordsOf(call)' = RecordsOf(call)
  BY DEF RecordsOf
<1>4. loop'.pc = "calling" /\ loop'.req.kind = "call" => Attested(loop.req)'
  BY DEF LogInv, Pending, Attested, RecordsOf
<1>5. ASSUME NEW i \in DOMAIN log, log[i].record.type = "attestation" PROVE Paired(i, log[i].record.call)'
  <2>1. PICK call : call = log[i].record.call
    OBVIOUS
  <2>2. Paired(i, call)
    BY <1>5, <2>1 DEF LogInv
  <2>3. Paired(i, call)'
    BY <1>3, <2>2 DEF Paired, Pending
  <2> QED BY <2>1, <2>3 DEF Paired, RecordsOf
<1> QED BY <1>2, <1>4, <1>5 DEF LogInv

\* A record more.
LEMMA Recorded ==
  ASSUME ShapeInv, NEW r, Record(r)
  PROVE  /\ Len(log) \in Nat /\ DOMAIN log = 1 .. Len(log) /\ DOMAIN log' = 1 .. Len(log) + 1
         /\ \A i \in DOMAIN log : i \in DOMAIN log' /\ i < Len(log) + 1 /\ log'[i] = log[i]
         /\ \A i \in DOMAIN log' : i \in DOMAIN log \/ i = Len(log) + 1
         /\ Len(log) + 1 \in DOMAIN log' /\ log'[Len(log) + 1].record = r
         /\ \A call : RecordsOf(call)' = IF r.call = call THEN RecordsOf(call) \cup {Len(log) + 1} ELSE RecordsOf(call)
<1> DEFINE e == [record |-> r, prev |-> head, hash |-> <<head, r>>]
<1>1. log' = Append(log, e) /\ IsSeq(log) /\ e.record = r
  BY DEF Record, ShapeInv
<1> HIDE DEF e
<1>2. /\ Len(log) \in Nat /\ DOMAIN log = 1 .. Len(log) /\ DOMAIN log' = 1 .. Len(log) + 1
      /\ \A i \in DOMAIN log : i \in DOMAIN log' /\ i < Len(log) + 1 /\ log'[i] = log[i]
      /\ \A i \in DOMAIN log' : i \in DOMAIN log \/ i = Len(log) + 1
      /\ log'[Len(log) + 1] = e
  BY <1>1, Joined
<1>3. Len(log) + 1 \in DOMAIN log'
  BY <1>2
<1>4. \A call : RecordsOf(call)' = IF r.call = call THEN RecordsOf(call) \cup {Len(log) + 1} ELSE RecordsOf(call)
  BY <1>1, <1>2, <1>3 DEF RecordsOf
<1> QED BY <1>1, <1>2, <1>3, <1>4

\* It is of known calls that the log speaks, and what it said of others than
\* the one recorded now still holds, unless the loop has turned to another.
LEMMA LogOthers ==
  ASSUME ShapeInv, LogInv, requests' \in {requests, requests + 1}, NEW r, Record(r), Known(r.call)'
  PROVE  /\ \A i \in DOMAIN log' : Known(log[i].record.call)'
         /\ \A call : call # r.call /\ Attested(call) => Attested(call)'
         /\ \A i \in DOMAIN log : \A call : Paired(i, call) /\ call # r.call /\ (loop.pc = "calling" /\ loop.req = call => loop' = loop)
              => Paired(i, call)'
<1>1. \A c : Known(c) => c.n \in Nat /\ c.n < requests'
  BY Later DEF ShapeInv
<1>2. \A i \in DOMAIN log' : Known(log[i].record.call)'
  BY <1>1, Recorded DEF LogInv, Known
<1>3. ASSUME NEW call, call # r.call PROVE RecordsOf(call)' = RecordsOf(call)
  BY <1>3, Recorded
<1>4. ASSUME NEW call, call # r.call, Attested(call) PROVE Attested(call)'
  BY <1>3, <1>4, Recorded DEF Attested
<1>5. ASSUME NEW i \in DOMAIN log, NEW call, Paired(i, call), call # r.call, loop.pc = "calling" /\ loop.req = call => loop' = loop
      PROVE  Paired(i, call)'
  <2>1. RecordsOf(call)' = RecordsOf(call)
    BY <1>3, <1>5
  <2>2. call.kind = "call"
    BY <1>5 DEF Paired
  <2>3. CASE RecordsOf(call) = {i} /\ loop.pc = "calling" /\ loop.req = call
    BY <1>5, <2>1, <2>2, <2>3 DEF Paired
  <2> DEFINE After(j) == RecordsOf(call) = {i, j} /\ i < j /\ log[j].record.type = "outcome"
  <2>4. ASSUME NEW j \in DOMAIN log, After(j) PROVE Paired(i, call)'
    <3>1. j \in DOMAIN log' /\ log'[j] = log[j]
      BY Recorded
    <3> QED BY <2>1, <2>2, <2>4, <3>1 DEF Paired
  <2>5. (RecordsOf(call) = {i} /\ loop.pc = "calling" /\ loop.req = call) \/ \E j \in DOMAIN log : After(j)
    BY <1>5 DEF Paired
  <2> HIDE DEF After
  <2> QED BY <2>3, <2>4, <2>5
<1> QED BY <1>2, <1>4, <1>5

\* The outcome of a call that was never attested to.
LEMMA LogBeside ==
  ASSUME ShapeInv, LogInv, requests' \in {requests, requests + 1}, NEW req, NEW ok, Record(Outcome(req, ok)),
         Known(req)', req.kind # "call" \/ req.n = requests, Pending \/ Pending' => loop' = loop,
         loop.pc = "calling" => Known(loop.req)
  PROVE  LogInv'
<1> DEFINE r == Outcome(req, ok)
<1>1. r.call = req /\ r.type = "outcome"
  BY DEF Outcome
<1>2. Record(r)
  OBVIOUS
<1> HIDE DEF r
<1>3. Known(r.call)'
  BY <1>1 DEF Known
<1>4. \A i \in DOMAIN log' : Known(log[i].record.call)'
  BY <1>2, <1>3, LogOthers
<1>5. loop'.pc = "calling" /\ loop'.req.kind = "call" => Attested(loop.req)'
  <2>1. SUFFICES ASSUME Pending' PROVE Attested(loop.req)'
    BY DEF Pending
  <2>2. PICK call : call = loop.req
    OBVIOUS
  <2>3. Attested(call) /\ loop' = loop /\ call # req
    BY <2>1, <2>2 DEF Pending, LogInv, Known, ShapeInv
  <2>4. Attested(call)'
    BY <1>1, <1>2, <1>3, <2>3, LogOthers
  <2> QED BY <2>2, <2>3, <2>4
<1>6. ASSUME NEW i \in DOMAIN log', log'[i].record.type = "attestation" PROVE Paired(i, log[i].record.call)'
  <2>1. i \in DOMAIN log /\ log'[i] = log[i]
    BY <1>1, <1>2, <1>6, Recorded
  <2>2. PICK call : call = log[i].record.call
    OBVIOUS
  <2>3. Paired(i, call) /\ call # req
    <3>1. Paired(i, call) /\ Known(call)
      BY <1>6, <2>1, <2>2 DEF LogInv
    <3> QED BY <3>1 DEF Paired, Known, ShapeInv
  <2>4. loop.pc = "calling" /\ loop.req = call => loop' = loop
    BY <2>3 DEF Pending, Paired
  <2>5. Paired(i, call)'
    BY <1>1, <1>2, <1>3, <2>1, <2>3, <2>4, LogOthers
  <2> QED BY <2>1, <2>2, <2>5
<1> QED BY <1>4, <1>5, <1>6 DEF LogInv

\* The attestation of a call that the loop begins.
LEMMA LogAttest ==
  ASSUME ShapeInv, LogInv, requests' = requests + 1, NEW req, Record(Attestation(req)), req.n = requests, req.kind = "call",
         loop.pc = "reading", loop'.pc = "calling", loop'.req = req
  PROVE  LogInv'
<1> DEFINE r == Attestation(req)
           n == Len(log) + 1
<1>1. r.call = req /\ r.type = "attestation"
  BY DEF Attestation
<1>2. Record(r)
  OBVIOUS
<1> HIDE DEF r
<1>3. Known(r.call)'
  BY <1>1 DEF Known, ShapeInv
<1>4. \A i \in DOMAIN log' : Known(log[i].record.call)'
  BY <1>2, <1>3, LogOthers
<1>5. \A i \in DOMAIN log : log[i].record.call # req
  BY DEF LogInv, Known, ShapeInv
<1>6. RecordsOf(req)' = {n}
  <2>1. RecordsOf(req) = {}
    BY <1>5 DEF RecordsOf
  <2> QED BY <1>1, <1>2, <2>1, Recorded
<1>7. log'[n].record = r /\ n \in DOMAIN log'
  BY <1>2, Recorded
<1>8. Attested(loop.req)'
  <2>1. Attested(req)'
    BY <1>1, <1>6, <1>7 DEF Attested
  <2> QED BY <2>1
<1>9. ASSUME NEW i \in DOMAIN log', log'[i].record.type = "attestation" PROVE Paired(i, log[i].record.call)'
  <2>1. CASE i \in DOMAIN log
    <3>1. log'[i] = log[i]
      BY <1>2, <2>1, Recorded
    <3>2. PICK call : call = log[i].record.call
      OBVIOUS
    <3>3. Paired(i, call) /\ call # req
      BY <1>5, <1>9, <2>1, <3>1, <3>2 DEF LogInv
    <3>4. Paired(i, call)'
      BY <1>1, <1>2, <1>3, <2>1, <3>3, LogOthers
    <3> QED BY <3>1, <3>2, <3>4
  <2>2. CASE i = n
    <3>1. PICK k : k = n
      OBVIOUS
    <3>2. Paired(k, req)'
      BY <1>6, <3>1 DEF Paired
    <3>3. log'[i].record.call = req /\ i = k
      BY <1>1, <1>7, <2>2, <3>1
    <3> QED BY <3>2, <3>3
  <2> QED BY <1>2, <1>9, <2>1, <2>2, Recorded
<1> QED BY <1>4, <1>8, <1>9 DEF LogInv

\* The outcome of the call under way, which the loop is done with.
LEMMA LogOutcome ==
  ASSUME ShapeInv, LogInv, requests' = requests, NEW ok, Record(Outcome(loop.req, ok)), Pending, Known(loop.req),
         loop'.pc # "calling"
  PROVE  LogInv'
<1> DEFINE n == Len(log) + 1
<1>0. PICK req : req = loop.req
  OBVIOUS
<1>1. PICK r : r = Outcome(req, ok)
  OBVIOUS
<1>2. r.call = req /\ r.type = "outcome"
  BY <1>1 DEF Outcome
<1>3. Record(r) /\ Known(r.call)'
  BY <1>0, <1>1, <1>2 DEF Known
<1>4. \A i \in DOMAIN log' : Known(log[i].record.call)'
  BY <1>3, LogOthers
<1>5. ASSUME NEW i \in DOMAIN log', log'[i].record.type = "attestation" PROVE Paired(i, log[i].record.call)'
  <2>1. i \in DOMAIN log /\ log'[i] = log[i] /\ i < n
    BY <1>2, <1>3, <1>5, Recorded
  <2>2. PICK call : call = log[i].record.call
    OBVIOUS
  <2>3. Paired(i, call)
    BY <1>5, <2>1, <2>2 DEF LogInv
  <2>4. CASE call # req
    <3>1. Paired(i, call)'
      BY <1>0, <1>2, <1>3, <2>1, <2>3, <2>4, LogOthers
    <3> QED BY <2>1, <2>2, <3>1
  <2>5. CASE call = req
    <3>1. PICK a \in DOMAIN log : log[a].record.type = "attestation" /\ RecordsOf(req) = {a}
      BY <1>0 DEF LogInv, Attested, Pending
    <3>2. i = a
      BY <2>1, <2>2, <2>5, <3>1 DEF RecordsOf
    <3>3. PICK k : k = n
      OBVIOUS
    <3>4. RecordsOf(req)' = {i, k} /\ k \in DOMAIN log' /\ log'[k].record = r /\ i < k
      BY <1>2, <1>3, <2>1, <3>1, <3>2, <3>3, Recorded
    <3>5. Paired(i, req)'
      BY <1>2, <2>3, <2>5, <3>4 DEF Paired
    <3> QED BY <2>1, <2>2, <2>5, <3>5
  <2> QED BY <2>4, <2>5
<1> QED BY <1>4, <1>5 DEF LogInv

LEMMA LogHolds ==
  ASSUME ShapeInv, LoopInv, RouteInv, LogInv, Resilient, Next
  PROVE  LogInv'
<1>0. requests \in Nat /\ (loop.pc = "calling" => Known(loop.req))
  BY DEF ShapeInv, LoopInv
<1>1. ASSUME NEW m, Answer(m) PROVE loop'.pc = "writing"
  BY <1>1 DEF Answer, Idle
<1>2. ASSUME NEW b \in Backends, NEW a \in Arguments, CallBlocked(b, a)
      PROVE  LogInv'
  <2>1. PICK req : req = [n |-> requests, kind |-> "call", of |-> Request(b, a)]
    OBVIOUS
  <2>2. /\ loop.pc = "reading" /\ requests' = requests + 1 /\ Record(Outcome(req, FALSE)) /\ Answer(Error(req))
    BY <1>2, <2>1 DEF CallBlocked, Counted
  <2>3. req.n = requests /\ Known(req)' /\ ~Pending /\ ~Pending'
    BY <1>0, <1>1, <2>1, <2>2 DEF Known, Pending
  <2> QED BY <1>0, <2>2, <2>3, LogBeside
<1>3. ASSUME NEW b \in Backends, NEW a \in Arguments, CallForwarded(b, a)
      PROVE  LogInv'
  <2>1. PICK req : req = [n |-> requests, kind |-> "call", of |-> Request(b, a)]
    OBVIOUS
  <2>2. /\ loop.pc = "reading" /\ requests' = requests + 1 /\ Record(Attestation(req))
        /\ loop' = [pc |-> "calling", req |-> req, to |-> b]
    BY <1>3, <2>1 DEF CallForwarded, Counted, Forward
  <2>3. req.n = requests /\ req.kind = "call" /\ loop'.pc = "calling" /\ loop'.req = req
    BY <2>1, <2>2
  <2> QED BY <2>2, <2>3, LogAttest
<1>4. ASSUME NEW b \in Backends, NEW a \in Arguments, CallRefused(b, a)
      PROVE  LogInv'
  <2>1. loop.pc = "reading" /\ requests' = requests + 1 /\ log' = log /\ \E m : Answer(m)
    BY <1>4 DEF CallRefused, Counted, Refuse
  <2>2. ~Pending /\ ~Pending'
    BY <1>1, <2>1 DEF Pending
  <2> QED BY <2>1, <2>2, LogQuiet
<1>5. ASSUME NEW h \in Handlers, NEW a \in Arguments, LocalCall(h, a)
      PROVE  LogInv'
  <2>1. PICK req : req = [n |-> requests, kind |-> "local", of |-> Request(h, a)]
    OBVIOUS
  <2>2. /\ loop.pc = "reading" /\ requests' = requests + 1
        /\ log' = log \/ Record(Outcome(req, FALSE))
        /\ Answer(Error(req)) \/ loop' = [pc |-> "calling", req |-> req, to |-> h]
    BY <1>5, <2>1 DEF LocalCall, LocalBlocked, LocalRejected, Counted
  <2>3. req.n = requests /\ req.kind = "local" /\ Known(req)'
    BY <1>0, <2>1, <2>2 DEF Known
  <2>4. ~Pending /\ ~Pending'
    BY <1>1, <2>2, <2>3 DEF Pending
  <2> QED BY <1>0, <2>2, <2>3, <2>4, LogQuiet, LogBeside
<1>6. ASSUME NEW h \in Handlers, NEW a \in Arguments, Spawn(h, a)
      PROVE  LogInv'
  <2>1. UNCHANGED <<loop, log>> /\ requests' = requests + 1
    BY <1>6 DEF Spawn, Counted
  <2> QED BY <2>1, LogQuiet
<1>7. ASSUME NEW id, RouteTask(id)
      PROVE  LogInv'
  <2>1. /\ loop.pc = "reading" /\ requests' = requests + 1 /\ log' = log
        /\ \/ \E m : Answer(m)
           \/ loop' = [pc |-> "calling", req |-> [n |-> requests, kind |-> "task", of |-> id], to |-> split(id)[1]]
    BY <1>7 DEF RouteTask, Counted, Refuse, Forward
  <2>2. ~Pending /\ ~Pending'
    BY <1>1, <2>1 DEF Pending
  <2> QED BY <2>1, <2>2, LogQuiet
<1>8. ASSUME NEW kind \in {"subscribe", "unsubscribe"}, NEW u \in Uris, NEW b \in Backends, RouteSubscription(kind, b, u)
      PROVE  LogInv'
  <2>1. /\ loop.pc = "reading" /\ requests' = requests + 1 /\ log' = log
        /\ \/ \E m : Answer(m)
           \/ loop' = [pc |-> "calling", req |-> [n |-> requests, kind |-> kind, of |-> <<b, u>>], to |-> b]
    BY <1>8 DEF RouteSubscription, Counted, Refuse, Forward
  <2>2. ~Pending /\ ~Pending'
    BY <1>1, <2>1 DEF Pending
  <2> QED BY <2>1, <2>2, LogQuiet
<1>9. ASSUME NEW kind, NEW u \in Uris, LocalSubscription(kind, u)
      PROVE  LogInv'
  <2>1. loop.pc = "reading" /\ requests' = requests + 1 /\ log' = log /\ \E m : Answer(m)
    BY <1>9 DEF LocalSubscription, Counted
  <2>2. ~Pending /\ ~Pending'
    BY <1>1, <2>1 DEF Pending
  <2> QED BY <2>1, <2>2, LogQuiet
<1>10. ASSUME requests' = requests, loop.pc = "calling", NEW ok, RecordOutcome(loop.req, ok), \E m : Answer(m)
       PROVE  LogInv'
  <2>1. ~Pending' /\ loop'.pc # "calling"
    BY <1>1, <1>10 DEF Pending
  <2>2. CASE loop.req.kind = "call"
    <3>1. Record(Outcome(loop.req, ok)) /\ Pending
      BY <1>10, <2>2 DEF RecordOutcome, Pending
    <3> QED BY <1>0, <1>10, <2>1, <3>1, LogOutcome
  <2>3. CASE loop.req.kind # "call"
    <3>1. log' = log /\ ~Pending
      BY <1>10, <2>3 DEF RecordOutcome, Pending
    <3> QED BY <1>10, <2>1, <3>1, LogQuiet
  <2> QED BY <2>2, <2>3
<1>11. ASSUME CallRaises
       PROVE  LogInv'
  <2>1. requests' = requests /\ loop.pc = "calling" /\ RecordOutcome(loop.req, FALSE) /\ \E m : Answer(m)
    BY <1>11 DEF CallRaises
  <2> QED BY <1>10, <2>1
<1>12. ASSUME NEW req \in spawned, PooledStarts(req)
       PROVE  LogInv'
  <2>1. UNCHANGED <<requests, loop>> /\ (log' = log \/ Record(Outcome(req, FALSE)))
    BY <1>12 DEF PooledStarts, LocalBlocked, LocalRejected
  <2>2. req.kind = "pooled" /\ Known(req) /\ Known(req)'
    BY <2>1 DEF LoopInv, Known
  <2> QED BY <1>0, <2>1, <2>2, LogQuiet, LogBeside
<1>13. ASSUME NEW req \in work, HandlerRaises(req) \/ \E fits \in BOOLEAN : HandlerReturns(req, fits)
       PROVE  LogInv'
  <2>1. /\ UNCHANGED <<requests, log>>
        /\ req.kind = "local" => loop'.pc # "calling"
        /\ req.kind # "local" => loop' = loop
    BY <1>1, <1>13 DEF HandlerRaises, HandlerReturns, Idle
  <2>2. req.kind = "local" => ~Pending
    BY DEF LoopInv, Pending
  <2>3. Pending \/ Pending' => loop' = loop
    BY <2>1, <2>2 DEF Pending
  <2> QED BY <2>1, <2>3, LogQuiet
<1>14. ASSUME (\E u \in Uris : Publish(u)) \/ \E b \in Backends : RelayUpdate(b) \/ SinkUpdate(b) \/ \E u \in Uris : BackendUpdates(b, u)
       PROVE  LogInv'
  <2>1. UNCHANGED <<requests, loop, log>>
    BY <1>14 DEF Publish, RelayUpdate, SinkUpdate, BackendUpdates
  <2> QED BY <2>1, LogQuiet
<1>15. ASSUME NEW b, NEW ok, NEW t, BackendAnswers(b, ok, t)
       PROVE  LogInv'
  <2>1. UNCHANGED <<requests, loop, log>>
    BY <1>15 DEF BackendAnswers
  <2> QED BY <2>1, LogQuiet
<1>16. ASSUME NEW b \in Backends, ReadAnswer(b)
       PROVE  LogInv'
  <2>1. /\ requests' = requests
        /\ \/ UNCHANGED <<loop, log>>
           \/ loop.pc = "calling" /\ (\E m : Answer(m)) /\ \E ok : RecordOutcome(loop.req, ok)
    BY <1>16 DEF ReadAnswer, Returned
  <2> QED BY <1>10, <2>1, LogQuiet
<1>17. CASE Write
  <2>1. UNCHANGED <<requests, log>> /\ (loop' = loop \/ (loop.pc = "writing" /\ loop' = Idle))
    BY <1>17, Writing DEF Write, Base
  <2>2. Pending \/ Pending' => loop' = loop
    BY <2>1 DEF Pending, Idle
  <2> QED BY <2>1, <2>2, LogQuiet
<1> QED BY <1>2, <1>3, <1>4, <1>5, <1>6, <1>7, <1>8, <1>9, <1>11, <1>12, <1>13, <1>14, <1>15, <1>16, <1>17
        DEF Next, LoopStep

LEMMA LogPairs ==
  ASSUME ShapeInv, LogInv
  PROVE  AttestationsPaired
<1>1. DOMAIN log = 1 .. Len(log)
  BY DEF ShapeInv, IsSeq
<1>2. ASSUME NEW i \in 1 .. Len(log), log[i].record.type = "attestation"
      PROVE  LET same == {j \in 1 .. Len(log) : log[j].record.call = log[i].record.call} \ {i}
             IN  IF same = {} THEN loop.pc = "calling" /\ loop.req = log[i].record.call
                 ELSE \E j \in same : same = {j} /\ j > i /\ log[j].record.type = "outcome"
  <2> DEFINE call == log[i].record.call
             same == {j \in 1 .. Len(log) : log[j].record.call = call} \ {i}
  <2>1. Paired(i, call) /\ same = RecordsOf(call) \ {i}
    BY <1>1, <1>2 DEF LogInv, RecordsOf
  <2>2. CASE RecordsOf(call) = {i} /\ loop.pc = "calling" /\ loop.req = call
    BY <2>1, <2>2
  <2> DEFINE After(j) == RecordsOf(call) = {i, j} /\ i < j /\ log[j].record.type = "outcome"
  <2>3. ASSUME NEW j \in DOMAIN log, After(j)
        PROVE  j \in same /\ same = {j} /\ j > i /\ log[j].record.type = "outcome"
    BY <1>1, <2>1, <2>3
  <2>4. (RecordsOf(call) = {i} /\ loop.pc = "calling" /\ loop.req = call) \/ \E j \in DOMAIN log : After(j)
    BY <2>1 DEF Paired
  <2>5. ASSUME \E j \in DOMAIN log : After(j)
        PROVE  same # {} /\ \E j \in same : same = {j} /\ j > i /\ log[j].record.type = "outcome"
    <3> HIDE DEF After, same
    <3> QED BY <2>3, <2>5
  <2> HIDE DEF After
  <2> QED BY <2>2, <2>4, <2>5
<1> QED BY <1>2 DEF AttestationsPaired

-----------------------------------------------------------------------------
\* Whose turn it is: the request under way and its answer.
LEMMA TurnEnds ==
  ASSUME loop'.pc # "calling"
  PROVE  TurnInv'
BY DEF TurnInv, Awaited

LEMMA TurnSame ==
  ASSUME TurnInv, UNCHANGED <<loop, toBack, fromBack, remote>>
  PROVE  TurnInv'
BY DEF TurnInv, Awaited, Ends

\* What the queues hold is of earlier requests.
LEMMA TurnEarlier ==
  ASSUME RouteInv, ShapeInv
  PROVE  /\ \A b \in Backends : \A i \in DOMAIN toBack[b] : toBack[b][i].req.n # requests
         /\ \A b \in Backends : \A i \in DOMAIN fromBack[b] :
              fromBack[b][i].kind = "answer" => fromBack[b][i].req.n # requests
<1>1. \A r : Known(r) => r.n # requests
  BY DEF Known, ShapeInv
<1>2. ASSUME NEW b \in Backends, NEW i \in DOMAIN toBack[b] PROVE Known(toBack[b][i].req)
  BY <1>2 DEF RouteInv, Asks, Elems
<1>3. ASSUME NEW b \in Backends, NEW i \in DOMAIN fromBack[b], fromBack[b][i].kind = "answer" PROVE Known(fromBack[b][i].req)
  BY <1>3 DEF RouteInv, Answers, Elems
<1> QED BY <1>1, <1>2, <1>3

LEMMA TurnBegins ==
  ASSUME RouteInv, ShapeInv, loop'.req.n = requests, UNCHANGED fromBack,
         toBack' = toBack \/ Sends(toBack, toBack')
  PROVE  TurnInv'
<1>1. \A b \in Backends : \A i \in DOMAIN fromBack'[b] : ~Awaited(fromBack[b][i])'
  BY TurnEarlier DEF Awaited
<1>2. ASSUME NEW b \in Backends, NEW i \in DOMAIN toBack'[b], toBack'[b][i].req = loop'.req PROVE i = Len(toBack'[b])
  <2>1. CASE toBack' = toBack
    BY <1>2, <2>1, TurnEarlier
  <2>2. ASSUME NEW d \in Backends, NEW x, toBack' = [toBack EXCEPT ![d] = Append(toBack[d], x)] PROVE i = Len(toBack'[b])
    <3>1. Queues(toBack) /\ \A c \in Backends : toBack'[c] = IF c = d THEN Append(toBack[d], x) ELSE toBack[c]
      BY <2>2 DEF ShapeInv, Queues
    <3>2. CASE b # d
      BY <1>2, <3>1, <3>2, TurnEarlier
    <3>3. CASE b = d
      <4>1. IsSeq(toBack[d]) /\ toBack'[b] = Append(toBack[d], x)
        BY <3>1, <3>3 DEF Queues
      <4>2. CASE i \in DOMAIN toBack[d]
        BY <1>2, <4>1, <4>2, Joined, TurnEarlier
      <4>3. CASE i \notin DOMAIN toBack[d]
        BY <4>1, <4>3, Joined
      <4> QED BY <4>2, <4>3
    <3> QED BY <3>2, <3>3
  <2> QED BY <2>1, <2>2 DEF Sends
<1> QED BY <1>1, <1>2 DEF TurnInv

\* The read loop of a backend takes a message that nobody waits for.
LEMMA TurnTaken ==
  ASSUME ShapeInv, TurnInv, UNCHANGED <<loop, toBack, remote>>, NEW b \in Backends, fromBack[b] # << >>,
         fromBack' = [fromBack EXCEPT ![b] = Tail(fromBack[b])]
  PROVE  TurnInv'
<1>1. Queues(fromBack) /\ \A d \in Backends : fromBack'[d] = IF d = b THEN Tail(fromBack[b]) ELSE fromBack[d]
  BY DEF ShapeInv, Queues
<1>2. \A m : Awaited(m)' <=> Awaited(m)
  BY DEF Awaited
<1>3. ASSUME NEW d \in Backends, NEW i \in DOMAIN fromBack'[d], Awaited(fromBack[d][i])'
      PROVE  /\ toBack'[d] = << >>
             /\ \A u \in Uris : Ends(fromBack'[d][i], d, u) =>
                  /\ u \notin remote'[d]
                  /\ \A j \in DOMAIN fromBack'[d] : i < j => ~(fromBack'[d][j].kind = "updated" /\ fromBack'[d][j].uri = u)
  <2>1. CASE d # b
    <3>1. fromBack'[d] = fromBack[d]
      BY <1>1, <2>1
    <3>2. i \in DOMAIN fromBack[d] /\ Awaited(fromBack[d][i])
      BY <1>3, <3>1 DEF Awaited
    <3>3. /\ toBack[d] = << >>
          /\ \A u \in Uris : Ends(fromBack[d][i], d, u) =>
                /\ u \notin remote[d]
                /\ \A j \in DOMAIN fromBack[d] : i < j => ~(fromBack[d][j].kind = "updated" /\ fromBack[d][j].uri = u)
      BY <3>2 DEF TurnInv
    <3> QED BY <3>1, <3>3
  <2>2. CASE d = b
    <3>1. IsSeq(fromBack[d]) /\ fromBack'[d] = Tail(fromBack[d]) /\ fromBack[d] # << >>
      BY <1>1, <2>2 DEF Queues
    <3>2. \A k \in DOMAIN fromBack'[d] : k + 1 \in DOMAIN fromBack[d] /\ fromBack'[d][k] = fromBack[d][k + 1] /\ k \in Nat
      <4>1. \A k \in DOMAIN Tail(fromBack[d]) :
               k + 1 \in DOMAIN fromBack[d] /\ Tail(fromBack[d])[k] = fromBack[d][k + 1] /\ k \in Nat
        BY <3>1, Shifted
      <4> QED BY <3>1, <4>1
    <3>3. Awaited(fromBack[d][i + 1])
      BY <1>3, <3>2 DEF Awaited
    <3>4. /\ toBack[d] = << >>
          /\ \A u \in Uris : Ends(fromBack[d][i + 1], d, u) =>
               /\ u \notin remote[d]
               /\ \A j \in DOMAIN fromBack[d] : i + 1 < j => ~(fromBack[d][j].kind = "updated" /\ fromBack[d][j].uri = u)
      BY <3>2, <3>3 DEF TurnInv
    <3>5. \A j \in DOMAIN fromBack'[d] : i < j => i + 1 < j + 1
      BY <3>2
    <3> QED BY <3>2, <3>4, <3>5
  <2> QED BY <2>1, <2>2
<1>4. \A d \in Backends : \A i \in DOMAIN toBack'[d] :
        loop'.pc = "calling" /\ toBack'[d][i].req = loop'.req => i = Len(toBack'[d])
  BY DEF TurnInv
<1> QED BY <1>3, <1>4 DEF TurnInv, Ends

LEMMA TurnUpdates ==
  ASSUME ShapeInv, TurnInv, NEW b \in Backends, NEW v \in Uris, BackendUpdates(b, v)
  PROVE  TurnInv'
<1>1. PICK x : x = [kind |-> "updated", uri |-> v]
  OBVIOUS
<1>2. UNCHANGED <<loop, toBack, remote>> /\ v \in remote[b] /\ x.kind = "updated" /\ x.uri = v
      /\ fromBack' = [fromBack EXCEPT ![b] = Append(fromBack[b], x)]
  BY <1>1 DEF BackendUpdates
<1>3. Queues(fromBack) /\ \A d \in Backends : fromBack'[d] = IF d = b THEN Append(fromBack[b], x) ELSE fromBack[d]
  BY <1>2 DEF ShapeInv, Queues
<1>4. ASSUME NEW d \in Backends, NEW i \in DOMAIN fromBack'[d], Awaited(fromBack[d][i])'
      PROVE  /\ toBack'[d] = << >>
             /\ \A u \in Uris : Ends(fromBack'[d][i], d, u) =>
                  /\ u \notin remote'[d]
                  /\ \A j \in DOMAIN fromBack'[d] : i < j => ~(fromBack'[d][j].kind = "updated" /\ fromBack'[d][j].uri = u)
  <2>1. CASE d # b
    <3>1. fromBack'[d] = fromBack[d]
      BY <1>3, <2>1
    <3>2. i \in DOMAIN fromBack[d] /\ Awaited(fromBack[d][i])
      BY <1>2, <1>4, <3>1 DEF Awaited
    <3> QED BY <1>2, <3>1, <3>2 DEF TurnInv
  <2>2. CASE d = b
    <3>1. IsSeq(fromBack[d]) /\ fromBack'[d] = Append(fromBack[d], x)
      BY <1>3, <2>2 DEF Queues
    <3>2. /\ \A k \in DOMAIN fromBack[d] : fromBack'[d][k] = fromBack[d][k]
          /\ \A k \in DOMAIN fromBack'[d] : k \in DOMAIN fromBack[d] \/ fromBack'[d][k] = x
      BY <3>1, Joined
    <3>3. i \in DOMAIN fromBack[d] /\ Awaited(fromBack[d][i]) /\ fromBack'[d][i] = fromBack[d][i]
      BY <1>2, <1>4, <3>2 DEF Awaited
    <3>4. /\ toBack[d] = << >>
          /\ \A u \in Uris : Ends(fromBack[d][i], d, u) =>
               /\ u \notin remote[d]
               /\ \A j \in DOMAIN fromBack[d] : i < j => ~(fromBack[d][j].kind = "updated" /\ fromBack[d][j].uri = u)
      BY <3>3 DEF TurnInv
    <3> QED BY <1>2, <2>2, <3>2, <3>3, <3>4
  <2> QED BY <2>1, <2>2
<1>5. \A d \in Backends : \A i \in DOMAIN toBack'[d] :
        loop'.pc = "calling" /\ toBack'[d][i].req = loop'.req => i = Len(toBack'[d])
  BY <1>2 DEF TurnInv
<1> QED BY <1>4, <1>5 DEF TurnInv, Ends

LEMMA TurnAnswers ==
  ASSUME TypeOK, ShapeInv, RouteInv, TurnInv, NEW b \in Backends, NEW ok \in BOOLEAN, NEW t, BackendAnswers(b, ok, t)
  PROVE  TurnInv'
<1>1. PICK m : m = Head(toBack[b])
  OBVIOUS
<1>2. PICK x : x = [kind |-> "answer", req |-> m.req, ok |-> ok,
                    task |-> IF m.req.kind = "task" THEN m.original ELSE IF m.req.kind = "call" THEN t ELSE None]
  OBVIOUS
<1>3. /\ UNCHANGED loop /\ toBack[b] # << >> /\ x.kind = "answer" /\ x.req = m.req /\ x.ok = ok
      /\ toBack' = [toBack EXCEPT ![b] = Tail(toBack[b])]
      /\ fromBack' = [fromBack EXCEPT ![b] = Append(fromBack[b], x)]
  BY <1>1, <1>2 DEF BackendAnswers
<1>4. /\ \A d \in Backends : d # b => remote'[d] = remote[d]
      /\ ok /\ m.req.kind = "unsubscribe" => m.original \notin remote'[b]
  BY <1>1 DEF BackendAnswers, TypeOK
<1>5. Queues(fromBack) /\ \A d \in Backends : fromBack'[d] = IF d = b THEN Append(fromBack[b], x) ELSE fromBack[d]
  BY <1>3 DEF ShapeInv, Queues
<1>6. Queues(toBack) /\ \A d \in Backends : toBack'[d] = IF d = b THEN Tail(toBack[b]) ELSE toBack[d]
  BY <1>3 DEF ShapeInv, Queues
<1>7. IsSeq(toBack[b]) /\ IsSeq(fromBack[b])
  BY <1>5, <1>6 DEF Queues
<1>8. m = toBack[b][1] /\ m \in Elems(toBack[b]) /\ 1 \in DOMAIN toBack[b] /\ Len(toBack[b]) \in Nat
      /\ IsSeq(Tail(toBack[b])) /\ Len(Tail(toBack[b])) = Len(toBack[b]) - 1
      /\ \A i \in DOMAIN Tail(toBack[b]) : i + 1 \in DOMAIN toBack[b] /\ Tail(toBack[b])[i] = toBack[b][i + 1] /\ i \in Nat
  BY <1>1, <1>3, <1>7, Shifted
<1>9. ASSUME NEW d \in Backends, NEW i \in DOMAIN toBack'[d], loop'.pc = "calling", toBack'[d][i].req = loop'.req
      PROVE  i = Len(toBack'[d])
  <2>1. CASE d # b
    BY <1>3, <1>6, <1>9, <2>1 DEF TurnInv
  <2>2. CASE d = b
    <3>1. toBack'[d] = Tail(toBack[b])
      BY <1>6, <2>2
    <3>2. i + 1 \in DOMAIN toBack[b] /\ toBack[b][i + 1].req = loop.req /\ i \in Nat
      BY <1>3, <1>8, <1>9, <3>1
    <3>3. i + 1 = Len(toBack[b])
      BY <1>3, <1>9, <3>2 DEF TurnInv
    <3> QED BY <1>8, <3>1, <3>2, <3>3
  <2> QED BY <2>1, <2>2
<1>10. ASSUME NEW d \in Backends, NEW i \in DOMAIN fromBack'[d], Awaited(fromBack[d][i])'
       PROVE  /\ toBack'[d] = << >>
              /\ \A u \in Uris : Ends(fromBack'[d][i], d, u) =>
                   /\ u \notin remote'[d]
                   /\ \A j \in DOMAIN fromBack'[d] : i < j => ~(fromBack'[d][j].kind = "updated" /\ fromBack'[d][j].uri = u)
  <2>1. CASE d # b
    <3>1. fromBack'[d] = fromBack[d] /\ toBack'[d] = toBack[d] /\ remote'[d] = remote[d]
      BY <1>4, <1>5, <1>6, <2>1
    <3>2. i \in DOMAIN fromBack[d] /\ Awaited(fromBack[d][i])
      BY <1>3, <1>10, <3>1 DEF Awaited
    <3> QED BY <3>1, <3>2 DEF TurnInv
  <2>2. CASE d = b
    <3>1. fromBack'[d] = Append(fromBack[b], x)
      BY <1>5, <2>2
    <3>2. CASE i \in DOMAIN fromBack[b]
      <4>1. fromBack'[d][i] = fromBack[b][i]
        BY <1>7, <3>1, <3>2, Joined
      <4>2. Awaited(fromBack[b][i])
        BY <1>3, <1>10, <4>1 DEF Awaited
      <4>3. toBack[b] = << >>
        BY <3>2, <4>2 DEF TurnInv
      <4> QED BY <1>3, <4>3
    <3>3. CASE i = Len(fromBack[b]) + 1
      <4>1. fromBack'[d][i] = x /\ \A j \in DOMAIN fromBack'[d] : ~(i < j)
        <5>1. fromBack'[d][i] = x /\ Len(fromBack[b]) \in Nat /\ DOMAIN fromBack'[d] = 1 .. Len(fromBack[b]) + 1
          BY <1>7, <3>1, <3>3, Joined
        <5> QED BY <3>3, <5>1
      <4>2. loop.pc = "calling" /\ m.req = loop.req
        BY <1>3, <1>10, <4>1 DEF Awaited
      <4>3. 1 = Len(toBack[b])
        BY <1>8, <4>2 DEF TurnInv
      <4>4. toBack'[d] = << >>
        <5>1. Len(Tail(toBack[b])) = 0
          BY <1>8, <4>3
        <5> QED BY <1>6, <1>8, <2>2, <5>1, EmptySeq DEF IsSeq
      <4>5. ASSUME NEW u \in Uris, Ends(x, b, u) PROVE u \notin remote'[b]
        <5>1. ok /\ m.req.kind = "unsubscribe" /\ m.req.of = <<b, u>>
          BY <1>3, <4>5 DEF Ends
        <5>2. m.req.of = <<b, m.original>>
          BY <1>8, <5>1 DEF RouteInv, Asks
        <5>3. m.original = u
          BY <5>1, <5>2
        <5> QED BY <1>4, <5>1, <5>3
      <4> QED BY <2>2, <4>1, <4>4, <4>5
    <3>4. i \in DOMAIN fromBack[b] \/ i = Len(fromBack[b]) + 1
      BY <1>7, <1>10, <3>1, Joined
    <3> QED BY <3>2, <3>3, <3>4
  <2> QED BY <2>1, <2>2
<1> QED BY <1>9, <1>10 DEF TurnInv, Ends

LEMMA TurnHolds ==
  ASSUME TypeOK, ShapeInv, LoopInv, RouteInv, TurnInv, Next
  PROVE  TurnInv'
<1>1. ASSUME NEW m, Answer(m) PROVE loop'.pc # "calling"
  BY <1>1 DEF Answer, Idle
<1>2. ASSUME NEW b \in Backends, NEW a \in Arguments, CallBlocked(b, a) \/ CallRefused(b, a)
      PROVE  TurnInv'
  BY <1>1, <1>2, TurnEnds DEF CallBlocked, CallRefused, Refuse
<1>3. ASSUME NEW b \in Backends, NEW req, NEW original, NEW message, Forward(req, b, original, message),
             req.n = requests, UNCHANGED fromBack
      PROVE  TurnInv'
  <2>1. Sends(toBack, toBack') /\ loop'.req = req
    BY <1>3 DEF Forward, Sends
  <2> QED BY <1>3, <2>1, TurnBegins
<1>4. ASSUME NEW b \in Backends, NEW a \in Arguments, CallForwarded(b, a)
      PROVE  TurnInv'
  <2>1. PICK req : req = [n |-> requests, kind |-> "call", of |-> Request(b, a)]
    OBVIOUS
  <2>2. req.n = requests /\ UNCHANGED fromBack /\ Forward(req, b, None, run(chain, Request(b, a)).message)
    BY <1>4, <2>1 DEF CallForwarded
  <2> QED BY <1>3, <2>2
<1>5. ASSUME NEW h \in Handlers, NEW a \in Arguments, LocalCall(h, a)
      PROVE  TurnInv'
  <2>1. PICK req : req = [n |-> requests, kind |-> "local", of |-> Request(h, a)]
    OBVIOUS
  <2>2. /\ UNCHANGED <<toBack, fromBack>> /\ req.n = requests
        /\ Answer(Error(req)) \/ loop' = [pc |-> "calling", req |-> req, to |-> h]
    BY <1>5, <2>1 DEF LocalCall
  <2>3. Answer(Error(req)) => loop'.pc # "calling"
    BY <1>1
  <2> QED BY <2>2, <2>3, TurnEnds, TurnBegins
<1>6. ASSUME NEW h \in Handlers, NEW a \in Arguments, Spawn(h, a)
      PROVE  TurnInv'
  BY <1>6, TurnSame DEF Spawn
<1>7. ASSUME NEW id, RouteTask(id)
      PROVE  TurnInv'
  <2>1. PICK req : req = [n |-> requests, kind |-> "task", of |-> id]
    OBVIOUS
  <2>2. /\ UNCHANGED fromBack /\ req.n = requests
        /\ \/ \E m : Answer(m)
           \/ split(id)[1] \in Backends /\ Forward(req, split(id)[1], split(id)[2], None)
    BY <1>7, <2>1 DEF RouteTask, Refuse
  <2> QED BY <1>1, <1>3, <2>2, TurnEnds
<1>8. ASSUME NEW kind, NEW u, NEW b \in Backends, RouteSubscription(kind, b, u)
      PROVE  TurnInv'
  <2>1. PICK req : req = [n |-> requests, kind |-> kind, of |-> <<b, u>>]
    OBVIOUS
  <2>2. /\ UNCHANGED fromBack /\ req.n = requests
        /\ (\E m : Answer(m)) \/ Forward(req, b, u, None)
    BY <1>8, <2>1 DEF RouteSubscription, Refuse
  <2> QED BY <1>1, <1>3, <2>2, TurnEnds
<1>9. ASSUME NEW kind, NEW u, LocalSubscription(kind, u)
      PROVE  TurnInv'
  BY <1>1, <1>9, TurnEnds DEF LocalSubscription
<1>10. ASSUME CallRaises
       PROVE  TurnInv'
  BY <1>1, <1>10, TurnEnds DEF CallRaises, Idle
<1>11. ASSUME NEW req, PooledStarts(req)
       PROVE  TurnInv'
  BY <1>11, TurnSame DEF PooledStarts
<1>12. ASSUME NEW req, HandlerRaises(req) \/ \E fits \in BOOLEAN : HandlerReturns(req, fits)
       PROVE  TurnInv'
  <2>1. UNCHANGED <<toBack, fromBack, remote>> /\ (loop' = loop \/ loop'.pc # "calling")
    BY <1>1, <1>12 DEF HandlerRaises, HandlerReturns, Idle
  <2> QED BY <2>1, TurnSame, TurnEnds
<1>13. ASSUME NEW u, Publish(u)
       PROVE  TurnInv'
  BY <1>13, TurnSame DEF Publish
<1>14. ASSUME NEW b \in Backends, ReadAnswer(b)
       PROVE  TurnInv'
  <2>1. /\ UNCHANGED <<toBack, remote>> /\ fromBack[b] # << >> /\ fromBack' = [fromBack EXCEPT ![b] = Tail(fromBack[b])]
        /\ loop' = loop \/ \E m : Answer(m)
    BY <1>14 DEF ReadAnswer, Returned
  <2> QED BY <1>1, <2>1, TurnEnds, TurnTaken
<1>15. ASSUME NEW b \in Backends, RelayUpdate(b) \/ SinkUpdate(b)
       PROVE  TurnInv'
  BY <1>15, TurnTaken DEF RelayUpdate, SinkUpdate
<1>16. CASE Write
  <2>1. UNCHANGED <<toBack, fromBack, remote>> /\ (loop' = loop \/ loop'.pc # "calling")
    BY <1>16 DEF Write, Idle
  <2> QED BY <2>1, TurnSame, TurnEnds
<1>17. ASSUME NEW b \in Backends, NEW ok \in BOOLEAN, NEW t \in TaskIds \cup {None}, BackendAnswers(b, ok, t)
       PROVE  TurnInv'
  BY <1>17, TurnAnswers
<1>18. ASSUME NEW b \in Backends, NEW u \in Uris, BackendUpdates(b, u)
       PROVE  TurnInv'
  BY <1>18, TurnUpdates
<1> QED BY <1>2, <1>4, <1>5, <1>6, <1>7, <1>8, <1>9, <1>10, <1>11, <1>12, <1>13, <1>14, <1>15, <1>16, <1>17, <1>18
        DEF Next, LoopStep

-----------------------------------------------------------------------------
\* Who may still tell the client of updates.
Wants == LockInv /\ WantInv

\* A message, or none, joins the queue of the client lock.
LEMMA WantFrame ==
  ASSUME ShapeInv, LockInv, WantInv, expects \subseteq expects',
         \/ lock' = lock
         \/ \E m : /\ lock' = Append(lock, m)
                   /\ m.kind = "updated" => Wanted(m.body)
                   /\ \A u \in local' : ~Unsubscribed(m, <<None, u>>)
                   /\ \A b \in Backends : \A u \in Uris : Live(b, u)' => ~Unsubscribed(m, <<b, u>>),
         \A u \in local' : u \in local \/ (<<None, u>> \in expects' /\ \A m \in Elems(lock) : ~Unsubscribed(m, <<None, u>>)),
         \A b \in Backends : \A u \in Uris :
           Live(b, u)' => Live(b, u) \/ (<<b, u>> \in expects' /\ \A m \in Elems(lock) : ~Unsubscribed(m, <<b, u>>))
  PROVE  Wants'
<1>1. \A u \in local' : <<None, u>> \in expects' /\ \A m \in Elems(lock) : ~Unsubscribed(m, <<None, u>>)
  BY DEF WantInv, Wanted
<1>2. ASSUME NEW b \in Backends, NEW u \in Uris, Live(b, u)'
      PROVE  <<b, u>> \in expects' /\ \A m \in Elems(lock) : ~Unsubscribed(m, <<b, u>>)
  BY <1>2 DEF WantInv, Wanted
<1>3. CASE lock' = lock
  <2>1. \A b \in Backends : \A u \in Uris : Live(b, u)' => Wanted(<<b, u>>)'
    BY <1>2, <1>3 DEF Wanted
  <2>2. \A u \in local' : Wanted(<<None, u>>)'
    BY <1>1, <1>3 DEF Wanted
  <2>3. LockInv'
    BY <1>3 DEF LockInv, Elems, Unsubscribed
  <2> QED BY <2>1, <2>2, <2>3 DEF Wants, WantInv
<1>4. ASSUME NEW m, lock' = Append(lock, m), m.kind = "updated" => Wanted(m.body),
             \A u \in local' : ~Unsubscribed(m, <<None, u>>),
             \A b \in Backends : \A u \in Uris : Live(b, u)' => ~Unsubscribed(m, <<b, u>>)
      PROVE  Wants'
  <2>1. IsSeq(lock)
    BY DEF ShapeInv
  <2>2. Elems(lock') = Elems(lock) \union {m}
    BY <1>4, <2>1, Joined
  <2>3. \A b \in Backends : \A u \in Uris : Live(b, u)' => Wanted(<<b, u>>)'
    BY <1>2, <1>4, <2>2 DEF Wanted
  <2>4. \A u \in local' : Wanted(<<None, u>>)'
    BY <1>1, <1>4, <2>2 DEF Wanted
  <2>5. \A n \in Elems(lock') : n.kind = "updated" => n.body \in expects'
    BY <1>4, <2>2 DEF LockInv, Wanted
  <2>6. ASSUME NEW i \in DOMAIN lock', NEW j \in DOMAIN lock', i < j, lock'[j].kind = "updated"
        PROVE  ~Unsubscribed(lock'[i], lock'[j].body)
    <3> DEFINE n == Len(lock) + 1
    <3>1. /\ \A k \in DOMAIN lock : lock'[k] = lock[k] /\ k < n
          /\ lock'[n] = m /\ DOMAIN lock' = 1 .. n /\ n \in Nat
          /\ \A k \in DOMAIN lock' : k \in DOMAIN lock \/ k = n
      BY <1>4, <2>1, Joined
    <3> HIDE DEF n
    <3>2. i # n
      BY <2>6, <3>1
    <3>3. i \in DOMAIN lock /\ lock'[i] = lock[i] /\ lock[i] \in Elems(lock)
      BY <3>1, <3>2 DEF Elems
    <3>4. CASE j \in DOMAIN lock
      BY <2>6, <3>1, <3>3, <3>4 DEF LockInv
    <3>5. CASE j = n
      BY <1>4, <2>6, <3>1, <3>3, <3>5 DEF Wanted
    <3> QED BY <3>1, <3>4, <3>5
  <2>7. LockInv'
    BY <2>5, <2>6 DEF LockInv, Unsubscribed, Elems
  <2> QED BY <2>3, <2>4, <2>7 DEF Wants, WantInv
<1> QED BY <1>3, <1>4

\* The next message is written.
LEMMA WantWrite ==
  ASSUME ShapeInv, LockInv, WantInv, Write
  PROVE  Wants'
<1>1. PICK m : m = Head(lock)
  OBVIOUS
<1>2. /\ lock # << >> /\ lock' = Tail(lock) /\ UNCHANGED <<toBack, fromBack, remote, local>>
      /\ expects' = IF m.kind = "result" /\ m.req.kind = "unsubscribe" THEN expects \ {m.req.of} ELSE expects
  BY <1>1 DEF Write
<1>3. IsSeq(lock)
  BY DEF ShapeInv
<1>4. /\ m = lock[1] /\ m \in Elems(lock) /\ Elems(lock') \subseteq Elems(lock) /\ 1 \in DOMAIN lock
      /\ \A i \in DOMAIN lock' : i + 1 \in DOMAIN lock /\ lock'[i] = lock[i + 1] /\ i \in Nat /\ 1 < i + 1
  BY <1>1, <1>2, <1>3, Shifted
<1>5. \A x \in expects : ~Unsubscribed(m, x) => x \in expects'
  BY <1>2 DEF Unsubscribed
<1>6. ASSUME NEW x, Wanted(x) PROVE Wanted(x)'
  BY <1>4, <1>5, <1>6 DEF Wanted, Unsubscribed
<1>7. \A b, u : Live(b, u)' => Live(b, u)
  BY <1>2 DEF Live
<1>8. WantInv'
  BY <1>2, <1>6, <1>7 DEF WantInv
<1>9. ASSUME NEW n \in Elems(lock'), n.kind = "updated" PROVE n.body \in expects'
  <2>1. PICK i \in DOMAIN lock' : n = lock'[i]
    BY DEF Elems
  <2>2. i + 1 \in DOMAIN lock /\ 1 < i + 1 /\ n = lock[i + 1]
    BY <1>4, <2>1
  <2>3. ~Unsubscribed(m, n.body)
    BY <1>4, <1>9, <2>2 DEF LockInv
  <2>4. n.body \in expects
    BY <1>4, <1>9 DEF LockInv
  <2> QED BY <1>5, <2>3, <2>4
<1>10. ASSUME NEW i \in DOMAIN lock', NEW j \in DOMAIN lock', i < j, lock'[j].kind = "updated"
       PROVE  ~Unsubscribed(lock'[i], lock'[j].body)
  <2>1. i + 1 < j + 1
    BY <1>4, <1>10
  <2> QED BY <1>4, <1>10, <2>1 DEF LockInv
<1>11. LockInv'
  BY <1>9, <1>10 DEF LockInv, Unsubscribed, Elems
<1> QED BY <1>8, <1>11 DEF Wants

\* Nobody is told of the end of a subscription, and no backend gets livelier.
LEMMA WantQuiet ==
  ASSUME ShapeInv, LockInv, WantInv, expects' = expects, local' = local,
         \A b \in Backends : \A u \in Uris : Live(b, u)' => Live(b, u),
         lock' = lock \/ \E m : /\ lock' = Append(lock, m)
                                /\ m.kind = "updated" => Wanted(m.body)
                                /\ m.kind = "result" => m.req.kind # "unsubscribe"
  PROVE  Wants'
<1>1. \A m : (m.kind = "result" => m.req.kind # "unsubscribe") => \A x : ~Unsubscribed(m, x)
  BY DEF Unsubscribed
<1> QED BY <1>1, WantFrame

\* Of a live subscription: what each of the steps of the queues adds.
LEMMA LiveSame ==
  ASSUME UNCHANGED <<toBack, fromBack, remote>>, NEW b, NEW u, Live(b, u)'
  PROVE  Live(b, u)
BY DEF Live, Elems

LEMMA LiveAsked ==
  ASSUME ShapeInv, NEW req, NEW b \in Backends, NEW original, NEW message, Forward(req, b, original, message),
         UNCHANGED <<fromBack, remote>>, NEW d \in Backends, NEW u, Live(d, u)'
  PROVE  Live(d, u) \/ (req.kind = "subscribe" /\ d = b /\ u = original)
<1>1. PICK x : x = [req |-> req, original |-> original]
  OBVIOUS
<1>2. toBack' = [toBack EXCEPT ![b] = Append(toBack[b], x)] /\ x.req = req /\ x.original = original
  BY <1>1 DEF Forward
<1>3. IsSeq(toBack[b]) /\ \A c \in Backends : toBack'[c] = IF c = b THEN Append(toBack[b], x) ELSE toBack[c]
  BY <1>2 DEF ShapeInv, Queues
<1>4. Elems(toBack'[d]) = Elems(toBack[d]) \/ (d = b /\ Elems(toBack'[d]) = Elems(toBack[d]) \union {x})
  BY <1>3, Joined
<1> QED BY <1>2, <1>4 DEF Live

LEMMA LiveTaken ==
  ASSUME ShapeInv, NEW b \in Backends, fromBack[b] # << >>, fromBack' = [fromBack EXCEPT ![b] = Tail(fromBack[b])],
         UNCHANGED <<toBack, remote>>, NEW d \in Backends, NEW u, Live(d, u)'
  PROVE  Live(d, u)
<1>1. IsSeq(fromBack[b]) /\ \A c \in Backends : fromBack'[c] = IF c = b THEN Tail(fromBack[b]) ELSE fromBack[c]
  BY DEF ShapeInv, Queues
<1>2. Elems(fromBack'[d]) \subseteq Elems(fromBack[d])
  BY <1>1, Shifted
<1> QED BY <1>2 DEF Live, Elems

LEMMA LiveAnswered ==
  ASSUME TypeOK, ShapeInv, NEW b \in Backends, NEW ok \in BOOLEAN, NEW t, BackendAnswers(b, ok, t),
         NEW d \in Backends, NEW u, Live(d, u)'
  PROVE  Live(d, u)
<1>1. PICK m : m = Head(toBack[b])
  OBVIOUS
<1>2. PICK x : x = [kind |-> "answer", req |-> m.req, ok |-> ok,
                    task |-> IF m.req.kind = "task" THEN m.original ELSE IF m.req.kind = "call" THEN t ELSE None]
  OBVIOUS
<1>3. /\ toBack[b] # << >> /\ x.kind = "answer"
      /\ toBack' = [toBack EXCEPT ![b] = Tail(toBack[b])]
      /\ fromBack' = [fromBack EXCEPT ![b] = Append(fromBack[b], x)]
  BY <1>1, <1>2 DEF BackendAnswers
<1>4. /\ \A c \in Backends : c # b => remote'[c] = remote[c]
      /\ \A v \in remote'[b] : v \in remote[b] \/ (m.req.kind = "subscribe" /\ m.original = v)
  BY <1>1 DEF BackendAnswers, TypeOK
<1>5. IsSeq(fromBack[b]) /\ \A c \in Backends : fromBack'[c] = IF c = b THEN Append(fromBack[b], x) ELSE fromBack[c]
  BY <1>3 DEF ShapeInv, Queues
<1>6. IsSeq(toBack[b]) /\ \A c \in Backends : toBack'[c] = IF c = b THEN Tail(toBack[b]) ELSE toBack[c]
  BY <1>3 DEF ShapeInv, Queues
<1>7. m \in Elems(toBack[b]) /\ Elems(toBack'[d]) \subseteq Elems(toBack[d])
  BY <1>1, <1>3, <1>6, Shifted
<1>8. Elems(fromBack'[d]) \subseteq Elems(fromBack[d]) \union {x}
  BY <1>5, Joined
<1> HIDE DEF Elems
<1>9. CASE u \in remote'[d]
  BY <1>4, <1>7, <1>9 DEF Live
<1>10. CASE \E n \in Elems(fromBack'[d]) : n.kind = "updated" /\ n.uri = u
  BY <1>3, <1>8, <1>10 DEF Live
<1>11. CASE \E n \in Elems(toBack'[d]) : n.req.kind = "subscribe" /\ n.original = u
  BY <1>7, <1>11 DEF Live
<1>12. \/ u \in remote'[d] \/ \E n \in Elems(fromBack'[d]) : n.kind = "updated" /\ n.uri = u
       \/ \E n \in Elems(toBack'[d]) : n.req.kind = "subscribe" /\ n.original = u
  BY DEF Live, Elems
<1> QED BY <1>9, <1>10, <1>11, <1>12

LEMMA LiveUpdated ==
  ASSUME ShapeInv, NEW b \in Backends, NEW v, BackendUpdates(b, v), NEW d \in Backends, NEW u, Live(d, u)'
  PROVE  Live(d, u)
<1>1. PICK x : x = [kind |-> "updated", uri |-> v]
  OBVIOUS
<1>2. UNCHANGED <<toBack, remote>> /\ v \in remote[b] /\ x.uri = v
      /\ fromBack' = [fromBack EXCEPT ![b] = Append(fromBack[b], x)]
  BY <1>1 DEF BackendUpdates
<1>3. IsSeq(fromBack[b]) /\ \A c \in Backends : fromBack'[c] = IF c = b THEN Append(fromBack[b], x) ELSE fromBack[c]
  BY <1>2 DEF ShapeInv, Queues
<1>4. Elems(fromBack'[d]) = Elems(fromBack[d]) \/ (d = b /\ Elems(fromBack'[d]) = Elems(fromBack[d]) \union {x})
  BY <1>3, Joined
<1> QED BY <1>2, <1>4 DEF Live, Elems

LEMMA WantHolds ==
  ASSUME TypeOK, ShapeInv, LoopInv, RouteInv, UpdateInv, Next
  PROVE  Wants'
<1>0. LockInv /\ WantInv /\ TurnInv /\ None \notin Backends
  BY CallPathAssumption DEF UpdateInv
<1>1. loop.pc # "writing" => \A m \in Elems(lock) : \A x : ~Unsubscribed(m, x)
  BY DEF LoopInv, LoopAnswer, Unsubscribed
<1>2. ASSUME NEW m, Answer(m), m.kind = "error", UNCHANGED <<expects, local, toBack, fromBack, remote>>
      PROVE  Wants'
  <2>1. lock' = Append(lock, m)
    BY <1>2 DEF Answer
  <2> QED BY <1>0, <1>2, <2>1, WantQuiet, LiveSame
<1>3. ASSUME NEW req, NEW m, m = Error(req), Answer(m), UNCHANGED <<expects, local, toBack, fromBack, remote>>
      PROVE  Wants'
  BY <1>2, <1>3, Replies
<1>4. ASSUME NEW b \in Backends, NEW a \in Arguments, CallBlocked(b, a) \/ CallRefused(b, a)
      PROVE  Wants'
  <2>1. UNCHANGED <<expects, local, toBack, fromBack, remote>> /\ \E req : Answer(Error(req))
    BY <1>4 DEF CallBlocked, CallRefused, Refuse
  <2> QED BY <1>3, <2>1
<1>5. ASSUME NEW b \in Backends, NEW req, NEW original, NEW message, Forward(req, b, original, message),
             req.kind # "subscribe", UNCHANGED <<expects, local, fromBack, remote, lock>>
      PROVE  Wants'
  BY <1>0, <1>5, WantQuiet, LiveAsked
<1>6. ASSUME NEW b \in Backends, NEW a \in Arguments, CallForwarded(b, a)
      PROVE  Wants'
  <2>1. PICK req : req = [n |-> requests, kind |-> "call", of |-> Request(b, a)]
    OBVIOUS
  <2>2. /\ req.kind # "subscribe" /\ UNCHANGED <<expects, local, fromBack, remote, lock>>
        /\ Forward(req, b, None, run(chain, Request(b, a)).message)
    BY <1>6, <2>1 DEF CallForwarded
  <2> QED BY <1>5, <2>2
<1>7. ASSUME NEW h \in Handlers, NEW a \in Arguments, LocalCall(h, a)
      PROVE  Wants'
  <2>1. UNCHANGED <<expects, local, toBack, fromBack, remote>> /\ (lock' = lock \/ \E req : Answer(Error(req)))
    BY <1>7 DEF LocalCall
  <2> QED BY <1>0, <1>3, <2>1, WantQuiet, LiveSame
<1>8. ASSUME NEW h \in Handlers, NEW a \in Arguments, Spawn(h, a)
      PROVE  Wants'
  <2>1. UNCHANGED <<expects, local, toBack, fromBack, remote, lock>>
    BY <1>8 DEF Spawn
  <2> QED BY <1>0, <2>1, WantQuiet, LiveSame
<1>9. ASSUME NEW id, RouteTask(id)
      PROVE  Wants'
  <2>1. PICK req : req = [n |-> requests, kind |-> "task", of |-> id]
    OBVIOUS
  <2>2. /\ UNCHANGED <<expects, local, fromBack, remote>> /\ req.kind # "subscribe"
        /\ \/ Answer(Error(req)) /\ UNCHANGED toBack
           \/ split(id)[1] \in Backends /\ Forward(req, split(id)[1], split(id)[2], None) /\ UNCHANGED lock
    BY <1>9, <2>1 DEF RouteTask, Refuse
  <2> QED BY <1>3, <1>5, <2>2
<1>10. ASSUME NEW kind \in {"subscribe", "unsubscribe"}, NEW u \in Uris, NEW b \in Backends, RouteSubscription(kind, b, u)
       PROVE  Wants'
  <2>1. PICK req : req = [n |-> requests, kind |-> kind, of |-> <<b, u>>]
    OBVIOUS
  <2>2. /\ UNCHANGED <<local, fromBack, remote>> /\ req.kind = kind /\ loop.pc = "reading"
        /\ expects' = IF kind = "subscribe" THEN expects \cup {<<b, u>>} ELSE expects
        /\ \/ Answer(Error(req)) /\ UNCHANGED toBack
           \/ Forward(req, b, u, None) /\ UNCHANGED lock
    BY <1>10, <2>1 DEF RouteSubscription, Refuse, Counted
  <2>3. CASE Answer(Error(req)) /\ UNCHANGED toBack
    <3>1. PICK m : m = Error(req)
      OBVIOUS
    <3>2. m.kind = "error" /\ lock' = Append(lock, m)
      BY <2>3, <3>1, Replies DEF Answer
    <3>3. \A x : ~Unsubscribed(m, x)
      BY <3>2 DEF Unsubscribed
    <3>4. \A d \in Backends : \A v \in Uris : Live(d, v)' => Live(d, v)
      BY <2>2, <2>3, LiveSame
    <3> QED BY <1>0, <2>2, <3>2, <3>3, <3>4, WantFrame
  <2>4. CASE Forward(req, b, u, None) /\ UNCHANGED lock
    <3>1. ASSUME NEW d \in Backends, NEW v \in Uris, Live(d, v)'
          PROVE  Live(d, v) \/ (<<d, v>> \in expects' /\ \A m \in Elems(lock) : ~Unsubscribed(m, <<d, v>>))
      <4>1. Live(d, v) \/ (kind = "subscribe" /\ d = b /\ v = u)
        BY <2>2, <2>4, <3>1, LiveAsked
      <4>2. \A m \in Elems(lock) : \A x : ~Unsubscribed(m, x)
        BY <1>1, <2>2
      <4> QED BY <2>2, <4>1, <4>2
    <3>2. expects \subseteq expects' /\ local' = local /\ lock' = lock
      BY <2>2, <2>4
    <3> QED BY <1>0, <3>1, <3>2, WantFrame
  <2> QED BY <2>2, <2>3, <2>4
<1>11. ASSUME NEW kind \in {"subscribe", "unsubscribe"}, NEW u \in Uris, LocalSubscription(kind, u)
       PROVE  Wants'
  <2>1. PICK req : req = [n |-> requests, kind |-> kind, of |-> <<None, u>>]
    OBVIOUS
  <2>2. PICK m : m = Result(req, None)
    OBVIOUS
  <2>3. /\ UNCHANGED <<toBack, fromBack, remote>> /\ req.kind = kind /\ req.of = <<None, u>> /\ loop.pc = "reading"
        /\ expects' = IF kind = "subscribe" THEN expects \cup {<<None, u>>} ELSE expects
        /\ local' = IF kind = "subscribe" THEN local \cup {u} ELSE local \ {u}
        /\ lock' = Append(lock, m)
    BY <1>11, <2>1, <2>2 DEF LocalSubscription, Counted, Answer
  <2>4. m.kind = "result" /\ m.req = req
    BY <2>2, Replies
  <2>5. \A x : Unsubscribed(m, x) => kind = "unsubscribe" /\ x = <<None, u>>
    BY <2>3, <2>4 DEF Unsubscribed
  <2>6. \A v \in local' : ~Unsubscribed(m, <<None, v>>)
    <3>1. ASSUME NEW v \in local', Unsubscribed(m, <<None, v>>) PROVE FALSE
      <4>1. kind = "unsubscribe" /\ v = u
        BY <2>5, <3>1
      <4> QED BY <2>3, <4>1
    <3> QED BY <3>1
  <2>7. \A d \in Backends : \A v : ~Unsubscribed(m, <<d, v>>)
    BY <1>0, <2>5
  <2>8. \A x, n : n \in Elems(lock) => ~Unsubscribed(n, x)
    BY <1>1, <2>3
  <2>9. \A v \in local' : v \in local \/ (<<None, v>> \in expects' /\ \A n \in Elems(lock) : ~Unsubscribed(n, <<None, v>>))
    BY <2>3, <2>8
  <2>10. \A d \in Backends : \A v \in Uris : Live(d, v)' => Live(d, v)
    BY <2>3, LiveSame
  <2>11. expects \subseteq expects' /\ m.kind # "updated"
    BY <2>3, <2>4
  <2> QED BY <1>0, <2>3, <2>6, <2>7, <2>9, <2>10, <2>11, WantFrame
<1>12. ASSUME CallRaises
       PROVE  Wants'
  <2>1. UNCHANGED <<expects, local, toBack, fromBack, remote>> /\ (lock' = lock \/ \E req : Answer(Error(req)))
    BY <1>12 DEF CallRaises
  <2> QED BY <1>0, <1>3, <2>1, WantQuiet, LiveSame
<1>13. ASSUME NEW req \in spawned, PooledStarts(req)
       PROVE  Wants'
  <2>1. PICK m : m = Error(req)
    OBVIOUS
  <2>2. UNCHANGED <<expects, local, toBack, fromBack, remote>> /\ (lock' = lock \/ lock' = Append(lock, m))
    BY <1>13, <2>1 DEF PooledStarts
  <2>3. m.kind = "error"
    BY <2>1, Replies
  <2> QED BY <1>0, <2>2, <2>3, WantQuiet, LiveSame
<1>14. ASSUME NEW req \in work, HandlerRaises(req) \/ \E fits \in BOOLEAN : HandlerReturns(req, fits)
       PROVE  Wants'
  <2>1. UNCHANGED <<expects, local, toBack, fromBack, remote>>
        /\ (lock' = lock \/ \E m : (m = Error(req) \/ m = Result(req, None)) /\ lock' = Append(lock, m))
    BY <1>14 DEF HandlerRaises, HandlerReturns, Answer
  <2>2. \A m : m = Error(req) \/ m = Result(req, None) => m.kind \in {"error", "result"} /\ m.req = req
    BY DEF Error, Result, Message
  <2>3. req.kind # "unsubscribe"
    BY DEF LoopInv
  <2> QED BY <1>0, <2>1, <2>2, <2>3, WantQuiet, LiveSame
<1>15. ASSUME NEW u \in Uris, Publish(u)
       PROVE  Wants'
  <2>1. PICK m : m = Update(None, u)
    OBVIOUS
  <2>2. UNCHANGED <<expects, local, toBack, fromBack, remote>> /\ u \in local /\ lock' = Append(lock, m)
    BY <1>15, <2>1 DEF Publish
  <2>3. m.kind = "updated" /\ m.body = <<None, u>> /\ Wanted(m.body)
    BY <1>0, <2>1, <2>2, Updates DEF WantInv
  <2> QED BY <1>0, <2>2, <2>3, WantQuiet, LiveSame
<1>16. ASSUME NEW b \in Backends, ReadAnswer(b)
       PROVE  Wants'
  <2>1. PICK m : m = Head(fromBack[b])
    OBVIOUS
  <2>2. /\ UNCHANGED <<toBack, remote, expects, local>> /\ fromBack[b] # << >>
        /\ fromBack' = [fromBack EXCEPT ![b] = Tail(fromBack[b])] /\ m.kind = "answer"
        /\ \/ lock' = lock
           \/ loop.pc = "calling" /\ loop.req = m.req /\ Returned(b, m.ok, m.task)
    BY <1>16, <2>1 DEF ReadAnswer
  <2>3. IsSeq(fromBack[b]) /\ \A c \in Backends : fromBack'[c] = IF c = b THEN Tail(fromBack[b]) ELSE fromBack[c]
    BY <2>2 DEF ShapeInv, Queues
  <2>4. /\ m = fromBack[b][1] /\ 1 \in DOMAIN fromBack[b] /\ m \in Elems(fromBack[b])
        /\ \A i \in DOMAIN Tail(fromBack[b]) : i + 1 \in DOMAIN fromBack[b] /\ Tail(fromBack[b])[i] = fromBack[b][i + 1] /\ 1 < i + 1
    BY <2>1, <2>2, <2>3, Shifted
  <2>5. \A d \in Backends : \A u \in Uris : Live(d, u)' => Live(d, u)
    BY <2>2, LiveTaken
  <2>6. CASE lock' = lock
    BY <1>0, <2>2, <2>5, <2>6, WantQuiet
  <2>7. ASSUME loop.pc = "calling", loop.req = m.req, Returned(b, m.ok, m.task) PROVE Wants'
    <3>1. PICK n : /\ Answer(n) /\ n.req = m.req
                   /\ n.kind = "error" \/ (n.kind = "result" /\ m.ok)
      <4>1. PICK id : id = namespace_task_id(m.task, loop.to)
        OBVIOUS
      <4>2. Answer(IF m.ok THEN Result(loop.req, id) ELSE Error(loop.req))
        BY <2>7, <4>1 DEF Returned
      <4>3. CASE m.ok
        <5>1. PICK n : n = Result(loop.req, id)
          OBVIOUS
        <5>2. Answer(n) /\ n.req = m.req /\ n.kind = "result"
          BY <2>7, <4>2, <4>3, <5>1, Replies
        <5> QED BY <4>3, <5>2
      <4>4. CASE ~m.ok
        <5>1. PICK n : n = Error(loop.req)
          OBVIOUS
        <5>2. Answer(n) /\ n.req = m.req /\ n.kind = "error"
          BY <2>7, <4>2, <4>4, <5>1, Replies
        <5> QED BY <5>2
      <4> QED BY <4>3, <4>4
    <3>2. lock' = Append(lock, n) /\ n.kind # "updated"
      BY <3>1 DEF Answer
    <3>3. CASE n.kind = "error" \/ m.req.kind # "unsubscribe"
      BY <1>0, <2>2, <2>5, <3>1, <3>2, <3>3, WantQuiet
    <3>4. CASE m.ok /\ m.req.kind = "unsubscribe"
      <4>1. PICK u \in Uris : m.req.of = <<b, u>>
        BY <2>2, <2>4, <3>4 DEF RouteInv, Answers
      <4>2. Awaited(m) /\ Ends(m, b, u)
        BY <2>2, <2>7, <3>4, <4>1 DEF Awaited, Ends
      <4>3. /\ toBack[b] = << >> /\ u \notin remote[b]
            /\ \A j \in DOMAIN fromBack[b] : 1 < j => ~(fromBack[b][j].kind = "updated" /\ fromBack[b][j].uri = u)
        BY <1>0, <2>4, <4>2 DEF TurnInv
      <4>4. Elems(toBack[b]) = {}
        BY <4>3 DEF Elems
      <4>5. \A k \in Elems(fromBack'[b]) : ~(k.kind = "updated" /\ k.uri = u)
        <5>1. fromBack'[b] = Tail(fromBack[b])
          BY <2>3
        <5>2. \A i \in DOMAIN fromBack'[b] : ~(fromBack'[b][i].kind = "updated" /\ fromBack'[b][i].uri = u)
          BY <2>4, <4>3, <5>1
        <5> QED BY <5>2 DEF Elems
      <4>6. ~Live(b, u)'
        BY <2>2, <4>3, <4>4, <4>5 DEF Live, Elems
      <4>7. \A x : Unsubscribed(n, x) => x = <<b, u>>
        BY <3>1, <4>1 DEF Unsubscribed
      <4>8. \A v \in local' : ~Unsubscribed(n, <<None, v>>)
        BY <1>0, <4>7
      <4>9. ASSUME NEW d \in Backends, NEW v \in Uris, Live(d, v)', Unsubscribed(n, <<d, v>>) PROVE FALSE
        <5>1. d = b /\ v = u
          BY <4>7, <4>9
        <5> QED BY <4>6, <4>9, <5>1
      <4>10. \A d \in Backends : \A v \in Uris : Live(d, v)' => ~Unsubscribed(n, <<d, v>>)
        BY <4>9
      <4>11. expects' = expects /\ local' = local
        BY <2>2
      <4> QED BY <1>0, <2>5, <3>2, <4>8, <4>10, <4>11, WantFrame
    <3> QED BY <3>1, <3>3, <3>4
  <2> QED BY <2>2, <2>6, <2>7
<1>17. ASSUME NEW b \in Backends, RelayUpdate(b)
       PROVE  Wants'
  <2>1. PICK u : u = Head(fromBack[b]).uri
    OBVIOUS
  <2>2. PICK n : n = Update(b, u)
    OBVIOUS
  <2>3. /\ UNCHANGED <<toBack, remote, expects, local>> /\ fromBack[b] # << >>
        /\ fromBack' = [fromBack EXCEPT ![b] = Tail(fromBack[b])] /\ Head(fromBack[b]).kind = "updated"
        /\ lock' = Append(lock, n)
    BY <1>17, <2>1, <2>2 DEF RelayUpdate
  <2>4. Head(fromBack[b]) \in Elems(fromBack[b])
    BY <2>3, Shifted DEF ShapeInv, Queues
  <2>5. u \in Uris /\ Live(b, u)
    BY <2>1, <2>3, <2>4 DEF RouteInv, Live
  <2>6. Wanted(n.body) /\ n.kind = "updated"
    BY <1>0, <2>2, <2>5, Updates DEF WantInv
  <2>7. \A d \in Backends : \A v \in Uris : Live(d, v)' => Live(d, v)
    BY <2>3, LiveTaken
  <2> QED BY <1>0, <2>3, <2>6, <2>7, WantQuiet
<1>21. ASSUME NEW b \in Backends, SinkUpdate(b)
       PROVE  Wants'
  <2>1. /\ UNCHANGED <<toBack, remote, expects, local, lock>> /\ fromBack[b] # << >>
        /\ fromBack' = [fromBack EXCEPT ![b] = Tail(fromBack[b])]
    BY <1>21 DEF SinkUpdate
  <2> QED BY <1>0, <2>1, LiveTaken, WantQuiet
<1>18. CASE Write
  BY <1>0, <1>18, WantWrite
<1>19. ASSUME NEW b \in Backends, NEW ok \in BOOLEAN, NEW t \in TaskIds \cup {None}, BackendAnswers(b, ok, t)
       PROVE  Wants'
  <2>1. UNCHANGED <<expects, local, lock>>
    BY <1>19 DEF BackendAnswers
  <2> QED BY <1>0, <1>19, <2>1, WantQuiet, LiveAnswered
<1>20. ASSUME NEW b \in Backends, NEW u \in Uris, BackendUpdates(b, u)
       PROVE  Wants'
  <2>1. UNCHANGED <<expects, local, lock>>
    BY <1>20 DEF BackendUpdates
  <2> QED BY <1>0, <1>20, <2>1, WantQuiet, LiveUpdated
<1> QED BY <1>4, <1>6, <1>7, <1>8, <1>9, <1>10, <1>11, <1>12, <1>13, <1>14, <1>15, <1>16, <1>17, <1>18, <1>19, <1>20, <1>21
        DEF Next, LoopStep

\* A name that the router marks as a backend's is read back as that backend's,
\* under the name the backend gave it, for every name and every plain id.
THEOREM MarkedNamesReadBack ==
  ASSUME NEW id, NEW name, PlainId(id), Name(name)
  PROVE  Reversible(id, name)
BY PrefixSplit DEF Reversible

-----------------------------------------------------------------------------
\* The marking of URIs.

\* No sep starts in x when sep follows it.
Leads(x, sep) == \A i \in 1 .. Len(x) : i \notin Occurrences(x \o sep, sep)

\* What precedes the first sep and what follows it are read back.
LEMMA PartitionFound ==
  ASSUME NEW S, NEW sep \in Seq(S), Len(sep) > 0, NEW x \in Seq(S), NEW y \in Seq(S), Leads(x, sep)
  PROVE  Partition(x \o (sep \o y), sep) = [before |-> x, found |-> TRUE, after |-> y]
<1> DEFINE s == x \o (sep \o y)
           at == Occurrences(s, sep)
           N == Len(x)
           K == Len(sep)
           L == Len(s)
<1>1. /\ N \in Nat /\ K \in Nat /\ Len(y) \in Nat /\ K > 0 /\ L = N + (K + Len(y)) /\ s \in Seq(S)
      /\ \A i \in 1 .. N : s[i] = x[i]
      /\ \A k \in 1 .. K : s[N + k] = sep[k]
      /\ \A k \in 1 .. Len(y) : s[N + (K + k)] = y[k]
  <2>1. /\ sep \o y \in Seq(S) /\ Len(sep \o y) = K + Len(y)
        /\ \A i \in 1 .. K + Len(y) : (sep \o y)[i] = IF i <= K THEN sep[i] ELSE y[i - K]
    BY ConcatProperties
  <2>2. /\ s \in Seq(S) /\ L = N + Len(sep \o y)
        /\ \A i \in 1 .. N + Len(sep \o y) : s[i] = IF i <= N THEN x[i] ELSE (sep \o y)[i - N]
    BY <2>1, ConcatProperties
  <2>3. N \in Nat /\ K \in Nat /\ Len(y) \in Nat
    OBVIOUS
  <2> DEFINE t == sep \o y
             M == Len(y)
  <2> HIDE DEF t, s, N, K, L, M
  <2>4. \A i \in 1 .. N : s[i] = x[i]
    <3>1. TAKE i \in 1 .. N
    <3>2. Len(t) \in Nat
      BY <2>1, <2>3 DEF t
    <3>3. i \in 1 .. N + Len(t) /\ i <= N
      BY <2>3, <3>2
    <3> QED BY <2>2, <3>3 DEF t
  <2>5. \A k \in 1 .. K : s[N + k] = sep[k]
    <3>1. TAKE k \in 1 .. K
    <3>2. N + k \in 1 .. N + Len(t) /\ ~(N + k <= N) /\ (N + k) - N = k
      BY <2>1, <2>3 DEF t, M
    <3>3. s[N + k] = t[k]
      BY <2>2, <3>2 DEF t
    <3> QED BY <2>1, <2>3, <3>3 DEF t, M
  <2>6. \A k \in 1 .. M : s[N + (K + k)] = y[k]
    <3>1. TAKE k \in 1 .. M
    <3>2. s[N + (K + k)] = t[K + k]
      <4>1. N + (K + k) \in 1 .. N + Len(t) /\ ~(N + (K + k) <= N) /\ (N + (K + k)) - N = K + k
        BY <2>1, <2>3 DEF t, M
      <4> QED BY <2>2, <4>1 DEF t
    <3>3. K + k \in 1 .. K + M /\ ~(K + k <= K) /\ (K + k) - K = k
      BY <2>3 DEF M
    <3> QED BY <2>1, <3>2, <3>3 DEF t, M
  <2>7. K > 0 /\ L = N + (K + Len(y))
    BY <2>1, <2>2 DEF K, t
  <2> QED BY <2>2, <2>3, <2>4, <2>5, <2>6, <2>7 DEF M
<1>2. N + 1 \in at
  <2>1. N + 1 \in 1 .. L /\ (N + 1) + K - 1 <= L
    BY <1>1
  <2>2. \A k \in 1 .. K : s[(N + 1) + k - 1] = sep[k]
    BY <1>1
  <2> QED BY <2>1, <2>2 DEF Occurrences
<1>3. ASSUME NEW i \in at PROVE N + 1 <= i
  <2>1. i \in 1 .. L /\ i + K - 1 <= L /\ \A k \in 1 .. K : s[i + k - 1] = sep[k]
    BY DEF Occurrences
  <2>2. ASSUME i <= N PROVE FALSE
    <3>1. /\ x \o sep \in Seq(S) /\ Len(x \o sep) = N + K
          /\ \A j \in 1 .. N + K : (x \o sep)[j] = IF j <= N THEN x[j] ELSE sep[j - N]
      BY ConcatProperties
    <3> DEFINE w == x \o sep
    <3> HIDE DEF s, w, N, K, L
    <3>2. ASSUME NEW j \in 1 .. N + K PROVE w[j] = s[j]
      <4>1. CASE j <= N
        BY <1>1, <3>1, <4>1 DEF w
      <4>2. CASE ~(j <= N)
        <5>1. j - N \in 1 .. K /\ N + (j - N) = j
          BY <1>1, <4>2
        <5> QED BY <1>1, <3>1, <4>2, <5>1 DEF w
      <4> QED BY <4>1, <4>2
    <3>3. \A k \in 1 .. K : i + k - 1 \in 1 .. N + K
      BY <1>1, <2>1, <2>2
    <3>4. \A k \in 1 .. K : w[i + k - 1] = sep[k]
      BY <2>1, <3>2, <3>3
    <3>5. i \in 1 .. N /\ i \in 1 .. Len(w) /\ i + K - 1 <= Len(w)
      BY <1>1, <2>1, <2>2, <3>1 DEF w
    <3>6. i \in Occurrences(w, sep)
      BY <3>4, <3>5 DEF Occurrences, K
    <3> QED BY <3>5, <3>6 DEF Leads, w, N
  <2> QED BY <1>1, <2>1, <2>2
<1>4. at \subseteq Nat /\ at # {}
  <2>1. \A j \in at : j \in Nat
    BY DEF Occurrences
  <2> QED BY <1>2, <2>1
<1>5. First(at) = N + 1
  <2> HIDE DEF at, N
  <2>1. First(at) \in at /\ First(at) <= N + 1
    BY <1>2, <1>4, HasFirst
  <2>2. First(at) \in Nat /\ N + 1 <= First(at)
    BY <1>3, <1>4, <2>1
  <2>3. N + 1 \in Nat
    BY <1>1
  <2> QED BY <2>1, <2>2, <2>3
<1>6. SubSeq(s, 1, N) = x
  <2> HIDE DEF s, N, L
  <2>1. \A i \in 1 .. N : s[i] \in S
    BY <1>1, ElementOfSeq DEF N
  <2>2. /\ SubSeq(s, 1, N) \in Seq(S) /\ Len(SubSeq(s, 1, N)) = N
        /\ \A i \in 1 .. N : SubSeq(s, 1, N)[i] = s[i]
    <3>1. /\ SubSeq(s, 1, N) \in Seq(S)
          /\ Len(SubSeq(s, 1, N)) = IF 1 <= N THEN N - 1 + 1 ELSE 0
          /\ \A i \in 1 .. N - 1 + 1 : SubSeq(s, 1, N)[i] = s[1 + i - 1]
      BY <1>1, <2>1, SubSeqProperties
    <3> QED BY <1>1, <3>1
  <2> QED BY <1>1, <2>2, SeqEqual DEF N
<1>7. SubSeq(s, N + 1 + K, L) = y
  <2> DEFINE M == Len(y)
  <2> HIDE DEF s, N, K, L, M
  <2>1. \A i \in N + 1 + K .. L : s[i] \in S
    BY <1>1, ElementOfSeq DEF L
  <2>2. /\ SubSeq(s, N + 1 + K, L) \in Seq(S)
        /\ Len(SubSeq(s, N + 1 + K, L)) = IF N + 1 + K <= L THEN L - (N + 1 + K) + 1 ELSE 0
        /\ \A i \in 1 .. L - (N + 1 + K) + 1 : SubSeq(s, N + 1 + K, L)[i] = s[N + 1 + K + i - 1]
    BY <1>1, <2>1, SubSeqProperties
  <2>3. L - (N + 1 + K) + 1 = M /\ (N + 1 + K <= L <=> 1 <= M) /\ M \in Nat
    BY <1>1 DEF M
  <2>4. \A i \in 1 .. M : N + 1 + K + i - 1 = N + (K + i)
    BY <1>1, <2>3
  <2>5. Len(SubSeq(s, N + 1 + K, L)) = M
    BY <2>2, <2>3
  <2>6. \A i \in 1 .. M : SubSeq(s, N + 1 + K, L)[i] = y[i]
    BY <1>1, <2>2, <2>3, <2>4 DEF M
  <2> QED BY <2>2, <2>5, <2>6, SeqEqual DEF M
<1> HIDE DEF s, N, K, L
<1>8. N + 1 - 1 = N
  BY <1>1
<1>9. Partition(s, sep) = [before |-> SubSeq(s, 1, First(at) - 1), found |-> TRUE,
                           after |-> SubSeq(s, First(at) + K, L)]
  BY <1>4 DEF Partition, K, L
<1>10. First(at) - 1 = N /\ First(at) + K = N + 1 + K
  <2> DEFINE f == First(at)
  <2>1. f = N + 1
    BY <1>5
  <2> HIDE DEF f
  <2>2. f - 1 = N /\ f + K = N + 1 + K
    BY <1>1, <2>1
  <2> QED BY <2>2 DEF f
<1>11. SubSeq(s, 1, First(at) - 1) = x /\ SubSeq(s, First(at) + K, L) = y
  BY <1>6, <1>7, <1>10, Zenon
<1>12. Partition(s, sep) = [before |-> x, found |-> TRUE, after |-> y]
  BY <1>9, <1>11, Zenon
<1> QED BY <1>12 DEF s

\* A string is what its partition says it is.
LEMMA PartitionParts ==
  ASSUME NEW S, NEW sep \in Seq(S), Len(sep) > 0, NEW s \in Seq(S)
  PROVE  \/ /\ Partition(s, sep) = [before |-> s, found |-> FALSE, after |-> << >>]
            /\ Occurrences(s, sep) = {}
         \/ \E x, y \in Seq(S) :
              /\ Partition(s, sep) = [before |-> x, found |-> TRUE, after |-> y]
              /\ s = x \o (sep \o y) /\ Leads(x, sep)
<1> DEFINE at == Occurrences(s, sep)
           K == Len(sep)
           L == Len(s)
           N == First(at)
           x == SubSeq(s, 1, N - 1)
           y == SubSeq(s, N + K, L)
<1>1. CASE at = {}
  BY <1>1 DEF Partition
<1>2. CASE at # {}
  <2>1. at \subseteq Nat /\ K \in Nat /\ L \in Nat
    BY DEF Occurrences
  <2>2. N \in at /\ \A j \in at : N <= j
    <3> HIDE DEF at
    <3> QED BY <1>2, <2>1, HasFirst
  <2>3. N \in 1 .. L /\ N + K - 1 <= L /\ \A k \in 1 .. K : s[N + k - 1] = sep[k]
    BY <2>2 DEF Occurrences
  <2>4. Partition(s, sep) = [before |-> x, found |-> TRUE, after |-> y]
    BY <1>2 DEF Partition
  <2> HIDE DEF N
  <2>5. /\ x \in Seq(S) /\ Len(x) = N - 1
        /\ \A i \in 1 .. N - 1 : x[i] = s[i]
    <3>1. \A i \in 1 .. N - 1 : s[i] \in S
      BY <2>1, <2>3, ElementOfSeq
    <3>2. /\ x \in Seq(S) /\ Len(x) = IF 1 <= N - 1 THEN N - 1 - 1 + 1 ELSE 0
          /\ \A i \in 1 .. N - 1 - 1 + 1 : x[i] = s[1 + i - 1]
      BY <2>1, <2>3, <3>1, SubSeqProperties
    <3> HIDE DEF x
    <3> QED BY <2>1, <2>3, <3>2
  <2>6. /\ y \in Seq(S) /\ Len(y) = L - (N + K) + 1
        /\ \A i \in 1 .. L - (N + K) + 1 : y[i] = s[N + K + i - 1]
    <3> DEFINE a == N + K
    <3>1. \A i \in a .. L : s[i] \in S
      BY <2>1, <2>3, ElementOfSeq
    <3>2. a \in Int /\ L \in Int
      BY <2>1, <2>3
    <3> HIDE DEF a
    <3>3. /\ SubSeq(s, a, L) \in Seq(S) /\ Len(SubSeq(s, a, L)) = IF a <= L THEN L - a + 1 ELSE 0
          /\ \A i \in 1 .. L - a + 1 : SubSeq(s, a, L)[i] = s[a + i - 1]
      BY <3>1, <3>2, SubSeqProperties
    <3>4. a - 1 <= L
      BY <2>1, <2>3 DEF a
    <3>5. L - a + 1 = IF a <= L THEN L - a + 1 ELSE 0
      BY <3>2, <3>4
    <3> QED BY <3>3, <3>5 DEF a
  <2> HIDE DEF x, y, K, L
  <2>7. s = x \o (sep \o y)
    <3>1. /\ sep \o y \in Seq(S) /\ Len(sep \o y) = K + Len(y)
          /\ \A i \in 1 .. K + Len(y) : (sep \o y)[i] = IF i <= K THEN sep[i] ELSE y[i - K]
      BY <2>6, ConcatProperties DEF K
    <3> DEFINE t == sep \o y
    <3> HIDE DEF t
    <3>2. /\ x \o t \in Seq(S) /\ Len(x \o t) = Len(x) + Len(t)
          /\ \A i \in 1 .. Len(x) + Len(t) : (x \o t)[i] = IF i <= Len(x) THEN x[i] ELSE t[i - Len(x)]
      BY <2>5, <3>1, ConcatProperties DEF t
    <3> DEFINE w == x \o t
    <3> HIDE DEF w
    <3>3. Len(w) = L
      BY <2>1, <2>3, <2>5, <2>6, <3>1, <3>2 DEF w, t
    <3>4. ASSUME NEW i \in 1 .. L PROVE w[i] = s[i]
      <4>0. Len(x) = N - 1 /\ i \in 1 .. Len(x) + Len(t) /\ Len(t) = K + (L - (N + K) + 1)
        BY <2>1, <2>3, <2>5, <2>6, <3>1, <3>2, <3>3 DEF w, t
      <4>1. CASE i <= N - 1
        <5>1. i \in 1 .. N - 1
          BY <2>3, <4>1
        <5> QED BY <2>5, <3>2, <4>0, <4>1, <5>1 DEF w
      <4>2. CASE i > N - 1 /\ i <= N - 1 + K
        <5>1. w[i] = t[i - (N - 1)]
          BY <2>3, <3>2, <4>0, <4>2 DEF w
        <5> DEFINE k == i - (N - 1)
        <5>2. k \in 1 .. K /\ k \in 1 .. K + Len(y) /\ N + k - 1 = i
          BY <2>1, <2>3, <2>6, <4>2
        <5> HIDE DEF k
        <5>3. t[k] = sep[k]
          BY <2>1, <3>1, <5>2 DEF t
        <5> QED BY <2>3, <5>1, <5>2, <5>3 DEF k
      <4>3. CASE i > N - 1 + K
        <5> DEFINE k == i - (N - 1)
                   j == k - K
        <5>0. ~(i <= N - 1) /\ i - Len(x) = k
          BY <2>1, <2>3, <4>0, <4>3
        <5>1. w[i] = t[k]
          BY <3>2, <4>0, <5>0 DEF w
        <5>2. k \in 1 .. K + Len(y) /\ ~(k <= K) /\ j \in 1 .. L - (N + K) + 1 /\ N + K + j - 1 = i
          BY <2>1, <2>3, <2>6, <4>3
        <5> HIDE DEF k
        <5>3. t[k] = y[j]
          BY <3>1, <5>2 DEF t
        <5> HIDE DEF j
        <5> QED BY <2>6, <5>1, <5>2, <5>3
      <4> QED BY <2>1, <2>3, <4>1, <4>2, <4>3
    <3> QED BY <3>2, <3>3, <3>4, SeqEqual DEF w, t, L
  <2>8. Leads(x, sep)
    <3>1. SUFFICES ASSUME NEW i \in 1 .. Len(x), i \in Occurrences(x \o sep, sep) PROVE FALSE
      BY DEF Leads
    <3> DEFINE w == x \o sep
    <3>2. /\ w \in Seq(S) /\ Len(w) = Len(x) + K
          /\ \A j \in 1 .. Len(x) + K : w[j] = IF j <= Len(x) THEN x[j] ELSE sep[j - Len(x)]
      BY <2>5, ConcatProperties DEF K
    <3>3. i \in 1 .. Len(w) /\ i + K - 1 <= Len(w) /\ \A k \in 1 .. K : w[i + k - 1] = sep[k]
      BY <3>1 DEF Occurrences, K
    <3> HIDE DEF w
    <3>4. ASSUME NEW j \in 1 .. N - 1 + K PROVE w[j] = s[j]
      <4>1. CASE j <= N - 1
        <5>1. j \in 1 .. N - 1 /\ j \in 1 .. Len(x) + K
          BY <2>1, <2>3, <2>5, <4>1
        <5> QED BY <2>5, <3>2, <4>1, <5>1
      <4>2. CASE ~(j <= N - 1)
        <5> DEFINE k == j - (N - 1)
        <5>1. k \in 1 .. K /\ N + k - 1 = j /\ j \in 1 .. Len(x) + K
          BY <2>1, <2>3, <2>5, <4>2
        <5>2. w[j] = sep[k]
          BY <2>5, <3>2, <4>2, <5>1
        <5> HIDE DEF k
        <5> QED BY <2>3, <5>1, <5>2
      <4> QED BY <4>1, <4>2
    <3>5. i \in 1 .. N - 1 /\ \A k \in 1 .. K : i + k - 1 \in 1 .. N - 1 + K
      BY <2>1, <2>3, <2>5, <3>1, <3>2, <3>3
    <3>6. \A k \in 1 .. K : s[i + k - 1] = sep[k]
      BY <3>3, <3>4, <3>5
    <3>7. i \in 1 .. L /\ i + K - 1 <= L
      BY <2>1, <2>3, <3>5
    <3>8. i \in at
      BY <3>6, <3>7 DEF Occurrences, K, L
    <3> HIDE DEF at
    <3> QED BY <2>1, <2>2, <2>3, <3>5, <3>8
  <2> QED BY <2>4, <2>5, <2>6, <2>7, <2>8
<1> QED BY <1>1, <1>2

\* A string without the character c.
LEMMA FreeLeads ==
  ASSUME NEW S, NEW c \in S, NEW x \in Seq(S), \A i \in 1 .. Len(x) : x[i] # c
  PROVE  Leads(x, <<c>>) /\ Occurrences(x, <<c>>) = {}
<1>1. <<c>> \in Seq(S) /\ Len(<<c>>) = 1 /\ <<c>>[1] = c
  OBVIOUS
<1>2. \A i \in 1 .. Len(x) : (x \o <<c>>)[i] = x[i]
  BY <1>1, ConcatProperties
<1>3. \A i \in 1 .. Len(x) : i + 1 - 1 = i
  OBVIOUS
<1> QED BY <1>1, <1>2, <1>3 DEF Leads, Occurrences

\* The same of a string in which that character does not occur.
LEMMA AbsentLeads ==
  ASSUME NEW S, NEW c \in S, NEW x \in Seq(S), Occurrences(x, <<c>>) = {}
  PROVE  Leads(x, <<c>>)
<1>1. <<c>> \in Seq(S) /\ Len(<<c>>) = 1 /\ <<c>>[1] = c
  OBVIOUS
<1>2. SUFFICES \A i \in 1 .. Len(x) : x[i] # c
  BY FreeLeads
<1>3. ASSUME NEW i \in 1 .. Len(x), x[i] = c PROVE FALSE
  <2>1. i + 1 - 1 = i /\ i <= Len(x) /\ \A k \in 1 .. 1 : k = 1
    OBVIOUS
  <2>2. i \in Occurrences(x, <<c>>)
    BY <1>1, <1>3, <2>1 DEF Occurrences
  <2> QED BY <2>2
<1> QED BY <1>3

\* Concatenation, for proofs that need no more of it than this.
Joint(p, q) == p \o q

\* It stays within the strings over S, and brackets do not matter.
LEMMA Joining ==
  ASSUME NEW S
  PROVE  /\ \A p, q \in Seq(S) : Joint(p, q) \in Seq(S)
         /\ \A p, q, r \in Seq(S) : Joint(Joint(p, q), r) = Joint(p, Joint(q, r))
<1>1. ASSUME NEW p \in Seq(S), NEW q \in Seq(S) PROVE Joint(p, q) \in Seq(S)
  BY ConcatProperties DEF Joint
<1>2. ASSUME NEW p \in Seq(S), NEW q \in Seq(S), NEW r \in Seq(S)
      PROVE  Joint(Joint(p, q), r) = Joint(p, Joint(q, r))
  BY ConcatAssociative DEF Joint
<1> QED BY <1>1, <1>2

\* The first sep of a joint string.
LEMMA PartitionJoint ==
  ASSUME NEW S, NEW sep \in Seq(S), Len(sep) > 0, NEW x \in Seq(S), NEW y \in Seq(S), Leads(x, sep)
  PROVE  Partition(Joint(x, Joint(sep, y)), sep) = [before |-> x, found |-> TRUE, after |-> y]
BY PartitionFound, Zenon DEF Joint

\* What a URI whose parts are known is marked as.
LEMMA UriMarked ==
  ASSUME NEW id, NEW uri, NEW a, NEW rest,
         Partition(uri, SchemeSep) = [before |-> a, found |-> TRUE, after |-> rest]
  PROVE  /\ \A h : Partition(rest, Slash) = [before |-> h, found |-> FALSE, after |-> << >>] =>
               prefix_uri(id, uri) = Joint(Joint(Joint(Joint(a, SchemeSep), h), Slash), id)
         /\ \A h, t : Partition(rest, Slash) = [before |-> h, found |-> TRUE, after |-> t] =>
               prefix_uri(id, uri) =
                 Joint(Joint(Joint(Joint(Joint(Joint(a, SchemeSep), h), Slash), id), Slash), t)
<1> DEFINE rooted(h) == Joint(Joint(Joint(Joint(a, SchemeSep), h), Slash), id)
<1>1. \A h, f, t : Partition(rest, Slash) = [before |-> h, found |-> f, after |-> t] =>
          prefix_uri(id, uri) = IF ~f THEN rooted(h) ELSE Joint(Joint(rooted(h), Slash), t)
  BY DEF prefix_uri, Joint
<1> HIDE DEF rooted
<1>2. \A h : Partition(rest, Slash) = [before |-> h, found |-> FALSE, after |-> << >>] => prefix_uri(id, uri) = rooted(h)
  BY <1>1
<1>3. \A h, t : Partition(rest, Slash) = [before |-> h, found |-> TRUE, after |-> t] =>
                prefix_uri(id, uri) = Joint(Joint(rooted(h), Slash), t)
  BY <1>1
<1> QED BY <1>2, <1>3 DEF rooted

\* What is read of a URI whose parts are known.
LEMMA UriRead ==
  ASSUME NEW uri, NEW a, NEW rest, NEW h, NEW owned, NEW id, NEW f, NEW t,
         Partition(uri, SchemeSep) = [before |-> a, found |-> TRUE, after |-> rest],
         Partition(rest, Slash) = [before |-> h, found |-> TRUE, after |-> owned],
         Partition(owned, Slash) = [before |-> id, found |-> f, after |-> t], id # << >>
  PROVE  split_uri(uri) =
           <<id, IF f THEN Joint(Joint(Joint(Joint(a, SchemeSep), h), Slash), t)
                      ELSE Joint(Joint(a, SchemeSep), h)>>
<1> DEFINE rooted == Joint(Joint(a, SchemeSep), h)
<1> DEFINE p == [before |-> a, found |-> TRUE, after |-> rest]
           q == [before |-> h, found |-> TRUE, after |-> owned]
           r == [before |-> id, found |-> f, after |-> t]
<1>1. /\ p.before = a /\ p.found = TRUE /\ p.after = rest
      /\ q.before = h /\ q.found = TRUE /\ q.after = owned
      /\ r.before = id /\ r.found = f /\ r.after = t
  OBVIOUS
<1> HIDE DEF p, q, r
<1>2. split_uri(uri) = <<id, IF f THEN Joint(Joint(rooted, Slash), t) ELSE rooted>>
  <2>1. Partition(uri, SchemeSep) = p
    BY DEF p
  <2>2. Partition(p.after, Slash) = q
    BY <1>1 DEF q
  <2>3. Partition(q.after, Slash) = r
    BY <1>1 DEF r
  <2>4. split_uri(uri) = IF ~p.found \/ ~q.found \/ r.before = << >> THEN None
                         ELSE <<r.before, IF r.found THEN p.before \o SchemeSep \o q.before \o Slash \o r.after
                                                     ELSE p.before \o SchemeSep \o q.before>>
    BY <2>1, <2>2, <2>3, Zenon DEF split_uri
  <2> QED BY <1>1, <2>4, Zenon DEF Joint
<1> QED BY <1>2, Zenon

\* A URI that the router marks as a backend's is read back as that backend's,
\* under the URI the backend gave it, for every id that the loader accepts and
\* every URI with an authority, be it empty and whatever follows it
\* (prefix_uri, split_uri); S holds the characters of both.
THEOREM MarkedUrisReadBack ==
  ASSUME NEW S, {":", "/"} \subseteq S, NEW id \in Seq(S), NEW uri \in Seq(S)
  PROVE  UriReversible(id, uri)
<1>0. PICK c, k \in S : Slash = <<c>> /\ SchemeSep = <<k, c, c>> /\ \A e : IdCharacter(e) => e # c
  <2>2. \A e : IdCharacter(e) => e # "/"
    BY Zenon DEF IdCharacter
  <2>3. Slash = <<"/">> /\ SchemeSep = <<":", "/", "/">>
    BY Zenon DEF Slash, SchemeSep
  <2>4. "/" \in S /\ ":" \in S
    OBVIOUS
  <2> QED BY <2>2, <2>3, <2>4, Zenon
<1>1. /\ SchemeSep \in Seq(S) /\ Len(SchemeSep) > 0
      /\ Slash \in Seq(S) /\ Len(Slash) > 0
  BY <1>0
<1>2. valid_backend_id(id) => \A i \in 1 .. Len(id) : id[i] # c
  BY <1>0 DEF valid_backend_id
<1>3. SUFFICES ASSUME valid_backend_id(id), Partition(uri, SchemeSep).found
               PROVE  split_uri(prefix_uri(id, uri)) = <<id, uri>>
  BY DEF UriReversible
<1>4. id # << >> /\ Leads(id, Slash) /\ Occurrences(id, Slash) = {}
  BY <1>0, <1>2, <1>3, FreeLeads DEF valid_backend_id
<1>5. PICK a, rest \in Seq(S) :
        /\ Partition(uri, SchemeSep) = [before |-> a, found |-> TRUE, after |-> rest]
        /\ uri = Joint(a, Joint(SchemeSep, rest)) /\ Leads(a, SchemeSep)
  <2>1. ~(Partition(uri, SchemeSep) = [before |-> uri, found |-> FALSE, after |-> << >>])
    BY <1>3
  <2> QED BY <1>1, <2>1, PartitionParts DEF Joint
<1> DEFINE host == Partition(rest, Slash)
<1>6. CASE host = [before |-> rest, found |-> FALSE, after |-> << >>] /\ Occurrences(rest, Slash) = {}
  <2> DEFINE tail == Joint(rest, Joint(Slash, id))
             shown == Joint(a, Joint(SchemeSep, tail))
  <2>1. Leads(rest, Slash)
    BY <1>0, <1>6, AbsentLeads
  <2>2. tail \in Seq(S) /\ prefix_uri(id, uri) = shown /\ Joint(Joint(a, SchemeSep), rest) = uri
    <3>1. prefix_uri(id, uri) = Joint(Joint(Joint(Joint(a, SchemeSep), rest), Slash), id)
      BY <1>5, <1>6, UriMarked
    <3> HIDE DEF host
    <3> QED BY <1>1, <1>5, <3>1, Joining
  <2>3. Partition(shown, SchemeSep) = [before |-> a, found |-> TRUE, after |-> tail]
    <3> HIDE DEF tail
    <3> QED BY <1>1, <1>5, <2>2, PartitionJoint
  <2>4. Partition(tail, Slash) = [before |-> rest, found |-> TRUE, after |-> id]
    BY <1>1, <2>1, PartitionJoint
  <2>5. Partition(id, Slash) = [before |-> id, found |-> FALSE, after |-> << >>]
    BY <1>4 DEF Partition
  <2> HIDE DEF shown, tail
  <2>6. split_uri(shown) = <<id, Joint(Joint(a, SchemeSep), rest)>>
    BY <1>4, <2>3, <2>4, <2>5, UriRead
  <2> QED BY <2>2, <2>6
<1>7. CASE \E h, t \in Seq(S) :
              /\ host = [before |-> h, found |-> TRUE, after |-> t]
              /\ rest = Joint(h, Joint(Slash, t)) /\ Leads(h, Slash)
  <2>1. PICK h, t \in Seq(S) :
          /\ host = [before |-> h, found |-> TRUE, after |-> t]
          /\ rest = Joint(h, Joint(Slash, t)) /\ Leads(h, Slash)
    BY <1>7
  <2> DEFINE owned == Joint(id, Joint(Slash, t))
             tail == Joint(h, Joint(Slash, owned))
             shown == Joint(a, Joint(SchemeSep, tail))
  <2>2. owned \in Seq(S) /\ tail \in Seq(S)
    BY <1>1, Joining
  <2>3. Joint(Joint(Joint(Joint(a, SchemeSep), h), Slash), t) = uri
    <3> DEFINE b == Joint(a, SchemeSep)
               d == Joint(Slash, t)
    <3>1. b \in Seq(S) /\ d \in Seq(S) /\ Joint(b, h) \in Seq(S)
      BY <1>1, Joining
    <3>2. Joint(b, rest) = uri
      BY <1>1, <1>5, Joining
    <3> HIDE DEF b
    <3>3. Joint(Joint(Joint(b, h), Slash), t) = Joint(Joint(b, h), d)
      <4> DEFINE e == Joint(b, h)
      <4> HIDE DEF e
      <4>1. Joint(Joint(e, Slash), t) = Joint(e, d)
        BY <1>1, <3>1, Joining DEF e
      <4> QED BY <4>1 DEF e
    <3> HIDE DEF d
    <3>4. Joint(Joint(b, h), d) = Joint(b, Joint(h, d))
      BY <3>1, Joining
    <3> QED BY <2>1, <3>2, <3>3, <3>4 DEF b, d
  <2>4. prefix_uri(id, uri) = shown
    <3>1. prefix_uri(id, uri) =
            Joint(Joint(Joint(Joint(Joint(Joint(a, SchemeSep), h), Slash), id), Slash), t)
      BY <1>5, <2>1, UriMarked
    <3> DEFINE b == Joint(Joint(a, SchemeSep), h)
    <3>2. b \in Seq(S) /\ Joint(Slash, owned) \in Seq(S)
      BY <1>1, <2>2, Joining
    <3>3. shown = Joint(b, Joint(Slash, owned))
      <4> DEFINE d == Joint(Slash, owned)
                 e == Joint(a, SchemeSep)
      <4> HIDE DEF owned
      <4>1. e \in Seq(S) /\ shown = Joint(e, tail)
        BY <1>1, <2>2, Joining
      <4> HIDE DEF d, e
      <4>2. Joint(e, Joint(h, d)) = Joint(Joint(e, h), d)
        BY <3>2, <4>1, Joining DEF d
      <4> QED BY <4>1, <4>2 DEF d, e
    <3> HIDE DEF b
    <3>4. Joint(Joint(Joint(Joint(b, Slash), id), Slash), t) = Joint(b, Joint(Slash, owned))
      <4> DEFINE d == Joint(b, Slash)
                 e == Joint(Slash, t)
      <4>1. d \in Seq(S) /\ e \in Seq(S) /\ Joint(d, id) \in Seq(S)
        BY <1>1, <3>2, Joining
      <4>2. Joint(b, Joint(Slash, owned)) = Joint(d, owned)
        <5> HIDE DEF owned
        <5> QED BY <1>1, <2>2, <3>2, Joining
      <4> HIDE DEF d
      <4>3. Joint(Joint(Joint(d, id), Slash), t) = Joint(Joint(d, id), e)
        <5> DEFINE g == Joint(d, id)
        <5> HIDE DEF g
        <5>1. Joint(Joint(g, Slash), t) = Joint(g, e)
          BY <1>1, <4>1, Joining DEF g
        <5> QED BY <5>1 DEF g
      <4> HIDE DEF e
      <4>4. Joint(Joint(d, id), e) = Joint(d, Joint(id, e))
        BY <4>1, Joining
      <4> QED BY <4>2, <4>3, <4>4 DEF d, e
    <3> QED BY <3>1, <3>3, <3>4 DEF b
  <2>5. Partition(owned, Slash) = [before |-> id, found |-> TRUE, after |-> t]
    BY <1>1, <1>4, PartitionJoint
  <2> HIDE DEF owned
  <2>6. Partition(tail, Slash) = [before |-> h, found |-> TRUE, after |-> owned]
    BY <1>1, <2>1, <2>2, PartitionJoint
  <2> HIDE DEF tail
  <2>7. Partition(shown, SchemeSep) = [before |-> a, found |-> TRUE, after |-> tail]
    BY <1>1, <1>5, <2>2, PartitionJoint
  <2> HIDE DEF shown
  <2>8. split_uri(shown) = <<id, Joint(Joint(Joint(Joint(a, SchemeSep), h), Slash), t)>>
    BY <1>4, <2>5, <2>6, <2>7, UriRead
  <2> QED BY <2>3, <2>4, <2>8
<1>8. \/ host = [before |-> rest, found |-> FALSE, after |-> << >>] /\ Occurrences(rest, Slash) = {}
      \/ \E h, t \in Seq(S) :
            /\ host = [before |-> h, found |-> TRUE, after |-> t]
            /\ rest = Joint(h, Joint(Slash, t)) /\ Leads(h, Slash)
  BY <1>1, PartitionParts DEF Joint
<1> QED BY <1>6, <1>7, <1>8

-----------------------------------------------------------------------------
\* The filter chain.

\* Induction over the places of a sequence, for sets.
LEMMA Climbing ==
  ASSUME NEW N \in Nat, NEW T, 0 \in T, \A i \in 0 .. N - 1 : i \in T => i + 1 \in T
  PROVE  \A i \in 0 .. N : i \in T
<1> DEFINE Less == {p \in Nat \X Nat : p[1] < p[2]}
           missing == (0 .. N) \ T
<1>1. IsWellFoundedOn(Less, Nat)
  BY NatLessThanWellFounded DEF OpToRel
<1>2. ASSUME missing # {} PROVE FALSE
  <2>1. missing \subseteq Nat
    OBVIOUS
  <2>2. PICK x \in missing : \A y \in missing : <<y, x>> \notin Less
    <3> HIDE DEF Less, missing
    <3> QED BY <1>1, <1>2, <2>1, WFMin
  <2>3. x \in Nat /\ x # 0 /\ x - 1 \in 0 .. N - 1 /\ x - 1 \in Nat /\ x - 1 < x
    OBVIOUS
  <2>4. <<x - 1, x>> \in Less
    <3>1. <<x - 1, x>> \in Nat \X Nat /\ <<x - 1, x>>[1] = x - 1 /\ <<x - 1, x>>[2] = x
      BY <2>3
    <3> QED BY <2>3, <3>1
  <2>5. x - 1 \in T
    <3>1. x - 1 \in missing => FALSE
      <4> HIDE DEF Less, missing
      <4> QED BY <2>2, <2>4
    <3> QED BY <2>3, <3>1
  <2>6. (x - 1) + 1 = x /\ (x - 1) + 1 \in T
    BY <2>3, <2>5
  <2> QED BY <2>6
<1> QED BY <1>2

\* What chain_outcome's loop computes.
LEMMA ReducedSteps ==
  ASSUME NEW S, NEW vs \in Seq(S), NEW request
  PROVE  Reduced(vs, request) = [i \in 0 .. Len(vs) |->
           IF i = 0 THEN Decision("forward", request, FALSE) ELSE Reduce(Reduced(vs, request)[i - 1], vs[i])]
<1> DEFINE z == Decision("forward", request, FALSE)
           Def(f, N) == f = [i \in 0 .. N |-> IF i = 0 THEN z ELSE Reduce(f[i - 1], vs[i])]
           T == {N \in 0 .. Len(vs) : \E f : Def(f, N)}
<1>1. Len(vs) \in Nat
  OBVIOUS
<1> HIDE DEF z
<1>2. 0 \in T
  <2>1. Def([i \in 0 .. 0 |-> z], 0)
    OBVIOUS
  <2>2. \E h : Def(h, 0)
    BY <2>1
  <2> HIDE DEF Def
  <2> QED BY <1>1, <2>2
<1>3. ASSUME NEW N \in 0 .. Len(vs) - 1, N \in T PROVE N + 1 \in T
  <2>1. PICK f : Def(f, N)
    BY <1>3
  <2> DEFINE g == [i \in 0 .. N + 1 |-> IF i <= N THEN f[i] ELSE Reduce(f[i - 1], vs[i])]
  <2>2. Def(g, N + 1)
    <3>1. \A i \in 1 .. N + 1 : g[i - 1] = f[i - 1]
      OBVIOUS
    <3>2. \A i \in 0 .. N : f[i] = IF i = 0 THEN z ELSE Reduce(f[i - 1], vs[i])
      BY <2>1
    <3>3. \A i \in 0 .. N + 1 : i = 0 \/ i \in 1 .. N + 1
      OBVIOUS
    <3>4. \A i \in 0 .. N + 1 : g[i] = IF i = 0 THEN z ELSE Reduce(g[i - 1], vs[i])
      BY <3>1, <3>2, <3>3
    <3> HIDE DEF g
    <3>5. g = [i \in 0 .. N + 1 |-> g[i]]
      BY DEF g
    <3> QED BY <3>4, <3>5
  <2>3. \E h : Def(h, N + 1)
    BY <2>2
  <2>4. N + 1 \in 0 .. Len(vs)
    BY <1>1
  <2> HIDE DEF Def
  <2> QED BY <2>3, <2>4
<1>4. \A i \in 0 .. Len(vs) - 1 : i \in T => i + 1 \in T
  <2> HIDE DEF T
  <2> QED BY <1>3
<1>5. \A i \in 0 .. Len(vs) : i \in T
  <2> HIDE DEF T
  <2> QED BY <1>1, <1>2, <1>4, Climbing
<1>6. \E f : Def(f, Len(vs))
  <2>1. Len(vs) \in T
    <3> HIDE DEF T
    <3> QED BY <1>1, <1>5
  <2> HIDE DEF Def
  <2> QED BY <2>1
<1>7. Def(CHOOSE f : Def(f, Len(vs)), Len(vs))
  <2> HIDE DEF Def
  <2> QED BY <1>6
<1> QED BY <1>7 DEF Reduced, z

\* What the chain's loop computes.
LEMMA AskedSteps ==
  ASSUME NEW S, NEW fs \in Seq(S), NEW request
  PROVE  Asked(fs, request) = [i \in 0 .. Len(fs) |->
           IF i = 0 THEN [verdicts |-> << >>, message |-> request, ended |-> FALSE]
           ELSE Ask(fs[i], request, Asked(fs, request)[i - 1])]
<1> DEFINE z == [verdicts |-> << >>, message |-> request, ended |-> FALSE]
           Def(f, N) == f = [i \in 0 .. N |-> IF i = 0 THEN z ELSE Ask(fs[i], request, f[i - 1])]
           T == {N \in 0 .. Len(fs) : \E f : Def(f, N)}
<1>1. Len(fs) \in Nat
  OBVIOUS
<1> HIDE DEF z
<1>2. 0 \in T
  <2>1. Def([i \in 0 .. 0 |-> z], 0)
    OBVIOUS
  <2>2. \E h : Def(h, 0)
    BY <2>1
  <2> HIDE DEF Def
  <2> QED BY <1>1, <2>2
<1>3. ASSUME NEW N \in 0 .. Len(fs) - 1, N \in T PROVE N + 1 \in T
  <2>1. PICK f : Def(f, N)
    BY <1>3
  <2> DEFINE g == [i \in 0 .. N + 1 |-> IF i <= N THEN f[i] ELSE Ask(fs[i], request, f[i - 1])]
  <2>2. Def(g, N + 1)
    <3>1. \A i \in 1 .. N + 1 : g[i - 1] = f[i - 1]
      OBVIOUS
    <3>2. \A i \in 0 .. N : f[i] = IF i = 0 THEN z ELSE Ask(fs[i], request, f[i - 1])
      BY <2>1
    <3>3. \A i \in 0 .. N + 1 : i = 0 \/ i \in 1 .. N + 1
      OBVIOUS
    <3>4. \A i \in 0 .. N + 1 : g[i] = IF i = 0 THEN z ELSE Ask(fs[i], request, g[i - 1])
      BY <3>1, <3>2, <3>3
    <3> HIDE DEF g
    <3>5. g = [i \in 0 .. N + 1 |-> g[i]]
      BY DEF g
    <3> QED BY <3>4, <3>5
  <2>3. \E h : Def(h, N + 1)
    BY <2>2
  <2>4. N + 1 \in 0 .. Len(fs)
    BY <1>1
  <2> HIDE DEF Def
  <2> QED BY <2>3, <2>4
<1>4. \A i \in 0 .. Len(fs) - 1 : i \in T => i + 1 \in T
  <2> HIDE DEF T
  <2> QED BY <1>3
<1>5. \A i \in 0 .. Len(fs) : i \in T
  <2> HIDE DEF T
  <2> QED BY <1>1, <1>2, <1>4, Climbing
<1>6. \E f : Def(f, Len(fs))
  <2>1. Len(fs) \in T
    <3> HIDE DEF T
    <3> QED BY <1>1, <1>5
  <2> HIDE DEF Def
  <2> QED BY <2>1
<1>7. Def(CHOOSE f : Def(f, Len(fs)), Len(fs))
  <2> HIDE DEF Def
  <2> QED BY <1>6
<1> QED BY <1>7 DEF Asked, z

\* The outcome of one more verdict.
LEMMA OutcomeOf ==
  ASSUME NEW S, NEW vs \in Seq(S), NEW v \in S, NEW request
  PROVE  /\ chain_outcome(<< >>, request) = Decision("forward", request, FALSE)
         /\ chain_outcome(Append(vs, v), request) = Reduce(chain_outcome(vs, request), v)
<1> DEFINE f == Reduced(vs, request)
           ws == Append(vs, v)
           g == Reduced(ws, request)
           z == Decision("forward", request, FALSE)
           T == {i \in 0 .. Len(vs) : g[i] = f[i]}
<1>1. /\ Len(vs) \in Nat /\ ws \in Seq(S) /\ Len(ws) = Len(vs) + 1 /\ ws[Len(vs) + 1] = v
      /\ \A i \in 1 .. Len(vs) : ws[i] = vs[i]
  BY AppendProperties
<1> HIDE DEF z, ws
<1>2. f = [i \in 0 .. Len(vs) |-> IF i = 0 THEN z ELSE Reduce(f[i - 1], vs[i])]
  BY ReducedSteps DEF z
<1>3. g = [i \in 0 .. Len(ws) |-> IF i = 0 THEN z ELSE Reduce(g[i - 1], ws[i])]
  BY <1>1, ReducedSteps DEF z
<1> HIDE DEF f, g
<1>4. 0 \in T
  <2>1. 0 \in 0 .. Len(vs) /\ 0 \in 0 .. Len(ws)
    BY <1>1
  <2>2. f[0] = z
    BY <1>2, <2>1
  <2>3. g[0] = z
    BY <1>3, <2>1
  <2> QED BY <2>1, <2>2, <2>3
<1>5. ASSUME NEW i \in 0 .. Len(vs) - 1, i \in T PROVE i + 1 \in T
  <2>1. g[i] = f[i] /\ i + 1 \in 1 .. Len(vs) /\ i + 1 \in 0 .. Len(vs) /\ i + 1 \in 0 .. Len(ws)
        /\ i + 1 # 0 /\ (i + 1) - 1 = i
    BY <1>1, <1>5
  <2>2. g[i + 1] = Reduce(g[i], ws[i + 1]) /\ f[i + 1] = Reduce(f[i], vs[i + 1])
    BY <1>2, <1>3, <2>1
  <2> QED BY <1>1, <2>1, <2>2
<1>6. \A i \in 0 .. Len(vs) : i \in T
  <2> HIDE DEF T
  <2> QED BY <1>1, <1>4, <1>5, Climbing
<1>7. g[Len(vs)] = f[Len(vs)]
  BY <1>1, <1>6
<1>8. g[Len(ws)] = Reduce(g[Len(vs)], v)
  BY <1>1, <1>3
<1>9. chain_outcome(<< >>, request) = z
  <2> DEFINE e == << >>
             h == Reduced(e, request)
  <2>1. e \in Seq(S) /\ Len(e) = 0
    OBVIOUS
  <2> HIDE DEF e
  <2>2. h = [i \in 0 .. Len(e) |-> IF i = 0 THEN z ELSE Reduce(h[i - 1], e[i])]
    <3> DEFINE Steps(q) == Reduced(q, request) =
                 [i \in 0 .. Len(q) |-> IF i = 0 THEN z ELSE Reduce(Reduced(q, request)[i - 1], q[i])]
    <3>1. \A q \in Seq(S) : Steps(q)
      BY ReducedSteps DEF z
    <3> HIDE DEF Steps
    <3>2. Steps(e)
      BY <2>1, <3>1
    <3> QED BY <3>2 DEF Steps
  <2> HIDE DEF h
  <2>3. h[0] = z
    BY <2>1, <2>2
  <2> QED BY <2>1, <2>3 DEF chain_outcome, h, e
<1> QED BY <1>7, <1>8, <1>9 DEF chain_outcome, f, g, ws, z

\* What the filters asked so far made of the request: while none has ended the
\* chain, the outcome of their verdicts is to forward the message they shaped.
Sound(r, request) ==
  /\ r = [verdicts |-> r.verdicts, message |-> r.message, ended |-> r.ended]
  /\ IsSeq(r.verdicts) /\ r.ended \in BOOLEAN
  /\ chain_outcome(r.verdicts, request).action = IF r.ended THEN "block" ELSE "forward"
  /\ ~r.ended => chain_outcome(r.verdicts, request).message = r.message

\* One filter more.
Walks(filter, request, r, next) ==
  ~next.ended =>
    /\ ~r.ended
    /\ IF interested(filter, request) THEN Passes(filter, r.message, next.message)
       ELSE next.message = r.message

LEMMA AskSound ==
  ASSUME NEW filter, NEW request, NEW r, Sound(r, request)
  PROVE  Sound(Ask(filter, request, r), request) /\ Walks(filter, request, r, Ask(filter, request, r))
<1> DEFINE v == Verdict(filter, r.message)
           o == chain_outcome(r.verdicts, request)
           n == Ask(filter, request, r)
<1>1. CASE r.ended \/ ~interested(filter, request)
  <2>1. n = r
    BY <1>1 DEF Ask
  <2>2. Walks(filter, request, r, r)
    BY <1>1 DEF Walks
  <2> HIDE DEF n
  <2> QED BY <2>1, <2>2 DEF n
<1>2. CASE ~r.ended /\ interested(filter, request)
  <2>1. n = [verdicts |-> Append(r.verdicts, v),
             message  |-> IF Terminal(v) THEN r.message ELSE ApplyOne(v, r.message),
             ended    |-> Terminal(v)]
    BY <1>2 DEF Ask
  <2>2. o.action = "forward" /\ o.message = r.message
    BY <1>2 DEF Sound
  <2> HIDE DEF v, n
  <2>3. IsSeq(Append(r.verdicts, v)) /\ chain_outcome(Append(r.verdicts, v), request) = Reduce(o, v)
    <3> DEFINE S == Elems(r.verdicts) \cup {v}
    <3>1. r.verdicts \in Seq(S) /\ v \in S
      BY Widened DEF Sound, IsSeq
    <3>2. IsSeq(Append(r.verdicts, v))
      <4> HIDE DEF S
      <4> QED BY <3>1, Listed, AppendProperties DEF IsSeq
    <3> HIDE DEF S
    <3> QED BY <3>1, <3>2, OutcomeOf
  <2> HIDE DEF o
  <2>4. Reduce(o, v).action = (IF Terminal(v) THEN "block" ELSE "forward")
        /\ (~Terminal(v) => Reduce(o, v).message = ApplyOne(v, r.message))
    BY <2>2 DEF Reduce, Decision
  <2>5. Terminal(v) \in BOOLEAN
    BY DEF Terminal
  <2>6. /\ n.verdicts = Append(r.verdicts, v) /\ n.ended = Terminal(v)
        /\ (~Terminal(v) => n.message = ApplyOne(v, r.message))
        /\ n = [verdicts |-> n.verdicts, message |-> n.message, ended |-> n.ended]
    BY <2>1
  <2>7. Sound(n, request)
    BY <2>3, <2>4, <2>5, <2>6 DEF Sound
  <2>8. Walks(filter, request, r, n)
    BY <1>2, <2>6 DEF Walks, Passes, v
  <2> QED BY <2>7, <2>8 DEF n
<1>3. r.ended \in BOOLEAN
  BY DEF Sound
<1> QED BY <1>1, <1>2, <1>3

LEMMA AskedSound ==
  ASSUME NEW S, NEW fs \in Seq(S), NEW request
  PROVE  /\ \A i \in 0 .. Len(fs) : Sound(Asked(fs, request)[i], request)
         /\ \A i \in 1 .. Len(fs) : Walks(fs[i], request, Asked(fs, request)[i - 1], Asked(fs, request)[i])
         /\ Asked(fs, request)[0].message = request
<1> DEFINE z == [verdicts |-> << >>, message |-> request, ended |-> FALSE]
           f == Asked(fs, request)
           T == {i \in 0 .. Len(fs) : Sound(f[i], request)}
<1>1. Len(fs) \in Nat
  OBVIOUS
<1>2. f = [i \in 0 .. Len(fs) |-> IF i = 0 THEN z ELSE Ask(fs[i], request, f[i - 1])]
  BY AskedSteps
<1> HIDE DEF z, f
<1>3. f[0] = z
  BY <1>1, <1>2
<1>4. \A i \in 1 .. Len(fs) : f[i] = Ask(fs[i], request, f[i - 1])
  BY <1>1, <1>2
<1>5. Sound(z, request)
  <2>1. chain_outcome(<< >>, request) = Decision("forward", request, FALSE)
    <3>1. << >> \in Seq({1}) /\ 1 \in {1}
      OBVIOUS
    <3> QED BY <3>1, OutcomeOf
  <2>2. z = [verdicts |-> << >>, message |-> request, ended |-> FALSE]
    BY DEF z
  <2>3. z.verdicts = << >> /\ z.message = request /\ z.ended = FALSE
        /\ z = [verdicts |-> z.verdicts, message |-> z.message, ended |-> z.ended]
    BY <2>2
  <2>4. IsSeq(<< >>)
    BY DEF IsSeq, Elems
  <2>5. chain_outcome(z.verdicts, request).action = "forward" /\ chain_outcome(z.verdicts, request).message = request
    BY <2>1, <2>3 DEF Decision
  <2> QED BY <2>3, <2>4, <2>5 DEF Sound
<1>6. 0 \in T
  BY <1>1, <1>3, <1>5
<1>7. ASSUME NEW i \in 0 .. Len(fs) - 1, i \in T PROVE i + 1 \in T
  <2>1. i + 1 \in 1 .. Len(fs) /\ i + 1 \in 0 .. Len(fs) /\ (i + 1) - 1 = i
    BY <1>1
  <2>2. f[i + 1] = Ask(fs[i + 1], request, f[i])
    BY <1>4, <2>1
  <2>3. Sound(f[i], request)
    BY <1>7
  <2>4. Sound(f[i + 1], request)
    BY <2>2, <2>3, AskSound
  <2> QED BY <2>1, <2>4
<1>8. \A i \in 0 .. Len(fs) : Sound(f[i], request)
  <2>1. \A i \in 0 .. Len(fs) : i \in T
    <3> HIDE DEF T
    <3> QED BY <1>1, <1>6, <1>7, Climbing
  <2> QED BY <2>1
<1>9. ASSUME NEW i \in 1 .. Len(fs) PROVE Walks(fs[i], request, f[i - 1], f[i])
  <2>1. i - 1 \in 0 .. Len(fs)
    BY <1>1
  <2>2. Sound(f[i - 1], request) /\ f[i] = Ask(fs[i], request, f[i - 1])
    BY <1>4, <1>8, <2>1
  <2> QED BY <2>2, AskSound
<1>10. f[0].message = request
  BY <1>3 DEF z
<1> QED BY <1>8, <1>9, <1>10 DEF f

\* Messages stay what filters may make of a request.
LEMMA PassTyped ==
  ASSUME NEW request, NEW filter \in Filters, NEW message \in Stages(request), NEW next,
         Passes(filter, message, next)
  PROVE  next \in Stages(request)
<1> DEFINE v == Verdict(filter, message)
<1>1. message.arguments \in Arguments
  BY DEF Stages
<1>2. filter.evaluate \in [Arguments -> Verdicts]
  BY DEF Filters
<1>3. filter.evaluate[message.arguments] \in Verdicts
  BY <1>1, <1>2
<1>4. v.kind = "mutate" => v.arguments \in Arguments
  BY <1>3 DEF Verdict, Verdicts, Raises, resolve_failure
<1>5. v.kind = "annotate" => v.provenance \subseteq Marks
  BY <1>3 DEF Verdict, Verdicts, Raises, resolve_failure
<1>6. next = ApplyOne(v, message)
  BY DEF Passes
<1> HIDE DEF v
<1>7. message = [method |-> request.method, tool |-> request.tool,
                 arguments |-> message.arguments, meta |-> message.meta]
      /\ message.meta \in SUBSET Marks
  BY DEF Stages
<1>8. CASE v.kind = "mutate"
  <2>1. next = [message EXCEPT !.arguments = v.arguments]
    BY <1>6, <1>8 DEF ApplyOne
  <2>2. next = [method |-> request.method, tool |-> request.tool,
                arguments |-> v.arguments, meta |-> message.meta]
    BY <1>7, <2>1
  <2> QED BY <1>4, <1>7, <1>8, <2>2 DEF Stages
<1>9. CASE v.kind # "mutate" /\ v.kind = "annotate"
  <2> DEFINE marks == message.meta \cup v.provenance
  <2>1. next = [message EXCEPT !.meta = marks]
    BY <1>6, <1>9 DEF ApplyOne
  <2>2. marks \in SUBSET Marks
    BY <1>5, <1>7, <1>9
  <2> HIDE DEF marks
  <2>3. next = [method |-> request.method, tool |-> request.tool, arguments |-> message.arguments, meta |-> marks]
    BY <1>7, <2>1
  <2> QED BY <1>1, <2>2, <2>3 DEF Stages
<1>10. CASE v.kind # "mutate" /\ v.kind # "annotate"
  BY <1>6, <1>10 DEF ApplyOne
<1> QED BY <1>8, <1>9, <1>10

\* The stages of a message that the chain scanned and let pass.
Scans(fs, request, message, stage) ==
  /\ stage[1] = request /\ stage[Len(fs) + 1] = message
  /\ \A i \in 1 .. Len(fs) :
       IF interested(fs[i], request) THEN Passes(fs[i], stage[i], stage[i + 1])
       ELSE stage[i + 1] = stage[i]

\* A message is forwarded only as each filter, in the order of the chain, let it
\* pass and shaped it (FilterChain.run, chain_outcome).
THEOREM ForwardedAsScanned ==
  ASSUME NEW fs \in Seq(Filters), NEW request, request \in Stages(request), run(fs, request).action = "forward"
  PROVE  \E stage \in [1 .. (Len(fs) + 1) -> Stages(request)] :
           Scans(fs, request, run(fs, request).message, stage)
<1> DEFINE f == Asked(fs, request)
           N == Len(fs)
           T == {j \in 0 .. N : ~f[j].ended =>
                  \A i \in 0 .. j : ~f[i].ended /\ f[i].message \in Stages(request)}
           stage == [k \in 1 .. N + 1 |-> f[k - 1].message]
<1>1. N \in Nat /\ N \in 0 .. N /\ \A i \in 1 .. N : fs[i] \in Filters
  OBVIOUS
<1>2. /\ \A i \in 0 .. N : Sound(f[i], request)
      /\ \A i \in 1 .. N : Walks(fs[i], request, f[i - 1], f[i])
      /\ f[0].message = request
  BY AskedSound
<1>3. run(fs, request) = chain_outcome(f[N].verdicts, request)
  BY DEF run
<1> HIDE DEF f, N
<1>4. ~f[N].ended /\ run(fs, request).message = f[N].message
  <2>1. Sound(f[N], request)
    BY <1>1, <1>2
  <2> QED BY <1>3, <2>1 DEF Sound
<1>5. 0 \in T
  <2>1. \A i \in 0 .. 0 : i = 0
    OBVIOUS
  <2> QED BY <1>1, <1>2, <2>1
<1>6. ASSUME NEW j \in 0 .. N - 1, j \in T PROVE j + 1 \in T
  <2>1. j + 1 \in 1 .. N /\ j + 1 \in 0 .. N /\ (j + 1) - 1 = j /\ j \in 0 .. j
        /\ \A i \in 0 .. j + 1 : i \in 0 .. j \/ i = j + 1
    BY <1>1
  <2>2. SUFFICES ASSUME ~f[j + 1].ended
                 PROVE  \A i \in 0 .. j + 1 : ~f[i].ended /\ f[i].message \in Stages(request)
    BY <2>1
  <2>3. Walks(fs[j + 1], request, f[j], f[j + 1])
    BY <1>2, <2>1
  <2>4. ~f[j].ended /\ (IF interested(fs[j + 1], request) THEN Passes(fs[j + 1], f[j].message, f[j + 1].message)
                        ELSE f[j + 1].message = f[j].message)
    BY <2>2, <2>3 DEF Walks
  <2>5. \A i \in 0 .. j : ~f[i].ended /\ f[i].message \in Stages(request)
    BY <1>6, <2>4
  <2>6. f[j].message \in Stages(request) /\ fs[j + 1] \in Filters
    BY <1>1, <2>1, <2>5
  <2>7. f[j + 1].message \in Stages(request)
    BY <2>4, <2>6, PassTyped
  <2> QED BY <2>1, <2>2, <2>5, <2>7
<1>7. \A i \in 0 .. N : ~f[i].ended /\ f[i].message \in Stages(request)
  <2>1. N \in T
    <3>1. \A i \in 0 .. N : i \in T
      <4> HIDE DEF T
      <4> QED BY <1>1, <1>5, <1>6, Climbing
    <3> HIDE DEF T
    <3> QED BY <1>1, <3>1
  <2> QED BY <1>4, <2>1
<1>8. stage \in [1 .. N + 1 -> Stages(request)]
  <2>1. \A k \in 1 .. N + 1 : k - 1 \in 0 .. N
    BY <1>1
  <2> QED BY <1>7, <2>1
<1>9. stage[1] = request /\ stage[N + 1] = run(fs, request).message
  <2>1. 1 \in 1 .. N + 1 /\ N + 1 \in 1 .. N + 1 /\ 1 - 1 = 0 /\ (N + 1) - 1 = N
    BY <1>1
  <2> QED BY <1>2, <1>4, <2>1
<1>10. ASSUME NEW i \in 1 .. N
       PROVE  IF interested(fs[i], request) THEN Passes(fs[i], stage[i], stage[i + 1])
              ELSE stage[i + 1] = stage[i]
  <2>1. i \in 1 .. N + 1 /\ i + 1 \in 1 .. N + 1 /\ (i + 1) - 1 = i /\ i \in 0 .. N
    BY <1>1
  <2>2. stage[i] = f[i - 1].message /\ stage[i + 1] = f[i].message
    BY <2>1
  <2>3. ~f[i].ended /\ Walks(fs[i], request, f[i - 1], f[i])
    BY <1>2, <1>7, <2>1
  <2> HIDE DEF stage
  <2> QED BY <2>2, <2>3 DEF Walks
<1>11. Scans(fs, request, run(fs, request).message, stage)
  <2> HIDE DEF stage
  <2> QED BY <1>9, <1>10 DEF Scans, N
<1> HIDE DEF stage
<1> QED BY <1>8, <1>11 DEF N

\* The request passed the filters, and message is what they made of it.
Cleared(req, message) ==
    /\ req.of \in Stages(req.of)
    /\ run(chain, req.of).action = "forward" /\ message = run(chain, req.of).message

ScanInv ==
    /\ \A s \in served : s.req.kind \in {"call", "local", "pooled"} => Cleared(s.req, s.message)
    /\ \A req \in spawned : req.of \in Stages(req.of)

LEMMA RequestTyped ==
  ASSUME NEW b, NEW a \in Arguments
  PROVE  Request(b, a) \in Stages(Request(b, a))
<1>1. Request(b, a).method = ToolsCall /\ Request(b, a).tool = b
  BY DEF Request
<1>2. {} \in SUBSET Marks
  OBVIOUS
<1> HIDE DEF ToolsCall
<1> QED BY <1>1, <1>2 DEF Request, Stages

\* One more is served, and nothing else is spawned.
LEMMA ScanServed ==
  ASSUME ScanInv, UNCHANGED chain, NEW s, served' \in {served, served \cup {s}},
         s.req.kind \in {"call", "local", "pooled"} => Cleared(s.req, s.message), spawned' \subseteq spawned
  PROVE  ScanInv'
<1>1. \A req, message : Cleared(req, message) => Cleared(req, message)'
  BY DEF Cleared
<1>2. \A t \in served' : t \in served \/ t = s
  OBVIOUS
<1> QED BY <1>1, <1>2 DEF ScanInv

LEMMA ScanQuiet ==
  ASSUME ScanInv, UNCHANGED <<chain, served>>, spawned' \subseteq spawned
  PROVE  ScanInv'
<1>1. \A req, message : Cleared(req, message) => Cleared(req, message)'
  BY DEF Cleared
<1> QED BY <1>1 DEF ScanInv

LEMMA ScanHandled ==
  ASSUME ScanInv, UNCHANGED chain, NEW req, req.of \in Stages(req.of), Handled(req), spawned' \subseteq spawned
  PROVE  ScanInv'
<1> DEFINE s == [req |-> req, to |-> req.of.tool, original |-> None, message |-> run(chain, req.of).message]
<1>1. served' = served \cup {s} /\ run(chain, req.of).action = "forward"
  BY DEF Handled
<1>2. s.req = req /\ s.message = run(chain, req.of).message
  OBVIOUS
<1> HIDE DEF s
<1>3. Cleared(s.req, s.message)
  BY <1>1, <1>2 DEF Cleared
<1> QED BY <1>1, <1>3, ScanServed

LEMMA ScanForward ==
  ASSUME ScanInv, UNCHANGED <<chain, spawned>>, NEW req, NEW b, NEW original, NEW message,
         Forward(req, b, original, message),
         req.kind \in {"call", "local", "pooled"} => Cleared(req, message)
  PROVE  ScanInv'
<1> DEFINE s == [req |-> req, to |-> b, original |-> original, message |-> message]
<1>1. served' = served \cup {s}
  BY DEF Forward
<1>2. s.req = req /\ s.message = message
  OBVIOUS
<1> HIDE DEF s
<1> QED BY <1>1, <1>2, ScanServed

LEMMA ScanHolds ==
  ASSUME ScanInv, Next
  PROVE  ScanInv'
<1>1. UNCHANGED chain
  BY RouterKept DEF router
<1>2. ASSUME NEW b \in Backends, NEW a \in Arguments, CallBlocked(b, a) \/ CallRefused(b, a)
      PROVE  ScanInv'
  BY <1>1, <1>2, ScanQuiet DEF CallBlocked, CallRefused, Refuse, own
<1>3. ASSUME NEW b \in Backends, NEW a \in Arguments, CallForwarded(b, a)
      PROVE  ScanInv'
  <2> DEFINE req == [n |-> requests, kind |-> "call", of |-> Request(b, a)]
             message == run(chain, Request(b, a)).message
  <2>1. run(chain, Request(b, a)).action = "forward" /\ Forward(req, b, None, message) /\ UNCHANGED spawned
    BY <1>3 DEF CallForwarded, own
  <2>2. req.of = Request(b, a)
    OBVIOUS
  <2>3. Request(b, a) \in Stages(Request(b, a))
    BY RequestTyped
  <2> HIDE DEF req
  <2>4. Cleared(req, message)
    BY <2>1, <2>2, <2>3 DEF Cleared
  <2> HIDE DEF message
  <2> QED BY <1>1, <2>1, <2>4, ScanForward
<1>4. ASSUME NEW h \in Handlers, NEW a \in Arguments, LocalCall(h, a)
      PROVE  ScanInv'
  <2> DEFINE req == [n |-> requests, kind |-> "local", of |-> Request(h, a)]
  <2>1. Handled(req) \/ UNCHANGED served
    BY <1>4 DEF LocalCall
  <2>2. UNCHANGED spawned
    BY <1>4 DEF LocalCall
  <2>3. req.of \in Stages(req.of)
    <3>1. req.of = Request(h, a)
      OBVIOUS
    <3> HIDE DEF req
    <3> QED BY <3>1, RequestTyped
  <2> HIDE DEF req
  <2> QED BY <1>1, <2>1, <2>2, <2>3, ScanHandled, ScanQuiet
<1>5. ASSUME NEW h \in Handlers, NEW a \in Arguments, Spawn(h, a)
      PROVE  ScanInv'
  <2> DEFINE req == [n |-> requests, kind |-> "pooled", of |-> Request(h, a)]
  <2>1. spawned' = spawned \cup {req} /\ UNCHANGED served
    BY <1>5 DEF Spawn
  <2>2. req.of = Request(h, a)
    OBVIOUS
  <2> HIDE DEF req
  <2>3. req.of \in Stages(req.of)
    BY <2>2, RequestTyped
  <2>4. \A r, message : Cleared(r, message) => Cleared(r, message)'
    BY <1>1 DEF Cleared
  <2> QED BY <2>1, <2>3, <2>4 DEF ScanInv
<1>6. ASSUME NEW req \in spawned, PooledStarts(req)
      PROVE  ScanInv'
  <2>1. Handled(req) \/ UNCHANGED served
    BY <1>6 DEF PooledStarts
  <2>2. spawned' \subseteq spawned
    BY <1>6 DEF PooledStarts
  <2>3. req.of \in Stages(req.of)
    BY DEF ScanInv
  <2> QED BY <1>1, <2>1, <2>2, <2>3, ScanHandled, ScanQuiet
<1>7. ASSUME NEW id, RouteTask(id)
      PROVE  ScanInv'
  <2> DEFINE req == [n |-> requests, kind |-> "task", of |-> id]
             r == split(id)
  <2>1. Forward(req, r[1], r[2], None) \/ UNCHANGED served
    BY <1>7 DEF RouteTask, Refuse
  <2>2. UNCHANGED spawned
    BY <1>7 DEF RouteTask, own
  <2>3. req.kind = "task"
    OBVIOUS
  <2> HIDE DEF req, r
  <2> QED BY <1>1, <2>1, <2>2, <2>3, ScanForward, ScanQuiet
<1>8. ASSUME NEW k \in {"subscribe", "unsubscribe"}, NEW b, NEW u, RouteSubscription(k, b, u)
      PROVE  ScanInv'
  <2> DEFINE req == [n |-> requests, kind |-> k, of |-> <<b, u>>]
  <2>1. Forward(req, b, u, None) \/ UNCHANGED served
    BY <1>8 DEF RouteSubscription, Refuse
  <2>2. UNCHANGED spawned
    BY <1>8 DEF RouteSubscription, own
  <2>3. req.kind \notin {"call", "local", "pooled"}
    OBVIOUS
  <2> HIDE DEF req
  <2> QED BY <1>1, <2>1, <2>2, <2>3, ScanForward, ScanQuiet
<1>9. ASSUME NEW k, NEW u, LocalSubscription(k, u)
      PROVE  ScanInv'
  BY <1>1, <1>9, ScanQuiet DEF LocalSubscription, own
<1>10. ASSUME CallRaises \/ Write
       PROVE  ScanInv'
  BY <1>1, <1>10, ScanQuiet DEF CallRaises, Write, own
<1>11. ASSUME NEW req, HandlerRaises(req) \/ (\E fits \in BOOLEAN : HandlerReturns(req, fits))
       PROVE  ScanInv'
  BY <1>1, <1>11, ScanQuiet DEF HandlerRaises, HandlerReturns
<1>12. ASSUME NEW b, NEW u, Publish(u) \/ ReadAnswer(b) \/ RelayUpdate(b) \/ SinkUpdate(b) \/ BackendUpdates(b, u)
       PROVE  ScanInv'
  BY <1>1, <1>12, ScanQuiet DEF Publish, ReadAnswer, RelayUpdate, SinkUpdate, BackendUpdates, own
<1>13. ASSUME NEW b, NEW ok, NEW t, BackendAnswers(b, ok, t)
       PROVE  ScanInv'
  BY <1>1, <1>13, ScanQuiet DEF BackendAnswers, own
<1> QED BY <1>2, <1>3, <1>4, <1>5, <1>6, <1>7, <1>8, <1>9, <1>10, <1>11, <1>12, <1>13 DEF Next, LoopStep

-----------------------------------------------------------------------------
LEMMA Initially ==
  ASSUME Init
  PROVE  IndInv
<1>1. \A S : << >> \in Seq(S)
  OBVIOUS
<1>2. IsSeq(<< >>) /\ Elems(<< >>) = {} /\ Len(<< >>) = 0 /\ DOMAIN << >> = {}
  <2>1. Len(<< >>) = 0 /\ DOMAIN << >> = {}
    OBVIOUS
  <2> QED BY <1>1, <2>1 DEF IsSeq, Elems
<1> HIDE DEF IsSeq, Elems
<1>3. /\ requests = 0 /\ updates = 0 /\ lock = << >> /\ log = << >> /\ head = Genesis /\ spawned = {} /\ work = {}
      /\ handles = {} /\ served = {} /\ local = {} /\ loop.pc = "reading"
      /\ \A b \in Backends : toBack[b] = << >> /\ fromBack[b] = << >> /\ remote[b] = {}
  BY DEF Init, Idle
<1>4. TypeOK
  BY CallPathAssumption DEF Init, TypeOK, Idle
<1>5. ShapeInv
  <2>1. toBack = [b \in Backends |-> toBack[b]] /\ fromBack = [b \in Backends |-> fromBack[b]]
    BY DEF Init
  <2> QED BY <1>2, <1>3, <2>1 DEF ShapeInv, Queues
<1>6. LoopInv
  BY <1>2, <1>3 DEF LoopInv
<1>7. LogInv
  BY <1>2, <1>3 DEF LogInv
<1>8. ChainInv
  BY <1>2, <1>3 DEF ChainInv, Verifies
<1>9. RouteInv
  BY <1>2, <1>3 DEF RouteInv
<1>10. UpdateInv
  <2>1. LockInv
    BY <1>2, <1>3 DEF LockInv
  <2>2. \A b \in Backends, u \in Uris : ~Live(b, u)
    BY <1>2, <1>3 DEF Live
  <2>3. WantInv
    BY <1>3, <2>2 DEF WantInv
  <2>4. TurnInv
    BY <1>2, <1>3 DEF TurnInv
  <2> QED BY <2>1, <2>3, <2>4 DEF UpdateInv
<1> QED BY <1>4, <1>5, <1>6, <1>7, <1>8, <1>9, <1>10 DEF IndInv

LEMMA Stuttering ==
  ASSUME IndInv, UNCHANGED vars
  PROVE  IndInv'
<1>1. /\ UNCHANGED <<loop, toBack, fromBack, readers, lock, log, head, local, remote, expects, handles>>
      /\ UNCHANGED <<served, requests, updates, chain, pooled, sink, spawned, work>>
  BY DEF vars, router, own
<1>2. TypeOK'
  BY <1>1 DEF IndInv, TypeOK
<1>3. ShapeInv'
  <2>1. Queues(toBack') /\ Queues(fromBack') /\ requests' \in Nat
    <3> HIDE DEF Queues
    <3> QED BY <1>1, Moved DEF IndInv, ShapeInv
  <2>2. IsSeq(lock') /\ IsSeq(log')
    <3> HIDE DEF IsSeq
    <3> QED BY <1>1 DEF IndInv, ShapeInv
  <2> QED BY <2>1, <2>2 DEF ShapeInv, IsSeq, Queues, Elems
<1>4. LoopInv'
  BY <1>1 DEF IndInv, LoopInv, Known, Elems, LoopAnswer
<1>5. Resilient => LogInv'
  BY <1>1, LogQuiet DEF IndInv, LoopInv, Pending
<1>6. ChainInv'
  BY <1>1 DEF IndInv, ChainInv, Verifies
<1>7. RouteInv'
  BY <1>1, RouteQuiet DEF IndInv
<1>8. TurnInv'
  BY <1>1, TurnSame DEF IndInv, UpdateInv
<1>9. Wants'
  BY <1>1, WantQuiet, LiveSame DEF IndInv, UpdateInv
<1> QED BY <1>2, <1>3, <1>4, <1>5, <1>6, <1>7, <1>8, <1>9 DEF IndInv, UpdateInv, Wants

\* The invariant of every run of the router, whatever its configuration.
THEOREM Invariance == Spec => []IndInv
<1>1. IndInv /\ [Next]_vars => IndInv'
  <2>1. SUFFICES ASSUME IndInv, Next PROVE IndInv'
    BY Stuttering
  <2>2. TypeOK /\ ShapeInv /\ LoopInv /\ ChainInv /\ RouteInv /\ UpdateInv /\ TurnInv /\ (Resilient => LogInv)
    BY <2>1 DEF IndInv, UpdateInv
  <2>3. LoopInv' /\ IsSeq(lock)'
    BY <2>1, <2>2, LoopHolds DEF Base
  <2>4. ShapeInv'
    BY <2>1, <2>2, <2>3, ShapeHolds
  <2>5. TypeOK'
    BY <2>1, <2>2, TypeHolds
  <2>6. ChainInv'
    BY <2>1, <2>2, ChainHolds
  <2>7. RouteInv'
    BY <2>1, <2>2, RouteHolds
  <2>8. Resilient => LogInv'
    BY <2>1, <2>2, LogHolds
  <2>9. TurnInv' /\ Wants'
    BY <2>1, <2>2, TurnHolds, WantHolds
  <2> QED BY <2>3, <2>4, <2>5, <2>6, <2>7, <2>8, <2>9 DEF IndInv, UpdateInv, Wants
<1> QED BY <1>1, Initially, PTL DEF Spec

\* Every variable that TypeOK speaks of keeps to its type: calls of handlers
\* name handlers, subscriptions name resources, the counters keep to their
\* bounds, in whatever order requests, answers and updates come.
THEOREM TypeCorrect == Spec => []TypeOK
<1>1. IndInv => TypeOK
  BY DEF IndInv
<1> QED BY <1>1, Invariance, PTL

\* In a router that answers a failed call (Resilient), every attestation in the
\* log has one outcome, after it, or is of the call under way, for any filters,
\* backends, local handlers and number of requests.  A strict router ends with
\* the exception of a call, between its attestation and its outcome.
THEOREM CallsAccountedFor ==
  ASSUME Resilient
  PROVE  Spec => []AttestationsPaired
<1>1. IndInv => AttestationsPaired
  BY LogPairs DEF IndInv
<1> QED BY <1>1, Invariance, PTL

\* The log that AuditLog.append builds is one that AuditLog.verify accepts,
\* whoever writes in it: the loop, or the tasks of pooled calls beside it.
THEOREM ChainUnbroken == Spec => []LogVerifies
<1>1. IndInv => LogVerifies
  BY DEF IndInv, ChainInv, LogVerifies
<1> QED BY <1>1, Invariance, PTL

\* A task's handle leads back to the backend that minted it, under the id it
\* minted, whatever that id is, if no backend's id ends in the delimiter's
\* character: valid_backend_id accepts one that does, and the first delimiter of
\* a name that it marks is then not the one that prefix put there.
THEOREM HandlesLeadHome ==
  ASSUME \A b \in Backends : valid_backend_id(b) /\ b[Len(b)] # Delimiter[1]
  PROVE  Spec => []HandlesRouteHome
<1>1. ASSUME IndInv PROVE HandlesRouteHome
  <2>1. SUFFICES ASSUME NEW s \in served, NEW h \in handles, s.req.kind = "task", s.req.of = h.id
                 PROVE  s.to = h.owner /\ s.original = h.original
    BY DEF HandlesRouteHome
  <2>2. split(s.req.of) = <<s.to, s.original>> /\ Minted(h)
    BY <1>1, <2>1 DEF IndInv, RouteInv, Minted
  <2>3. PlainId(h.owner)
    BY <2>2, CallPathAssumption, Widened DEF Minted, PlainId, Name, Characters, valid_backend_id
  <2>4. split(h.id) = <<h.owner, h.original>>
    BY <2>2, <2>3, PrefixSplit DEF Minted
  <2> QED BY <2>1, <2>2, <2>4
<1> QED BY <1>1, Invariance, PTL

\* No update of a resource is written to a client that has been told that it is
\* unsubscribed and has not subscribed again, nor to one that never did, whether
\* the router publishes it or a backend sends it; nor is one given to the sink
\* of the router's embedding then.
THEOREM NoUpdateAfterUnsubscribe == Spec => UpdatesOnlyWhileSubscribed
<1>1. ASSUME IndInv
      PROVE  lock # << >> /\ lock' = Tail(lock) /\ Head(lock).kind = "updated" => Head(lock).body \in expects
  <2>1. IsSeq(lock) /\ LockInv
    BY <1>1 DEF IndInv, ShapeInv, UpdateInv
  <2>2. lock # << >> => Head(lock) \in Elems(lock)
    BY <2>1, Shifted
  <2> QED BY <2>1, <2>2 DEF LockInv
<1>2. ASSUME IndInv, NEW b \in Backends, SinkUpdate(b)
      PROVE  <<b, Head(fromBack[b]).uri>> \in expects
  <2>1. Queues(fromBack) /\ RouteInv /\ WantInv
    BY <1>2 DEF IndInv, ShapeInv, UpdateInv
  <2>2. fromBack[b] # << >> /\ Head(fromBack[b]).kind = "updated"
    BY <1>2 DEF SinkUpdate
  <2>3. Head(fromBack[b]) \in Elems(fromBack[b])
    BY <2>1, <2>2, Shifted DEF Queues
  <2>4. Head(fromBack[b]).uri \in Uris /\ Live(b, Head(fromBack[b]).uri)
    BY <2>1, <2>2, <2>3 DEF RouteInv, Live
  <2> QED BY <2>1, <2>4 DEF WantInv, Wanted
<1>3. IndInv => /\ (lock # << >> /\ lock' = Tail(lock) /\ Head(lock).kind = "updated") => Head(lock).body \in expects
                /\ \A b \in Backends : SinkUpdate(b) => <<b, Head(fromBack[b]).uri>> \in expects
  BY <1>1, <1>2
<1> QED BY <1>3, Invariance, PTL DEF UpdatesOnlyWhileSubscribed

\* Whatever filters a router has, what a backend or a handler was given of a call
\* was let pass and shaped by each filter that is interested in the request, in
\* the order of the chain, and by nothing else: a mutation that one filter made
\* is what the next one scanned and what was sent.
THEOREM ServedAsScanned == Spec => []ScannedAsForwarded
<1>1. Init => ScanInv
  BY DEF Init, ScanInv
<1>2. ScanInv /\ [Next]_vars => ScanInv'
  <2>1. CASE Next
    BY <2>1, ScanHolds
  <2>2. CASE UNCHANGED vars
    BY <2>2, ScanQuiet DEF vars, router, own
  <2> QED BY <2>1, <2>2
<1>3. ASSUME ScanInv, TypeOK PROVE ScannedAsForwarded
  <2>1. SUFFICES ASSUME NEW s \in served, s.req.kind \in {"call", "local", "pooled"}
                 PROVE  \E stage \in [1 .. (Len(chain) + 1) -> Stages(s.req.of)] :
                          Scans(chain, s.req.of, s.message, stage)
    BY DEF ScannedAsForwarded, Scans
  <2>2. chain \in Seq(Filters)
    BY <1>3, ChainsAssumption DEF TypeOK
  <2>3. Cleared(s.req, s.message)
    BY <1>3, <2>1 DEF ScanInv
  <2> DEFINE request == s.req.of
  <2>4. request \in Stages(request) /\ run(chain, request).action = "forward" /\ s.message = run(chain, request).message
    BY <2>3 DEF Cleared
  <2> HIDE DEF request
  <2>5. \E stage \in [1 .. (Len(chain) + 1) -> Stages(request)] : Scans(chain, request, s.message, stage)
    BY <2>2, <2>4, ForwardedAsScanned
  <2> QED BY <2>5 DEF request
<1>4. ScanInv /\ TypeOK => ScannedAsForwarded
  BY <1>3
<1> QED BY <1>1, <1>2, <1>4, TypeCorrect, PTL DEF Spec

-----------------------------------------------------------------------------
\* Sifting.

\* What Sifted computes.
LEMMA SiftedSteps ==
  ASSUME NEW T, NEW s \in Seq(T), NEW S
  PROVE  Sifted(s, S) = [i \in 0 .. Len(s) |->
           IF i = 0 THEN << >>
           ELSE IF s[i] \in S THEN Append(Sifted(s, S)[i - 1], s[i]) ELSE Sifted(s, S)[i - 1]]
<1> DEFINE Def(f, N) == f = [i \in 0 .. N |->
              IF i = 0 THEN << >> ELSE IF s[i] \in S THEN Append(f[i - 1], s[i]) ELSE f[i - 1]]
           X == {N \in 0 .. Len(s) : \E f : Def(f, N)}
<1>1. Len(s) \in Nat
  OBVIOUS
<1>2. 0 \in X
  <2>1. Def([i \in 0 .. 0 |-> << >>], 0)
    OBVIOUS
  <2>2. \E h : Def(h, 0)
    BY <2>1
  <2> HIDE DEF Def
  <2> QED BY <1>1, <2>2
<1>3. ASSUME NEW N \in 0 .. Len(s) - 1, N \in X PROVE N + 1 \in X
  <2>1. PICK f : Def(f, N)
    BY <1>3
  <2> DEFINE g == [i \in 0 .. N + 1 |-> IF i <= N THEN f[i]
                     ELSE IF s[i] \in S THEN Append(f[i - 1], s[i]) ELSE f[i - 1]]
  <2>2. Def(g, N + 1)
    <3>1. \A i \in 1 .. N + 1 : g[i - 1] = f[i - 1]
      OBVIOUS
    <3>2. \A i \in 0 .. N : f[i] = IF i = 0 THEN << >> ELSE IF s[i] \in S THEN Append(f[i - 1], s[i]) ELSE f[i - 1]
      BY <2>1
    <3>3. \A i \in 0 .. N + 1 : i = 0 \/ i \in 1 .. N + 1
      OBVIOUS
    <3>4. \A i \in 0 .. N + 1 : g[i] = IF i = 0 THEN << >> ELSE IF s[i] \in S THEN Append(g[i - 1], s[i]) ELSE g[i - 1]
      BY <3>1, <3>2, <3>3
    <3> HIDE DEF g
    <3>5. g = [i \in 0 .. N + 1 |-> g[i]]
      BY DEF g
    <3> QED BY <3>4, <3>5
  <2>3. \E h : Def(h, N + 1)
    BY <2>2
  <2>4. N + 1 \in 0 .. Len(s)
    BY <1>1
  <2> HIDE DEF Def
  <2> QED BY <2>3, <2>4
<1>4. \A i \in 0 .. Len(s) - 1 : i \in X => i + 1 \in X
  <2> HIDE DEF X
  <2> QED BY <1>3
<1>5. \A i \in 0 .. Len(s) : i \in X
  <2> HIDE DEF X
  <2> QED BY <1>1, <1>2, <1>4, Climbing
<1>6. \E f : Def(f, Len(s))
  <2>1. Len(s) \in X
    <3> HIDE DEF X
    <3> QED BY <1>1, <1>5
  <2> HIDE DEF Def
  <2> QED BY <2>1
<1>7. Def(CHOOSE f : Def(f, Len(s)), Len(s))
  <2> HIDE DEF Def
  <2> QED BY <1>6
<1> QED BY <1>7 DEF Sifted

\* One step of it, and what its places hold.
LEMMA SiftedAt ==
  ASSUME NEW T, NEW s \in Seq(T), NEW S
  PROVE  /\ Len(s) \in Nat /\ Sifted(s, S)[0] = << >>
         /\ \A i \in 0 .. Len(s) - 1 :
              /\ i + 1 \in 1 .. Len(s) /\ s[i + 1] \in T
              /\ Sifted(s, S)[i + 1] =
                   IF s[i + 1] \in S THEN Append(Sifted(s, S)[i], s[i + 1]) ELSE Sifted(s, S)[i]
         /\ \A i \in 0 .. Len(s) : Sifted(s, S)[i] \in Seq(T)
<1> DEFINE f == Sifted(s, S)
           X == {i \in 0 .. Len(s) : f[i] \in Seq(T)}
<1>1. f = [i \in 0 .. Len(s) |-> IF i = 0 THEN << >> ELSE IF s[i] \in S THEN Append(f[i - 1], s[i]) ELSE f[i - 1]]
  BY SiftedSteps
<1> HIDE DEF f
<1>2. Len(s) \in Nat /\ \A i \in 1 .. Len(s) : s[i] \in T
  OBVIOUS
<1>3. f[0] = << >>
  BY <1>1, <1>2
<1>4. ASSUME NEW i \in 0 .. Len(s) - 1
      PROVE  /\ i + 1 \in 1 .. Len(s) /\ s[i + 1] \in T
             /\ f[i + 1] = IF s[i + 1] \in S THEN Append(f[i], s[i + 1]) ELSE f[i]
  <2>1. i + 1 \in 0 .. Len(s) /\ i + 1 # 0 /\ (i + 1) - 1 = i /\ i + 1 \in 1 .. Len(s)
    BY <1>2
  <2>2. ASSUME NEW n \in 0 .. Len(s), NEW m \in 0 .. Len(s), n # 0, n - 1 = m
        PROVE  f[n] = IF s[n] \in S THEN Append(f[m], s[n]) ELSE f[m]
    BY <1>1, <2>2
  <2>3. i \in 0 .. Len(s)
    BY <1>2
  <2>4. f[i + 1] = IF s[i + 1] \in S THEN Append(f[i], s[i + 1]) ELSE f[i]
    BY <2>1, <2>2, <2>3
  <2>5. s[i + 1] \in T
    BY <1>2, <2>1
  <2> QED BY <2>1, <2>4, <2>5
<1>5. 0 \in X
  <2>1. << >> \in Seq(T)
    OBVIOUS
  <2>2. f[0] \in Seq(T)
    BY <1>3, <2>1
  <2> QED BY <1>2, <2>2
<1>6. ASSUME NEW i \in 0 .. Len(s) - 1, i \in X PROVE i + 1 \in X
  <2>1. f[i] \in Seq(T) /\ i + 1 \in 0 .. Len(s) /\ s[i + 1] \in T
    BY <1>2, <1>4, <1>6
  <2>2. Append(f[i], s[i + 1]) \in Seq(T)
    BY <2>1, AppendProperties
  <2> QED BY <1>4, <2>1, <2>2
<1>7. \A i \in 0 .. Len(s) : i \in X
  <2> HIDE DEF X
  <2> QED BY <1>2, <1>5, <1>6, Climbing
<1> QED BY <1>2, <1>3, <1>4, <1>7 DEF f

LEMMA ElemsAppend ==
  ASSUME NEW T, NEW q \in Seq(T), NEW x \in T
  PROVE  ToSet(Append(q, x)) = ToSet(q) \cup {x}
<1> DEFINE a == Append(q, x)
<1>1. /\ Len(q) \in Nat /\ a \in Seq(T) /\ Len(a) = Len(q) + 1 /\ a[Len(q) + 1] = x
      /\ \A k \in 1 .. Len(q) : a[k] = q[k]
  BY AppendProperties
<1>2. DOMAIN a = 1 .. Len(q) + 1 /\ DOMAIN q = 1 .. Len(q)
  BY <1>1
<1> HIDE DEF a
<1>3. DOMAIN a = DOMAIN q \cup {Len(q) + 1}
  BY <1>1, <1>2
<1> QED BY <1>1, <1>2, <1>3 DEF ToSet, a

\* Two sequences sifted alike, at their first i places.
Alike(a, b, p, q, P, i) ==
    /\ Len(a) = Len(b)
    /\ \A k \in 1 .. Len(a) : \E j \in 1 .. i : a[k] = p[j] /\ b[k] = q[j] /\ p[j] \in P

LEMMA SiftedAlike ==
  ASSUME NEW T, NEW p \in Seq(T), NEW U, NEW q \in Seq(U), Len(p) = Len(q), NEW P, NEW Q,
         \A i \in 1 .. Len(p) : p[i] \in P <=> q[i] \in Q
  PROVE  \A i \in 0 .. Len(p) : Alike(Sifted(p, P)[i], Sifted(q, Q)[i], p, q, P, i)
<1> DEFINE f == Sifted(p, P)
           g == Sifted(q, Q)
<1>1. /\ Len(p) \in Nat /\ f[0] = << >>
      /\ \A i \in 0 .. Len(p) - 1 :
           /\ i + 1 \in 1 .. Len(p) /\ p[i + 1] \in T
           /\ f[i + 1] = IF p[i + 1] \in P THEN Append(f[i], p[i + 1]) ELSE f[i]
      /\ \A i \in 0 .. Len(p) : f[i] \in Seq(T)
  BY SiftedAt, SMTT(30)
<1>2. /\ g[0] = << >>
      /\ \A i \in 0 .. Len(p) - 1 :
           /\ q[i + 1] \in U
           /\ g[i + 1] = IF q[i + 1] \in Q THEN Append(g[i], q[i + 1]) ELSE g[i]
      /\ \A i \in 0 .. Len(p) : g[i] \in Seq(U)
  BY SiftedAt, SMTT(30)
<1> HIDE DEF f, g
<1> DEFINE X == {i \in 0 .. Len(p) : Alike(f[i], g[i], p, q, P, i)}
<1>3. 0 \in X
  BY <1>1, <1>2 DEF Alike
<1>4. ASSUME NEW i \in 0 .. Len(p) - 1, i \in X PROVE i + 1 \in X
  <2>1. /\ i \in 0 .. Len(p) /\ i + 1 \in 0 .. Len(p) /\ i + 1 \in 1 .. Len(p) /\ i \in Nat
        /\ \A j \in 1 .. i : j \in 1 .. i + 1
    BY <1>1
  <2>2. Alike(f[i], g[i], p, q, P, i) /\ f[i] \in Seq(T) /\ g[i] \in Seq(U) /\ p[i + 1] \in T /\ q[i + 1] \in U
    BY <1>1, <1>2, <1>4, <2>1
  <2>3. CASE p[i + 1] \notin P
    <3>1. f[i + 1] = f[i] /\ g[i + 1] = g[i]
      BY <1>1, <1>2, <2>1, <2>3
    <3>2. Alike(f[i + 1], g[i + 1], p, q, P, i + 1)
      BY <2>1, <2>2, <3>1 DEF Alike
    <3> QED BY <2>1, <3>2
  <2>4. CASE p[i + 1] \in P
    <3> DEFINE a == Append(f[i], p[i + 1])
               b == Append(g[i], q[i + 1])
    <3>1. f[i + 1] = a /\ g[i + 1] = b
      BY <1>1, <1>2, <2>1, <2>4
    <3>2. /\ Len(f[i]) \in Nat /\ Len(g[i]) = Len(f[i]) /\ Len(a) = Len(f[i]) + 1 /\ Len(b) = Len(f[i]) + 1
          /\ \A k \in 1 .. Len(f[i]) : a[k] = f[i][k] /\ b[k] = g[i][k]
          /\ a[Len(f[i]) + 1] = p[i + 1] /\ b[Len(f[i]) + 1] = q[i + 1]
      <4>1. Len(f[i]) \in Nat /\ Len(a) = Len(f[i]) + 1 /\ a[Len(f[i]) + 1] = p[i + 1]
            /\ \A k \in 1 .. Len(f[i]) : a[k] = f[i][k]
        BY <2>2, AppendProperties
      <4>2. Len(b) = Len(g[i]) + 1 /\ b[Len(g[i]) + 1] = q[i + 1] /\ \A k \in 1 .. Len(g[i]) : b[k] = g[i][k]
        BY <2>2, AppendProperties
      <4> HIDE DEF a, b
      <4>3. Len(g[i]) = Len(f[i])
        BY <2>2 DEF Alike
      <4> QED BY <4>1, <4>2, <4>3
    <3> HIDE DEF a, b
    <3>3. ASSUME NEW k \in 1 .. Len(a)
          PROVE  \E j \in 1 .. i + 1 : a[k] = p[j] /\ b[k] = q[j] /\ p[j] \in P
      <4>1. CASE k \in 1 .. Len(f[i])
        BY <2>1, <2>2, <3>2, <4>1 DEF Alike
      <4>2. CASE k = Len(f[i]) + 1
        BY <2>1, <2>4, <3>2, <4>2
      <4> QED BY <3>2, <4>1, <4>2
    <3>4. Alike(f[i + 1], g[i + 1], p, q, P, i + 1)
      BY <3>1, <3>2, <3>3 DEF Alike
    <3> QED BY <2>1, <3>4
  <2> QED BY <2>3, <2>4
<1>5. \A i \in 0 .. Len(p) : i \in X
  <2> HIDE DEF X
  <2> QED BY <1>1, <1>3, <1>4, Climbing
<1> QED BY <1>5 DEF f, g

\* The same of the whole of them.
SiftedTogether(p, q, P, Q) ==
  /\ Len(Sift(p, P)) = Len(Sift(q, Q))
  /\ \A k \in 1 .. Len(Sift(p, P)) :
       \E j \in 1 .. Len(p) : Sift(p, P)[k] = p[j] /\ Sift(q, Q)[k] = q[j] /\ p[j] \in P

LEMMA SiftAlike ==
  ASSUME NEW T, NEW p \in Seq(T), NEW U, NEW q \in Seq(U), Len(p) = Len(q), NEW P, NEW Q,
         \A i \in 1 .. Len(p) : p[i] \in P <=> q[i] \in Q
  PROVE  SiftedTogether(p, q, P, Q) /\ Sift(p, P) \in Seq(T) /\ Sift(q, Q) \in Seq(U)
<1>1. Len(p) \in Nat
  OBVIOUS
<1>2. Len(p) \in 0 .. Len(p)
  BY <1>1
<1>3. Alike(Sift(p, P), Sift(q, Q), p, q, P, Len(p))
  BY <1>2, SiftedAlike DEF Sift
<1>4. Sift(p, P) \in Seq(T) /\ Sift(q, Q) \in Seq(U)
  BY <1>2, SiftedAt DEF Sift
<1> QED BY <1>3, <1>4 DEF Alike, SiftedTogether

\* Only membership of the elements matters.
LEMMA SiftSame ==
  ASSUME NEW T, NEW p \in Seq(T), NEW P, NEW Q, \A i \in 1 .. Len(p) : p[i] \in P <=> p[i] \in Q
  PROVE  Sift(p, P) = Sift(p, Q)
<1> DEFINE a == Sift(p, P)
           b == Sift(p, Q)
<1>1. /\ a \in Seq(T) /\ b \in Seq(T) /\ Len(a) = Len(b)
      /\ \A k \in 1 .. Len(a) : \E j \in 1 .. Len(p) : a[k] = p[j] /\ b[k] = p[j] /\ p[j] \in P
  BY SiftAlike DEF SiftedTogether
<1> HIDE DEF a, b
<1>2. \A k \in 1 .. Len(a) : a[k] = b[k]
  BY <1>1
<1>3. a = b
  BY <1>1, <1>2, SeqEqual
<1> QED BY <1>3 DEF a, b

\* What a sequence sifted holds.
LEMMA SiftElems ==
  ASSUME NEW T, NEW s \in Seq(T), NEW S
  PROVE  /\ Sift(s, S) \in Seq(T) /\ ToSet(Sift(s, S)) = ToSet(s) \cap S
<1> DEFINE f == Sifted(s, S)
           X == {i \in 0 .. Len(s) : \A j \in 1 .. i : s[j] \in S => s[j] \in ToSet(f[i])}
<1>1. /\ Len(s) \in Nat /\ f[0] = << >>
      /\ \A i \in 0 .. Len(s) - 1 :
           /\ i + 1 \in 1 .. Len(s) /\ s[i + 1] \in T
           /\ f[i + 1] = IF s[i + 1] \in S THEN Append(f[i], s[i + 1]) ELSE f[i]
      /\ \A i \in 0 .. Len(s) : f[i] \in Seq(T)
  BY SiftedAt
<1>2. /\ Sift(s, S) \in Seq(T)
      /\ \A k \in 1 .. Len(Sift(s, S)) : \E j \in 1 .. Len(s) : Sift(s, S)[k] = s[j] /\ s[j] \in S
  BY SiftAlike DEF SiftedTogether
<1>3. ToSet(Sift(s, S)) \subseteq ToSet(s) \cap S
  <2> DEFINE a == Sift(s, S)
  <2> HIDE DEF a
  <2>1. DOMAIN a = 1 .. Len(a) /\ DOMAIN s = 1 .. Len(s)
    BY <1>2 DEF a
  <2> QED BY <1>2, <2>1 DEF ToSet, a
<1> HIDE DEF f
<1>4. 0 \in X
  BY <1>1
<1>5. ASSUME NEW i \in 0 .. Len(s) - 1, i \in X PROVE i + 1 \in X
  <2>1. i \in 0 .. Len(s) /\ i + 1 \in 0 .. Len(s) /\ \A j \in 1 .. i + 1 : j \in 1 .. i \/ j = i + 1
    BY <1>1
  <2>2. f[i] \in Seq(T) /\ s[i + 1] \in T /\ \A j \in 1 .. i : s[j] \in S => s[j] \in ToSet(f[i])
    BY <1>1, <1>5, <2>1
  <2>3. ToSet(Append(f[i], s[i + 1])) = ToSet(f[i]) \cup {s[i + 1]}
    BY <2>2, ElemsAppend
  <2>4. \A j \in 1 .. i + 1 : s[j] \in S => s[j] \in ToSet(f[i + 1])
    BY <1>1, <2>1, <2>2, <2>3
  <2> QED BY <2>1, <2>4
<1>6. \A i \in 0 .. Len(s) : i \in X
  <2> HIDE DEF X
  <2> QED BY <1>1, <1>4, <1>5, Climbing
<1>7. ToSet(s) \cap S \subseteq ToSet(Sift(s, S))
  <2>1. Len(s) \in X
    <3> HIDE DEF X
    <3> QED BY <1>1, <1>6
  <2>2. DOMAIN s = 1 .. Len(s)
    OBVIOUS
  <2> QED BY <2>1, <2>2 DEF ToSet, Sift, f
<1> QED BY <1>2, <1>3, <1>7

\* Appending and concatenating can be done in either order.
Extends(a, b, x) == Append(a \o b, x) = a \o Append(b, x)

LEMMA ConcatAppend ==
  ASSUME NEW T, NEW a \in Seq(T), NEW b \in Seq(T), NEW x \in T
  PROVE  Extends(a, b, x)
<1>1. a \o b \in Seq(T) /\ <<x>> \in Seq(T)
  BY ConcatProperties
<1>2. Append(a \o b, x) = (a \o b) \o <<x>> /\ Append(b, x) = b \o <<x>>
  BY <1>1, AppendIsConcat
<1>3. (a \o b) \o <<x>> = a \o (b \o <<x>>)
  BY <1>1, ConcatAssociative
<1> QED BY <1>2, <1>3 DEF Extends

\* Sifting a stretch of a sequence goes on from what precedes it.
Continues(s, m, t, S) == Sifted(s, S)[m + Len(t)] = Sifted(s, S)[m] \o Sift(t, S)

LEMMA SiftSpan ==
  ASSUME NEW T, NEW s \in Seq(T), NEW t \in Seq(T), NEW S, NEW m \in 0 .. Len(s), m + Len(t) <= Len(s),
         \A j \in 1 .. Len(t) : s[m + j] = t[j]
  PROVE  Continues(s, m, t, S)
<1> DEFINE f == Sifted(s, S)
           g == Sifted(t, S)
           At(i) == f[m + i] = f[m] \o g[i]
           X == {i \in 0 .. Len(t) : At(i)}
<1>1. /\ Len(s) \in Nat
      /\ \A i \in 0 .. Len(s) - 1 :
           f[i + 1] = IF s[i + 1] \in S THEN Append(f[i], s[i + 1]) ELSE f[i]
      /\ \A i \in 0 .. Len(s) : f[i] \in Seq(T)
  BY SiftedAt
<1>2. /\ Len(t) \in Nat /\ g[0] = << >>
      /\ \A i \in 0 .. Len(t) - 1 :
           /\ i + 1 \in 1 .. Len(t) /\ t[i + 1] \in T
           /\ g[i + 1] = IF t[i + 1] \in S THEN Append(g[i], t[i + 1]) ELSE g[i]
      /\ \A i \in 0 .. Len(t) : g[i] \in Seq(T)
  BY SiftedAt
<1> HIDE DEF f, g
<1>3. 0 \in X
  <2>1. f[m] \o << >> = f[m] /\ m + 0 = m
    BY <1>1, ConcatEmptySeq
  <2>2. At(0)
    BY <1>2, <2>1
  <2> HIDE DEF At
  <2> QED BY <1>2, <2>2
<1>4. ASSUME NEW i \in 0 .. Len(t) - 1, i \in X PROVE i + 1 \in X
  <2>1. i \in 0 .. Len(t) /\ i + 1 \in 0 .. Len(t) /\ i + 1 \in 1 .. Len(t) /\ m + i \in 0 .. Len(s) - 1
        /\ m + (i + 1) = (m + i) + 1
    BY <1>1, <1>2
  <2>2. s[(m + i) + 1] = t[i + 1] /\ t[i + 1] \in T
    BY <1>2, <2>1
  <2>3. f[(m + i) + 1] = IF t[i + 1] \in S THEN Append(f[m + i], t[i + 1]) ELSE f[m + i]
    BY <1>1, <2>1, <2>2
  <2>4. At(i) /\ g[i] \in Seq(T) /\ f[m] \in Seq(T)
    BY <1>1, <1>2, <1>4, <2>1
  <2>5. Extends(f[m], g[i], t[i + 1])
    <3> HIDE DEF At
    <3> QED BY <2>2, <2>4, ConcatAppend
  <2>6. g[i + 1] = IF t[i + 1] \in S THEN Append(g[i], t[i + 1]) ELSE g[i]
    BY <1>2
  <2>7. f[(m + i) + 1] = f[m] \o g[i + 1]
    BY <2>3, <2>4, <2>5, <2>6 DEF Extends
  <2>8. At(i + 1)
    BY <2>1, <2>7
  <2> HIDE DEF At
  <2> QED BY <2>1, <2>8
<1>5. \A i \in 0 .. Len(t) : i \in X
  <2> HIDE DEF X
  <2> QED BY <1>2, <1>3, <1>4, Climbing
<1>6. At(Len(t))
  <2> HIDE DEF At
  <2> QED BY <1>2, <1>5
<1> QED BY <1>6 DEF Continues, Sift, f, g

\* What comes later does not change what was sifted before.
LEMMA SiftPart ==
  ASSUME NEW T, NEW s \in Seq(T), NEW t \in Seq(T), NEW S, Len(t) <= Len(s),
         \A j \in 1 .. Len(t) : s[j] = t[j]
  PROVE  Sifted(s, S)[Len(t)] = Sift(t, S)
<1>1. Len(s) \in Nat /\ Len(t) \in Nat
  OBVIOUS
<1>2. 0 \in 0 .. Len(s) /\ 0 + Len(t) <= Len(s) /\ 0 + Len(t) = Len(t)
  BY <1>1
<1>3. \A j \in 1 .. Len(t) : s[0 + j] = t[j]
  BY <1>1
<1>4. Continues(s, 0, t, S)
  BY <1>2, <1>3, SiftSpan
<1>5. Sifted(s, S)[0] = << >> /\ Sift(t, S) \in Seq(T)
  BY <1>1, SiftedAt, SiftElems
<1>6. << >> \o Sift(t, S) = Sift(t, S)
  BY <1>5, ConcatEmptySeq
<1> QED BY <1>2, <1>4, <1>5, <1>6 DEF Continues

LEMMA SiftConcat ==
  ASSUME NEW T, NEW p \in Seq(T), NEW q \in Seq(T), NEW S
  PROVE  Sift(p \o q, S) = Sift(p, S) \o Sift(q, S)
<1> DEFINE s == p \o q
<1>1. /\ s \in Seq(T) /\ Len(p) \in Nat /\ Len(q) \in Nat /\ Len(s) = Len(p) + Len(q)
      /\ \A i \in 1 .. Len(p) + Len(q) : s[i] = IF i <= Len(p) THEN p[i] ELSE q[i - Len(p)]
  BY ConcatProperties
<1> HIDE DEF s
<1>2. /\ Len(p) \in 0 .. Len(s) /\ Len(p) <= Len(s) /\ Len(p) + Len(q) <= Len(s)
      /\ \A j \in 1 .. Len(p) : s[j] = p[j]
      /\ \A j \in 1 .. Len(q) : s[Len(p) + j] = q[j]
  <2>1. Len(p) \in 0 .. Len(s) /\ Len(p) <= Len(s) /\ Len(p) + Len(q) <= Len(s)
    BY <1>1
  <2>2. ASSUME NEW j \in 1 .. Len(p) PROVE s[j] = p[j]
    <3>1. j \in 1 .. Len(p) + Len(q) /\ j <= Len(p)
      BY <1>1
    <3> QED BY <1>1, <3>1
  <2>3. ASSUME NEW j \in 1 .. Len(q) PROVE s[Len(p) + j] = q[j]
    <3>1. Len(p) + j \in 1 .. Len(p) + Len(q) /\ ~(Len(p) + j <= Len(p)) /\ Len(p) + j - Len(p) = j
      BY <1>1
    <3> QED BY <1>1, <3>1
  <2> QED BY <2>1, <2>2, <2>3
<1>3. Sifted(s, S)[Len(p)] = Sift(p, S)
  BY <1>1, <1>2, SiftPart
<1>4. Continues(s, Len(p), q, S)
  BY <1>1, <1>2, SiftSpan
<1> QED BY <1>1, <1>3, <1>4 DEF Continues, Sift, s

LEMMA SiftAppend ==
  ASSUME NEW T, NEW p \in Seq(T), NEW x \in T, NEW S
  PROVE  Sift(Append(p, x), S) = IF x \in S THEN Append(Sift(p, S), x) ELSE Sift(p, S)
<1> DEFINE s == Append(p, x)
<1>1. /\ s \in Seq(T) /\ Len(p) \in Nat /\ Len(s) = Len(p) + 1 /\ s[Len(p) + 1] = x
      /\ \A i \in 1 .. Len(p) : s[i] = p[i]
  BY AppendProperties
<1> HIDE DEF s
<1>2. Len(p) \in 0 .. Len(s) - 1 /\ Len(p) <= Len(s)
  BY <1>1
<1>3. Sifted(s, S)[Len(p)] = Sift(p, S)
  BY <1>1, <1>2, SiftPart
<1>4. Sifted(s, S)[Len(p) + 1] = IF s[Len(p) + 1] \in S THEN Append(Sifted(s, S)[Len(p)], s[Len(p) + 1])
                                 ELSE Sifted(s, S)[Len(p)]
  <2> DEFINE g == Sifted(s, S)
  <2>1. \A i \in 0 .. Len(s) - 1 : g[i + 1] = IF s[i + 1] \in S THEN Append(g[i], s[i + 1]) ELSE g[i]
    BY <1>1, SiftedAt
  <2> HIDE DEF g
  <2>2. g[Len(p) + 1] = IF s[Len(p) + 1] \in S THEN Append(g[Len(p)], s[Len(p) + 1]) ELSE g[Len(p)]
    BY <1>2, <2>1
  <2> QED BY <2>2 DEF g
<1>5. Sifted(s, S)[Len(p) + 1] = IF x \in S THEN Append(Sift(p, S), x) ELSE Sift(p, S)
  BY <1>1, <1>3, <1>4
<1> QED BY <1>1, <1>5 DEF Sift, s

LEMMA SiftEmpty ==
  ASSUME NEW S
  PROVE  Sift(<< >>, S) = << >>
<1>1. ASSUME NEW T, NEW e \in Seq(T), Len(e) = 0
      PROVE  Sift(e, S) = << >>
  <2>1. Sifted(e, S)[0] = << >>
    BY SiftedAt
  <2> QED BY <1>1, <2>1 DEF Sift
<1>2. << >> \in Seq({}) /\ Len(<< >>) = 0
  OBVIOUS
<1> QED BY <1>1, <1>2

\* Sifting twice.
LEMMA SiftSift ==
  ASSUME NEW T, NEW s \in Seq(T), NEW P, NEW Q
  PROVE  Sift(Sift(s, P), Q) = Sift(s, P \cap Q)
<1> DEFINE f == Sifted(s, P)
           g == Sifted(s, P \cap Q)
           X == {i \in 0 .. Len(s) : Sift(f[i], Q) = g[i]}
<1>1. /\ Len(s) \in Nat /\ f[0] = << >>
      /\ \A i \in 0 .. Len(s) - 1 :
           /\ i + 1 \in 1 .. Len(s) /\ s[i + 1] \in T
           /\ f[i + 1] = IF s[i + 1] \in P THEN Append(f[i], s[i + 1]) ELSE f[i]
      /\ \A i \in 0 .. Len(s) : f[i] \in Seq(T)
  BY SiftedAt
<1>2. /\ g[0] = << >>
      /\ \A i \in 0 .. Len(s) - 1 :
           g[i + 1] = IF s[i + 1] \in P \cap Q THEN Append(g[i], s[i + 1]) ELSE g[i]
  BY SiftedAt
<1> HIDE DEF f, g
<1>3. 0 \in X
  BY <1>1, <1>2, SiftEmpty
<1>4. ASSUME NEW i \in 0 .. Len(s) - 1, i \in X PROVE i + 1 \in X
  <2>1. i \in 0 .. Len(s) /\ i + 1 \in 0 .. Len(s)
    BY <1>1
  <2>2. f[i] \in Seq(T) /\ s[i + 1] \in T /\ Sift(f[i], Q) = g[i]
    BY <1>1, <1>4, <2>1
  <2>3. Sift(Append(f[i], s[i + 1]), Q) = IF s[i + 1] \in Q THEN Append(Sift(f[i], Q), s[i + 1]) ELSE Sift(f[i], Q)
    <3> DEFINE y == f[i]
               x == s[i + 1]
    <3>1. y \in Seq(T) /\ x \in T
      BY <2>2
    <3> HIDE DEF y, x
    <3>2. Sift(Append(y, x), Q) = IF x \in Q THEN Append(Sift(y, Q), x) ELSE Sift(y, Q)
      BY <3>1, SiftAppend
    <3> QED BY <3>2 DEF y, x
  <2>4. Sift(f[i + 1], Q) = g[i + 1]
    <3>1. CASE s[i + 1] \notin P
      BY <1>1, <1>2, <2>2, <3>1
    <3>2. CASE s[i + 1] \in P
      <4>1. f[i + 1] = Append(f[i], s[i + 1])
        BY <1>1, <3>2
      <4>2. g[i + 1] = IF s[i + 1] \in Q THEN Append(g[i], s[i + 1]) ELSE g[i]
        BY <1>2, <3>2
      <4> QED BY <2>2, <2>3, <4>1, <4>2
    <3> QED BY <3>1, <3>2
  <2> QED BY <2>1, <2>4
<1>5. \A i \in 0 .. Len(s) : i \in X
  <2> HIDE DEF X
  <2> QED BY <1>1, <1>3, <1>4, Climbing
<1>6. Len(s) \in X
  <2> HIDE DEF X
  <2> QED BY <1>1, <1>5
<1> QED BY <1>6 DEF Sift, f, g

\* Sifting what passes, and what does not.
LEMMA SiftAll ==
  ASSUME NEW T, NEW s \in Seq(T), NEW S, \A i \in 1 .. Len(s) : s[i] \in S
  PROVE  Sift(s, S) = s
<1> DEFINE f == Sifted(s, S)
           X == {i \in 0 .. Len(s) : Len(f[i]) = i /\ \A j \in 1 .. i : f[i][j] = s[j]}
<1>1. /\ Len(s) \in Nat /\ f[0] = << >>
      /\ \A i \in 0 .. Len(s) - 1 :
           /\ i + 1 \in 1 .. Len(s) /\ s[i + 1] \in T
           /\ f[i + 1] = IF s[i + 1] \in S THEN Append(f[i], s[i + 1]) ELSE f[i]
      /\ \A i \in 0 .. Len(s) : f[i] \in Seq(T)
  BY SiftedAt
<1> HIDE DEF f
<1>2. 0 \in X
  BY <1>1
<1>3. ASSUME NEW i \in 0 .. Len(s) - 1, i \in X PROVE i + 1 \in X
  <2>1. i \in Nat /\ i \in 0 .. Len(s) /\ i + 1 \in 0 .. Len(s) /\ \A j \in 1 .. i + 1 : j \in 1 .. i \/ j = i + 1
    BY <1>1
  <2>2. f[i] \in Seq(T) /\ s[i + 1] \in T /\ Len(f[i]) = i /\ \A j \in 1 .. i : f[i][j] = s[j]
    BY <1>1, <1>3, <2>1
  <2> DEFINE a == Append(f[i], s[i + 1])
  <2>3. Len(a) = i + 1 /\ a[i + 1] = s[i + 1] /\ \A j \in 1 .. i : a[j] = f[i][j]
    BY <2>2, AppendProperties
  <2>4. f[i + 1] = a
    BY <1>1
  <2> HIDE DEF a
  <2>5. \A j \in 1 .. i + 1 : a[j] = s[j]
    BY <2>1, <2>2, <2>3
  <2> QED BY <2>1, <2>3, <2>4, <2>5
<1>4. \A i \in 0 .. Len(s) : i \in X
  <2> HIDE DEF X
  <2> QED BY <1>1, <1>2, <1>3, Climbing
<1>5. Len(s) \in X
  <2> HIDE DEF X
  <2> QED BY <1>1, <1>4
<1>6. Sift(s, S) \in Seq(T) /\ Len(Sift(s, S)) = Len(s) /\ \A j \in 1 .. Len(s) : Sift(s, S)[j] = s[j]
  BY <1>5, SiftElems DEF Sift, f
<1> DEFINE a == Sift(s, S)
<1> HIDE DEF a
<1>7. a = s
  BY <1>6, SeqEqual DEF a
<1> QED BY <1>7 DEF a

LEMMA SiftNone ==
  ASSUME NEW T, NEW s \in Seq(T), NEW S, \A i \in 1 .. Len(s) : s[i] \notin S
  PROVE  Sift(s, S) = << >>
<1> DEFINE a == Sift(s, S)
<1>1. a \in Seq(T) /\ \A k \in 1 .. Len(a) : \E j \in 1 .. Len(s) : a[k] = s[j] /\ s[j] \in S
  BY SiftAlike DEF SiftedTogether
<1> HIDE DEF a
<1>2. Len(a) \in Nat /\ ~(1 \in 1 .. Len(a))
  BY <1>1
<1>3. Len(a) = 0
  BY <1>2
<1>4. a = << >>
  BY <1>1, <1>3, EmptySeq
<1> QED BY <1>4 DEF a

LEMMA SeqOfItsOwn ==
  ASSUME NEW T, NEW s \in Seq(T)
  PROVE  s \in Seq(ToSet(s)) /\ ToSet(s) \subseteq T /\ ToSet(s) = {s[i] : i \in 1 .. Len(s)}
<1>1. Len(s) \in Nat /\ DOMAIN s = 1 .. Len(s) /\ s = [i \in 1 .. Len(s) |-> s[i]]
  OBVIOUS
<1>2. \A i \in 1 .. Len(s) : s[i] \in ToSet(s)
  BY <1>1 DEF ToSet
<1>3. s \in Seq(ToSet(s))
  BY <1>1, <1>2, IsASeq
<1>4. ToSet(s) \subseteq T
  BY <1>1 DEF ToSet
<1> QED BY <1>1, <1>3, <1>4 DEF ToSet

-----------------------------------------------------------------------------
\* What a page can hold.

Offered == UNION {ToSet(o) : o \in OfferSets}
FromBackends == {Entry(ShownAs(b, t), b, t) : b \in BackendIds, t \in Offered}
FromHandlers == {Entry(prefix(h, HandlerTool), h, HandlerTool) : h \in ToSet(config.handlers)}

\* A cursor that was given out.
Resumes(cur) ==
  cur # None => DOMAIN cur.cursors \subseteq BackendIds /\ \A b \in DOMAIN cur.cursors : cur.cursors[b] \in Nat

SurfaceShape ==
  /\ config \in Configs /\ WellFormed(config)
  /\ offers \in [BackendIds -> OfferSets]
  /\ up \subseteq BackendIds
  /\ \A n \in DOMAIN reverse : reverse[n] \in BackendIds
  /\ Resumes(cursor)
  /\ changes \in 0 .. MaxChanges /\ outages \in 0 .. MaxOutages

\* What the backends offer are names.
LEMMA OffersTyped ==
  ASSUME SurfaceShape, NEW b \in BackendIds
  PROVE  /\ offers[b] \in OfferSets /\ offers[b] \in Seq(ToSet(offers[b])) /\ ToSet(offers[b]) \subseteq Offered
         /\ \A t \in Offered : Name(t)
<1>1. offers[b] \in OfferSets
  BY DEF SurfaceShape
<1>2. OfferSets \subseteq Seq(Seq(Characters) \ {None})
  BY OffersAssumption
<1>3. \A o \in OfferSets : o \in Seq(ToSet(o)) /\ ToSet(o) \subseteq Seq(Characters) \ {None}
  BY <1>2, SeqOfItsOwn
<1> QED BY <1>1, <1>3 DEF Offered, Name

LEMMA AnswerTyped ==
  ASSUME SurfaceShape, NEW b \in BackendIds, NEW filter, NEW n \in Nat
  PROVE  AnswerPage(b, n, filter).items \in Seq(ToSet(offers[b]))
<1> DEFINE T == ToSet(offers[b])
           given == IF config.pushdown
                    THEN Sift(offers[b], {t \in ToSet(offers[b]) : name_matches(t, filter.patterns)})
                    ELSE offers[b]
           last == IF n + config.page < Len(given) THEN n + config.page ELSE Len(given)
<1>1. offers[b] \in Seq(T)
  BY OffersTyped
<1>2. \A P : Sift(offers[b], P) \in Seq(T)
  BY <1>1, SiftElems
<1>3. given \in Seq(T)
  BY <1>1, <1>2
<1>4. config.page \in Nat
  BY DEF SurfaceShape, WellFormed
<1>5. AnswerPage(b, n, filter).items = SubSeq(given, n + 1, last)
  BY DEF AnswerPage
<1> HIDE DEF given
<1>6. last \in Int /\ \A i \in n + 1 .. last : i \in 1 .. Len(given)
  BY <1>3, <1>4
<1>7. \A i \in n + 1 .. last : given[i] \in T
  BY <1>3, <1>6
<1> HIDE DEF last
<1>8. SubSeq(given, n + 1, last) \in Seq(T)
  BY <1>6, <1>7, SubSeqProperties
<1> QED BY <1>5, <1>8

\* A cursor that fits the backend it is used for.
Fits(cur, b) == cur # None => b \in DOMAIN cur.cursors /\ cur.cursors[b] \in Nat

LEMMA GivenTyped ==
  ASSUME SurfaceShape, NEW b \in BackendIds, NEW filter, NEW cur, Fits(cur, b)
  PROVE  Given(b, filter, cur).items \in Seq(ToSet(offers[b]))
<1>1. CASE cur = None
  BY <1>1, AnswerTyped DEF Given
<1>2. CASE cur # None
  BY <1>2, AnswerTyped DEF Given, Fits
<1> QED BY <1>1, <1>2

\* The entries of a backend.
EntriesOf(b, items) == {Entry(ShownAs(b, t), b, t) : t \in ToSet(items)}

LEMMA ListedTyped ==
  ASSUME SurfaceShape, NEW b \in BackendIds, NEW filter, NEW cur, Fits(cur, b)
  PROVE  ListedBy(b, filter, cur) \in Seq(EntriesOf(b, Given(b, filter, cur).items))
<1> DEFINE items == Given(b, filter, cur).items
           s == [i \in 1 .. Len(items) |-> Entry(ShownAs(b, items[i]), b, items[i])]
<1>1. items \in Seq(ToSet(offers[b]))
  BY GivenTyped
<1> HIDE DEF items
<1>2. Len(items) \in Nat /\ DOMAIN items = 1 .. Len(items)
  BY <1>1
<1>3. \A i \in 1 .. Len(items) : items[i] \in ToSet(items)
  BY <1>2 DEF ToSet
<1>4. \A i \in 1 .. Len(items) : Entry(ShownAs(b, items[i]), b, items[i]) \in EntriesOf(b, items)
  BY <1>3 DEF EntriesOf
<1>5. s \in Seq(EntriesOf(b, items))
  BY <1>2, <1>4, IsASeq
<1>6. ListedBy(b, filter, cur) = Filtered(s, filter)
  BY DEF ListedBy, items
<1> HIDE DEF s
<1>7. Filtered(s, filter) \in Seq(EntriesOf(b, items))
  BY <1>5, SiftElems DEF Filtered
<1> QED BY <1>6, <1>7 DEF items

LEMMA AnswersFit ==
  ASSUME SurfaceShape, NEW filter, NEW cur, Resumes(cur), NEW failing
  PROVE  \A b \in AnsweringBackends(filter, cur, failing) : b \in BackendIds /\ Fits(cur, b)
BY DEF AnsweringBackends, AskedBackends, Resumes, Fits, SurfaceShape

\* What Merged computes: what each backend adds.
Adds(filter, cur, failing, k) ==
  Merged(filter, cur, failing)[k] =
    IF config.backends[k] \in AnsweringBackends(filter, cur, failing)
    THEN Merged(filter, cur, failing)[k - 1] \o ListedBy(config.backends[k], filter, cur)
    ELSE Merged(filter, cur, failing)[k - 1]

LEMMA MergedSteps ==
  ASSUME NEW filter, NEW cur, NEW failing, Len(config.backends) \in Nat
  PROVE  /\ Merged(filter, cur, failing)[0] = << >>
         /\ \A k \in 1 .. Len(config.backends) : Adds(filter, cur, failing, k)
<1> DEFINE A == AnsweringBackends(filter, cur, failing)
           L(b) == ListedBy(b, filter, cur)
           Def(f, N) == f = [k \in 0 .. N |->
             IF k = 0 THEN << >> ELSE IF config.backends[k] \in A THEN f[k - 1] \o L(config.backends[k]) ELSE f[k - 1]]
           X == {N \in 0 .. Len(config.backends) : \E f : Def(f, N)}
<1> HIDE DEF A, L
<1>1. 0 \in X
  <2>1. Def([k \in 0 .. 0 |-> << >>], 0)
    OBVIOUS
  <2>2. \E h : Def(h, 0)
    BY <2>1
  <2> HIDE DEF Def
  <2> QED BY <2>2
<1>2. ASSUME NEW N \in 0 .. Len(config.backends) - 1, N \in X PROVE N + 1 \in X
  <2>1. PICK f : Def(f, N)
    BY <1>2
  <2> DEFINE g == [k \in 0 .. N + 1 |-> IF k <= N THEN f[k]
                     ELSE IF config.backends[k] \in A THEN f[k - 1] \o L(config.backends[k]) ELSE f[k - 1]]
  <2>2. Def(g, N + 1)
    <3>1. \A k \in 1 .. N + 1 : g[k - 1] = f[k - 1]
      OBVIOUS
    <3>2. \A k \in 0 .. N : f[k] = IF k = 0 THEN << >> ELSE IF config.backends[k] \in A
                                   THEN f[k - 1] \o L(config.backends[k]) ELSE f[k - 1]
      BY <2>1
    <3>3. \A k \in 0 .. N + 1 : k = 0 \/ k \in 1 .. N + 1
      OBVIOUS
    <3>4. \A k \in 0 .. N + 1 : g[k] = IF k = 0 THEN << >> ELSE IF config.backends[k] \in A
                                       THEN g[k - 1] \o L(config.backends[k]) ELSE g[k - 1]
      BY <3>1, <3>2, <3>3
    <3> HIDE DEF g
    <3>5. g = [k \in 0 .. N + 1 |-> g[k]]
      BY DEF g
    <3> QED BY <3>4, <3>5
  <2>3. \E h : Def(h, N + 1)
    BY <2>2
  <2>4. N + 1 \in 0 .. Len(config.backends)
    OBVIOUS
  <2> HIDE DEF Def
  <2> QED BY <2>3, <2>4
<1>3. \A i \in 0 .. Len(config.backends) - 1 : i \in X => i + 1 \in X
  <2> HIDE DEF X
  <2> QED BY <1>2
<1>4. \A i \in 0 .. Len(config.backends) : i \in X
  <2> HIDE DEF X
  <2> QED BY <1>1, <1>3, Climbing
<1>5. \E f : Def(f, Len(config.backends))
  <2>1. Len(config.backends) \in X
    <3> HIDE DEF X
    <3> QED BY <1>4
  <2> HIDE DEF Def
  <2> QED BY <2>1
<1>6. Def(CHOOSE f : Def(f, Len(config.backends)), Len(config.backends))
  <2> HIDE DEF Def
  <2> QED BY <1>5
<1> DEFINE m == CHOOSE f : Def(f, Len(config.backends))
<1>7. Merged(filter, cur, failing) = m
  BY DEF Merged, A, L
<1> HIDE DEF m
<1>8. Def(m, Len(config.backends))
  <2> HIDE DEF Def
  <2> QED BY <1>6 DEF m
<1>9. 0 \in 0 .. Len(config.backends) /\ \A k \in 1 .. Len(config.backends) : k \in 0 .. Len(config.backends) /\ k # 0
  OBVIOUS
<1>10. m[0] = << >>
  BY <1>8, <1>9
<1>11. ASSUME NEW k \in 1 .. Len(config.backends)
       PROVE  m[k] = IF config.backends[k] \in A THEN m[k - 1] \o L(config.backends[k]) ELSE m[k - 1]
  BY <1>8, <1>9
<1> HIDE DEF Def
<1> QED BY <1>7, <1>10, <1>11 DEF Adds, A, L

LEMMA MergedAt ==
  ASSUME SurfaceShape, NEW filter, NEW cur, NEW failing
  PROVE  /\ Len(config.backends) \in Nat /\ Merged(filter, cur, failing)[0] = << >>
         /\ \A k \in 1 .. Len(config.backends) : config.backends[k] \in BackendIds /\ Adds(filter, cur, failing, k)
<1>1. Len(config.backends) \in Nat /\ \A k \in 1 .. Len(config.backends) : config.backends[k] \in BackendIds
  BY DEF SurfaceShape, WellFormed, BackendIds
<1> QED BY <1>1, MergedSteps

\* What a request can have collected.
Answered(filter, cur, failing) ==
  UNION {EntriesOf(b, Given(b, filter, cur).items) : b \in AnsweringBackends(filter, cur, failing)}

LEMMA MergedTyped ==
  ASSUME SurfaceShape, NEW filter, NEW cur, Resumes(cur), NEW failing
  PROVE  \A k \in 0 .. Len(config.backends) :
           Merged(filter, cur, failing)[k] \in Seq(Answered(filter, cur, failing))
<1> DEFINE f == Merged(filter, cur, failing)
           E == Answered(filter, cur, failing)
           X == {k \in 0 .. Len(config.backends) : f[k] \in Seq(E)}
<1>1. /\ Len(config.backends) \in Nat /\ f[0] = << >>
      /\ \A k \in 1 .. Len(config.backends) : config.backends[k] \in BackendIds /\ Adds(filter, cur, failing, k)
  BY MergedAt
<1>2. ASSUME NEW b \in AnsweringBackends(filter, cur, failing)
      PROVE  ListedBy(b, filter, cur) \in Seq(E)
  <2>1. ListedBy(b, filter, cur) \in Seq(EntriesOf(b, Given(b, filter, cur).items))
    BY AnswersFit, ListedTyped
  <2>2. EntriesOf(b, Given(b, filter, cur).items) \subseteq E
    BY DEF Answered
  <2> HIDE DEF E
  <2> QED BY <2>1, <2>2, SeqMonotonic
<1> HIDE DEF f, E
<1>3. 0 \in X
  <2>1. << >> \in Seq(E)
    OBVIOUS
  <2>2. f[0] \in Seq(E)
    BY <1>1, <2>1 DEF f
  <2>3. 0 \in 0 .. Len(config.backends)
    BY <1>1
  <2> QED BY <2>2, <2>3
<1>4. ASSUME NEW k \in 0 .. Len(config.backends) - 1, k \in X PROVE k + 1 \in X
  <2> DEFINE n == k + 1
  <2>1. n \in 0 .. Len(config.backends) /\ n \in 1 .. Len(config.backends) /\ n - 1 = k /\ f[k] \in Seq(E)
    BY <1>1, <1>4
  <2> HIDE DEF n
  <2>2. Adds(filter, cur, failing, n)
    BY <1>1, <2>1
  <2>3. f[n] = IF config.backends[n] \in AnsweringBackends(filter, cur, failing)
               THEN f[k] \o ListedBy(config.backends[n], filter, cur) ELSE f[k]
    BY <2>1, <2>2 DEF Adds, f
  <2>4. CASE config.backends[n] \in AnsweringBackends(filter, cur, failing)
    <3>1. ListedBy(config.backends[n], filter, cur) \in Seq(E)
      BY <1>2, <2>4
    <3>2. f[k] \o ListedBy(config.backends[n], filter, cur) \in Seq(E)
      BY <2>1, <3>1, ConcatProperties
    <3> QED BY <2>1, <2>3, <2>4, <3>2 DEF n
  <2>5. CASE config.backends[n] \notin AnsweringBackends(filter, cur, failing)
    BY <2>1, <2>3, <2>5 DEF n
  <2> QED BY <2>4, <2>5
<1>5. \A k \in 0 .. Len(config.backends) : k \in X
  <2> HIDE DEF X
  <2> QED BY <1>1, <1>3, <1>4, Climbing
<1> QED BY <1>5 DEF f, E

LEMMA CollectedTyped ==
  ASSUME SurfaceShape, NEW filter, NEW cur, Resumes(cur), NEW failing
  PROVE  Collected(filter, cur, failing) \in Seq(Answered(filter, cur, failing))
<1>1. Len(config.backends) \in 0 .. Len(config.backends)
  BY MergedAt
<1> QED BY <1>1, MergedTyped DEF Collected

LEMMA LocalTyped ==
  ASSUME SurfaceShape, NEW filter
  PROVE  LocalTools(filter) \in Seq(FromHandlers)
<1> DEFINE s == [i \in 1 .. Len(config.handlers) |->
                   Entry(prefix(config.handlers[i], HandlerTool), config.handlers[i], HandlerTool)]
<1>1. Len(config.handlers) \in Nat /\ \A i \in 1 .. Len(config.handlers) : config.handlers[i] \in ToSet(config.handlers)
  BY DEF SurfaceShape, WellFormed
<1>2. \A i \in 1 .. Len(config.handlers) :
        Entry(prefix(config.handlers[i], HandlerTool), config.handlers[i], HandlerTool) \in FromHandlers
  BY <1>1 DEF FromHandlers
<1>3. s \in Seq(FromHandlers)
  BY <1>1, <1>2, IsASeq
<1>4. LocalTools(filter) = Filtered(s, filter)
  BY DEF LocalTools
<1> HIDE DEF s
<1>5. Filtered(s, filter) \in Seq(FromHandlers)
  BY <1>3, SiftElems DEF Filtered
<1> QED BY <1>4, <1>5

-----------------------------------------------------------------------------
\* What collision.py makes of the entries.

LEMMA HasMax ==
  ASSUME NEW N \in Nat, NEW T, T \subseteq 0 .. N, T # {}
  PROVE  Max(T) \in T /\ \A j \in T : Max(T) >= j
<1> DEFINE D == {N - x : x \in T}
<1>1. D \subseteq Nat /\ D # {}
  <2>1. PICK x \in T : TRUE
    OBVIOUS
  <2>2. N - x \in D
    BY <2>1
  <2>3. \A x2 \in T : N - x2 \in Nat
    OBVIOUS
  <2> QED BY <2>2, <2>3
<1>2. First(D) \in D /\ \A j \in D : First(D) <= j
  <2> HIDE DEF D
  <2> QED BY <1>1, HasFirst
<1>3. PICK x \in T : First(D) = N - x
  BY <1>2
<1>4. \A j \in T : x >= j
  <2>1. ASSUME NEW j \in T PROVE x >= j
    <3>1. N - j \in D
      OBVIOUS
    <3>2. N - x <= N - j
      BY <1>2, <1>3, <3>1
    <3>3. x \in Int /\ j \in Int
      OBVIOUS
    <3> QED BY <3>2, <3>3
  <2> QED BY <2>1
<1> QED BY <1>4 DEF Max

LEMMA RankTyped ==
  ASSUME SurfaceShape
  PROVE  /\ \A id : Rank(id) \in Nat
         /\ \A name : RankOf(name) \in Nat
<1>1. Len(config.priority) \in Nat
  BY DEF SurfaceShape, WellFormed
<1>2. ASSUME NEW id PROVE Rank(id) \in Nat
  <2> DEFINE places == {i \in 1 .. Len(config.priority) : config.priority[i] = id}
  <2>1. places # {} => Max(places) \in places
    <3>1. places \subseteq 0 .. Len(config.priority)
      BY <1>1
    <3> HIDE DEF places
    <3> QED BY <1>1, <3>1, HasMax
  <2>2. Rank(id) = IF places = {} THEN Len(config.priority) + 1 ELSE Max(places)
    BY DEF Rank
  <2>3. CASE places = {}
    BY <1>1, <2>2, <2>3
  <2>4. CASE places # {}
    <3>1. Rank(id) \in places
      BY <2>1, <2>2, <2>4
    <3> QED BY <1>1, <3>1
  <2> QED BY <2>3, <2>4
<1> QED BY <1>1, <1>2 DEF RankOf

\* Of the copies of a name there is a best one.
LEMMA HasBest ==
  ASSUME SurfaceShape, NEW entries, Len(entries) \in Nat, NEW o, Copies(entries, o) # {}
  PROVE  /\ BestCopy(entries, o) \in Copies(entries, o)
         /\ \A j \in Copies(entries, o) : RankOf(entries[BestCopy(entries, o)].name) <= RankOf(entries[j].name)
<1> DEFINE C == Copies(entries, o)
           R(i) == RankOf(entries[i].name)
           Q == {R(i) : i \in C}
           F == {i \in C : R(i) = First(Q)}
           Best(i) == \A j \in C : R(i) < R(j) \/ (R(i) = R(j) /\ i <= j)
<1>1. C \subseteq Nat
  BY DEF Copies
<1>2. \A i : R(i) \in Nat
  BY RankTyped
<1> HIDE DEF C, R
<1>3. First(Q) \in Q /\ \A r \in Q : First(Q) <= r
  <2>1. Q \subseteq Nat /\ Q # {}
    BY <1>2 DEF C
  <2> HIDE DEF Q
  <2> QED BY <2>1, HasFirst
<1>4. First(F) \in F /\ \A i \in F : First(F) <= i
  <2>1. F \subseteq Nat /\ F # {}
    BY <1>1, <1>3
  <2> HIDE DEF F
  <2> QED BY <2>1, HasFirst
<1> DEFINE i0 == First(F)
<1>5. i0 \in C /\ R(i0) = First(Q) /\ \A j \in C : R(j) = First(Q) => i0 <= j
  BY <1>4
<1> HIDE DEF i0
<1>6. ASSUME NEW j \in C PROVE R(i0) < R(j) \/ (R(i0) = R(j) /\ i0 <= j)
  <2>1. First(Q) <= R(j) /\ R(j) \in Nat /\ R(i0) \in Nat
    BY <1>2, <1>3
  <2> HIDE DEF Q
  <2> QED BY <1>5, <2>1
<1>7. \E i \in C : Best(i)
  <2>1. Best(i0)
    BY <1>6
  <2> HIDE DEF Best
  <2> QED BY <1>5, <2>1
<1> DEFINE b == CHOOSE i \in C : Best(i)
<1>8. b \in C /\ Best(b)
  <2> HIDE DEF Best
  <2> QED BY <1>7
<1>9. b = BestCopy(entries, o)
  BY DEF BestCopy, C, R
<1> HIDE DEF b
<1>10. \A j \in C : R(b) <= R(j)
  BY <1>2, <1>8
<1> QED BY <1>8, <1>9, <1>10 DEF C, R

\* The places at which names first occur, in their order.
OriginalAt(entries, i) == OriginalOf(entries[i].name)
Order(entries) ==
  Sift([i \in 1 .. Len(entries) |-> i],
       {i \in 1 .. Len(entries) : i = First(Copies(entries, OriginalAt(entries, i)))})

\* What apply_priority puts at a place.
Puts(entries, k) ==
  LET i == Order(entries)[k]
      j == BestCopy(entries, OriginalAt(entries, i))
  IN  /\ i \in 1 .. Len(entries) /\ i = First(Copies(entries, OriginalAt(entries, i)))
      /\ j \in Copies(entries, OriginalAt(entries, i))
      /\ apply_priority(entries)[k] = entries[j]

LEMMA PriorityPuts ==
  ASSUME SurfaceShape, NEW E, NEW entries \in Seq(E)
  PROVE  /\ Order(entries) \in Seq(1 .. Len(entries))
         /\ apply_priority(entries) \in Seq(E) /\ Len(apply_priority(entries)) = Len(Order(entries))
         /\ \A k \in 1 .. Len(Order(entries)) : Puts(entries, k)
<1> DEFINE N == Len(entries)
           id == [i \in 1 .. N |-> i]
           S == {i \in 1 .. N : i = First(Copies(entries, OriginalAt(entries, i)))}
           order == Order(entries)
           best(i) == BestCopy(entries, OriginalAt(entries, i))
<1>1. N \in Nat /\ \A i \in 1 .. N : entries[i] \in E
  OBVIOUS
<1>2. id \in Seq(1 .. N) /\ Len(id) = N
  BY <1>1
<1>3. order = Sift(id, S)
  BY DEF Order
<1> HIDE DEF S, id
<1>4. order \in Seq(1 .. N) /\ ToSet(order) = ToSet(id) \cap S
  BY <1>2, <1>3, SiftElems
<1> HIDE DEF order
<1>5. \A k \in 1 .. Len(order) : order[k] \in S
  BY <1>4 DEF ToSet
<1>6. ASSUME NEW k \in 1 .. Len(order)
      PROVE  /\ order[k] \in 1 .. N /\ order[k] = First(Copies(entries, OriginalAt(entries, order[k])))
             /\ best(order[k]) \in Copies(entries, OriginalAt(entries, order[k]))
             /\ entries[best(order[k])] \in E
  <2>1. order[k] \in 1 .. N /\ order[k] = First(Copies(entries, OriginalAt(entries, order[k])))
    BY <1>5 DEF S
  <2>2. order[k] \in Copies(entries, OriginalAt(entries, order[k]))
    BY <2>1 DEF Copies, OriginalAt
  <2>3. best(order[k]) \in Copies(entries, OriginalAt(entries, order[k]))
    BY <1>1, <2>2, HasBest
  <2>4. best(order[k]) \in 1 .. N
    BY <2>3 DEF Copies
  <2> QED BY <1>1, <2>1, <2>3, <2>4
<1> DEFINE a == [k \in 1 .. Len(order) |-> entries[best(order[k])]]
<1>7. apply_priority(entries) = a
  BY <1>3 DEF apply_priority, OriginalAt, S, id
<1> HIDE DEF best
<1>8. Len(order) \in Nat
  BY <1>4
<1>9. a \in Seq(E) /\ Len(a) = Len(order) /\ \A k \in 1 .. Len(order) : a[k] = entries[best(order[k])]
  <2>1. \A k \in 1 .. Len(order) : entries[best(order[k])] \in E
    BY <1>6
  <2> QED BY <1>8, <2>1, IsASeq
<1> HIDE DEF a
<1>10. ASSUME NEW k \in 1 .. Len(order) PROVE Puts(entries, k)
  BY <1>6, <1>7, <1>9 DEF Puts, order, best
<1> QED BY <1>4, <1>7, <1>9, <1>10 DEF order

\* What the client reads an entry as.
Renamed(x) == IF config.strategy = "manual" THEN Entry(Exposed(x.name), x.owner, x.original) ELSE x

Listable(x) == x = Entry(x.name, x.owner, x.original)

LEMMA ResolvedTyped ==
  ASSUME SurfaceShape, NEW E, NEW entries \in Seq(E), \A x \in E : Listable(x)
  PROVE  Resolved(entries) \in Seq({Renamed(x) : x \in E})
<1> DEFINE R == {Renamed(x) : x \in E}
<1>1. Len(entries) \in Nat /\ \A i \in 1 .. Len(entries) : entries[i] \in E
  OBVIOUS
<1>2. CASE config.strategy = "manual"
  <2>1. ASSUME NEW i \in 1 .. Len(entries)
        PROVE  [entries[i] EXCEPT !.name = Exposed(@)] \in R
    <3> DEFINE x == entries[i]
    <3>1. x \in E /\ x = Entry(x.name, x.owner, x.original)
      BY <1>1 DEF Listable
    <3> DEFINE n == Exposed(x.name)
    <3>2. [x EXCEPT !.name = Exposed(@)] = [x EXCEPT !.name = n]
      OBVIOUS
    <3> HIDE DEF n
    <3>3. [x EXCEPT !.name = n] = Entry(n, x.owner, x.original)
      <4> HIDE DEF x
      <4> QED BY <3>1 DEF Entry
    <3>4. Renamed(x) = Entry(n, x.owner, x.original)
      BY <1>2 DEF Renamed, n
    <3> HIDE DEF x
    <3> QED BY <3>1, <3>2, <3>3, <3>4 DEF x
  <2>2. resolve_manual(entries) \in Seq(R)
    <3> DEFINE a == [i \in 1 .. Len(entries) |-> [entries[i] EXCEPT !.name = Exposed(@)]]
    <3> HIDE DEF R
    <3>1. a \in Seq(R)
      BY <1>1, <2>1, IsASeq
    <3> QED BY <3>1 DEF resolve_manual
  <2> QED BY <1>2, <2>2 DEF Resolved
<1>3. CASE config.strategy # "manual"
  <2>1. R = E
    BY <1>3 DEF Renamed
  <2>2. apply_priority(entries) \in Seq(E)
    BY PriorityPuts
  <2>3. Resolved(entries) = entries \/ Resolved(entries) = apply_priority(entries)
    BY <1>3 DEF Resolved
  <2>4. Resolved(entries) \in Seq(E)
    BY <2>2, <2>3
  <2>5. Resolved(entries) \in Seq(R)
    <3> HIDE DEF R
    <3> QED BY <2>1, <2>4
  <2> QED BY <2>5
<1> QED BY <1>2, <1>3

SearchEntry == Entry(ProxySearchTool, None, ProxySearchTool)

LEMMA DisclosedTyped ==
  ASSUME SurfaceShape, NEW E, NEW entries \in Seq(E)
  PROVE  disclose(entries) \in Seq({x \in E \cup {SearchEntry} : x \in E \/ config.disclose > 0})
<1> DEFINE D == {x \in E \cup {SearchEntry} : x \in E \/ config.disclose > 0}
<1>1. E \subseteq D
  OBVIOUS
<1>2. entries \in Seq(D)
  <2> HIDE DEF D
  <2> QED BY <1>1, SeqMonotonic
<1>3. CASE config.disclose > 0 /\ Len(entries) > config.disclose
  <2> DEFINE p == SubSeq(entries, 1, config.disclose)
  <2>1. SearchEntry \in D
    BY <1>3
  <2> HIDE DEF D
  <2>2. config.disclose \in Nat /\ Len(entries) \in Nat
    BY DEF SurfaceShape, WellFormed
  <2>3. \A i \in 1 .. config.disclose : entries[i] \in D
    BY <1>2, <1>3, <2>2
  <2>4. p \in Seq(D)
    BY <2>2, <2>3, SubSeqProperties
  <2> HIDE DEF p
  <2>5. Append(p, SearchEntry) \in Seq(D)
    BY <2>1, <2>4, AppendProperties
  <2>6. disclose(entries) = Append(p, SearchEntry)
    BY <1>3 DEF disclose, SearchEntry, p
  <2> QED BY <2>5, <2>6 DEF D
<1>4. CASE ~(config.disclose > 0 /\ Len(entries) > config.disclose)
  BY <1>2, <1>4 DEF disclose
<1> QED BY <1>3, <1>4

LEMMA ReverseGrows ==
  ASSUME SurfaceShape, NEW filter, NEW cur, Resumes(cur), NEW failing
  PROVE  /\ DOMAIN reverse \subseteq DOMAIN ReverseMap(filter, cur, failing)
         /\ \A n \in DOMAIN ReverseMap(filter, cur, failing) : ReverseMap(filter, cur, failing)[n] \in BackendIds
         /\ Passthrough => \A b \in AnsweringBackends(filter, cur, failing) :
              ToSet(Given(b, filter, cur).items) \subseteq DOMAIN ReverseMap(filter, cur, failing)
<1> DEFINE A == AnsweringBackends(filter, cur, failing)
           G(b) == ToSet(Given(b, filter, cur).items)
           L(n) == {k \in 1 .. Len(config.backends) : config.backends[k] \in A /\ n \in G(config.backends[k])}
           W == UNION {G(b) : b \in A}
           m == ReverseMap(filter, cur, failing)
<1>1. CASE ~Passthrough
  BY <1>1 DEF ReverseMap, SurfaceShape
<1>2. CASE Passthrough
  <2>1. m = [n \in DOMAIN reverse \cup W |->
              IF n \in DOMAIN reverse THEN reverse[n] ELSE config.backends[First(L(n))]]
    BY <1>2 DEF ReverseMap
  <2>2. A \subseteq BackendIds
    BY AnswersFit
  <2> HIDE DEF A, G, m
  <2>3. ASSUME NEW n \in W
        PROVE  config.backends[First(L(n))] \in BackendIds
    <3>1. PICK b \in A : n \in G(b)
      BY <2>3
    <3>2. b \in BackendIds
      BY <2>2
    <3>3. PICK k \in 1 .. Len(config.backends) : config.backends[k] = b
      BY <3>2 DEF SurfaceShape, WellFormed, BackendIds, ToSet
    <3>4. L(n) \subseteq Nat /\ L(n) # {}
      BY <3>1, <3>3
    <3>5. First(L(n)) \in L(n)
      <4> HIDE DEF L
      <4> QED BY <3>4, HasFirst
    <3>6. config.backends[First(L(n))] \in A
      BY <3>5
    <3> QED BY <2>2, <3>6
  <2>4. DOMAIN m = DOMAIN reverse \cup W
    BY <2>1
  <2>5. ASSUME NEW n \in DOMAIN m PROVE m[n] \in BackendIds
    <3>1. CASE n \in DOMAIN reverse
      BY <2>1, <3>1 DEF SurfaceShape
    <3>2. CASE n \in W /\ n \notin DOMAIN reverse
      BY <2>1, <2>3, <3>2
    <3> QED BY <2>4, <3>1, <3>2
  <2>6. \A b \in A : G(b) \subseteq W
    OBVIOUS
  <2> HIDE DEF W
  <2> QED BY <2>4, <2>5, <2>6 DEF m, A, G
<1> QED BY <1>1, <1>2

-----------------------------------------------------------------------------
\* The inductive invariant.

PageEntries ==
  {Renamed(x) : x \in FromHandlers} \cup {Renamed(x) : x \in FromBackends}
  \cup {x \in {SearchEntry} : config.disclose > 0}

SurfaceInv ==
  /\ SurfaceShape
  /\ page \in Seq(PageEntries)
  /\ Passthrough => \A e \in ToSet(page) : e.owner \in BackendIds => e.original \in DOMAIN reverse

PageOf(filter, cur, failing) ==
  disclose(Resolved(Collected(filter, cur, failing) \o LocalTools(filter)))

LEMMA OwnersApart ==
  ASSUME SurfaceShape
  PROVE  /\ None \notin BackendIds
         /\ \A h \in ToSet(config.handlers) : h \notin BackendIds /\ h # None /\ PlainId(h)
         /\ \A b \in BackendIds : PlainId(b)
BY DEF SurfaceShape, WellFormed, BackendIds, PlainId, Name

LEMMA Renames3 ==
  ASSUME NEW n, NEW b, NEW t
  PROVE  /\ Listable(Entry(n, b, t))
         /\ Entry(n, b, t).name = n /\ Entry(n, b, t).owner = b /\ Entry(n, b, t).original = t
         /\ Renamed(Entry(n, b, t)).owner = b /\ Renamed(Entry(n, b, t)).original = t
         /\ Renamed(Entry(n, b, t)).name = IF config.strategy = "manual" THEN Exposed(n) ELSE n
<1>1. /\ Entry(n, b, t).name = n /\ Entry(n, b, t).owner = b /\ Entry(n, b, t).original = t
  BY DEF Entry
<1>2. \A m : Entry(m, b, t).name = m /\ Entry(m, b, t).owner = b /\ Entry(m, b, t).original = t
  BY DEF Entry
<1>3. Listable(Entry(n, b, t))
  BY <1>1 DEF Listable
<1>4. Renamed(Entry(n, b, t)) = IF config.strategy = "manual" THEN Entry(Exposed(n), b, t) ELSE Entry(n, b, t)
  BY <1>1 DEF Renamed
<1> QED BY <1>1, <1>2, <1>3, <1>4

LEMMA EntriesTyped ==
  ASSUME SurfaceShape, NEW filter, NEW cur, Resumes(cur), NEW failing
  PROVE  /\ Collected(filter, cur, failing) \o LocalTools(filter)
              \in Seq(Answered(filter, cur, failing) \cup FromHandlers)
         /\ Answered(filter, cur, failing) \subseteq FromBackends
         /\ \A x \in Answered(filter, cur, failing) \cup FromHandlers : Listable(x)
<1> DEFINE A == Answered(filter, cur, failing)
           p == Collected(filter, cur, failing)
           q == LocalTools(filter)
<1>1. p \in Seq(A) /\ q \in Seq(FromHandlers)
  BY CollectedTyped, LocalTyped
<1> HIDE DEF A, p, q
<1>2. p \in Seq(A \cup FromHandlers) /\ q \in Seq(A \cup FromHandlers)
  BY <1>1, SeqMonotonic
<1>3. p \o q \in Seq(A \cup FromHandlers)
  BY <1>2, ConcatProperties
<1>4. \A b \in AnsweringBackends(filter, cur, failing) :
        b \in BackendIds /\ ToSet(Given(b, filter, cur).items) \subseteq Offered
  <2>1. ASSUME NEW b \in AnsweringBackends(filter, cur, failing)
        PROVE  b \in BackendIds /\ ToSet(Given(b, filter, cur).items) \subseteq Offered
    <3>1. b \in BackendIds /\ Fits(cur, b)
      BY AnswersFit
    <3>2. ToSet(Given(b, filter, cur).items) \subseteq ToSet(offers[b])
      BY <3>1, GivenTyped, SeqOfItsOwn
    <3> QED BY <3>1, <3>2, OffersTyped
  <2> QED BY <2>1
<1>5. A \subseteq FromBackends
  BY <1>4 DEF A, Answered, EntriesOf, FromBackends
<1>6. \A x \in FromBackends \cup FromHandlers : Listable(x)
  BY Renames3 DEF FromBackends, FromHandlers
<1>7. \A x \in A \cup FromHandlers : Listable(x)
  BY <1>5, <1>6
<1> QED BY <1>3, <1>5, <1>7 DEF A, p, q

LEMMA PageTyped ==
  ASSUME SurfaceShape, NEW filter, NEW cur, Resumes(cur), NEW failing
  PROVE  /\ PageOf(filter, cur, failing) \in Seq(PageEntries)
         /\ Passthrough => \A e \in ToSet(PageOf(filter, cur, failing)) :
              e.owner \in BackendIds => e.original \in DOMAIN ReverseMap(filter, cur, failing)
<1> DEFINE A == Answered(filter, cur, failing)
           E == A \cup FromHandlers
           R == {Renamed(x) : x \in E}
           D == {x \in R \cup {SearchEntry} : x \in R \/ config.disclose > 0}
           entries == Collected(filter, cur, failing) \o LocalTools(filter)
           p == PageOf(filter, cur, failing)
<1>1. entries \in Seq(E) /\ A \subseteq FromBackends /\ \A x \in E : Listable(x)
  BY EntriesTyped
<1>2. Resolved(entries) \in Seq(R)
  <2> HIDE DEF E, entries
  <2> QED BY <1>1, ResolvedTyped
<1>3. p \in Seq(D)
  <2> DEFINE r == Resolved(entries)
  <2> HIDE DEF R, r
  <2>1. disclose(r) \in Seq(D)
    BY <1>2, DisclosedTyped DEF r
  <2>2. p = disclose(r)
    BY DEF PageOf, r
  <2> HIDE DEF p
  <2> QED BY <2>1, <2>2
<1>4. R \subseteq {Renamed(x) : x \in FromHandlers} \cup {Renamed(x) : x \in FromBackends}
  <2> HIDE DEF A
  <2> QED BY <1>1
<1>5. D \subseteq PageEntries
  <2> HIDE DEF R
  <2> QED BY <1>4 DEF PageEntries
<1>6. p \in Seq(PageEntries)
  <2> HIDE DEF D, p
  <2> QED BY <1>3, <1>5, SeqMonotonic
<1>7. ASSUME Passthrough, NEW e \in ToSet(p), e.owner \in BackendIds
      PROVE  e.original \in DOMAIN ReverseMap(filter, cur, failing)
  <2>1. e \in D
    <3> HIDE DEF p, D
    <3> QED BY <1>3, <1>7, SeqOfItsOwn
  <2>2. CASE e = SearchEntry
    <3>1. e.owner = None
      BY <2>2, Renames3 DEF SearchEntry
    <3> QED BY <1>7, <3>1, OwnersApart
  <2>3. CASE e \in R
    <3>1. PICK x \in E : e = Renamed(x)
      BY <2>3
    <3>2. CASE x \in FromHandlers
      <4>1. PICK h \in ToSet(config.handlers) : x = Entry(prefix(h, HandlerTool), h, HandlerTool)
        BY <3>2 DEF FromHandlers
      <4>2. e.owner = h
        BY <3>1, <4>1, Renames3
      <4> QED BY <1>7, <4>2, OwnersApart
    <3>3. CASE x \in A
      <4>1. PICK b \in AnsweringBackends(filter, cur, failing) : x \in EntriesOf(b, Given(b, filter, cur).items)
        BY <3>3 DEF Answered
      <4>2. PICK t \in ToSet(Given(b, filter, cur).items) : x = Entry(ShownAs(b, t), b, t)
        BY <4>1 DEF EntriesOf
      <4>3. e.original = t
        BY <3>1, <4>2, Renames3
      <4> QED BY <1>7, <4>2, <4>3, ReverseGrows
    <3> QED BY <3>2, <3>3
  <2> QED BY <2>1, <2>2, <2>3
<1> QED BY <1>6, <1>7

LEMMA CursorsTyped ==
  ASSUME SurfaceShape, NEW filter, NEW cur, Resumes(cur), NEW failing, NEW v
  PROVE  Resumes([variant |-> v, cursors |-> NextCursors(filter, cur, failing)])
<1> DEFINE n == NextCursors(filter, cur, failing)
           D == {a \in AnsweringBackends(filter, cur, failing) : Given(a, filter, cur).next > 0}
<1>1. n = [b \in D |-> Given(b, filter, cur).next]
  BY DEF NextCursors
<1>2. D \subseteq BackendIds /\ \A b \in D : Fits(cur, b)
  BY AnswersFit
<1>3. ASSUME NEW b \in D PROVE Given(b, filter, cur).next \in Nat
  <2>1. b \in BackendIds /\ Fits(cur, b)
    BY <1>2
  <2>2. ASSUME NEW m \in Nat PROVE AnswerPage(b, m, filter).next \in Nat
    <3> DEFINE given == IF config.pushdown
                        THEN Sift(offers[b], {t \in ToSet(offers[b]) : name_matches(t, filter.patterns)})
                        ELSE offers[b]
               last == IF m + config.page < Len(given) THEN m + config.page ELSE Len(given)
    <3>1. given \in Seq(ToSet(offers[b]))
      BY <2>1, OffersTyped, SiftElems
    <3>2. config.page \in Nat
      BY DEF SurfaceShape, WellFormed
    <3>3. AnswerPage(b, m, filter).next = IF last < Len(given) /\ m < last THEN last ELSE 0
      BY DEF AnswerPage
    <3> HIDE DEF given
    <3>4. last \in Nat
      BY <3>1, <3>2
    <3> HIDE DEF last
    <3> QED BY <3>3, <3>4
  <2> QED BY <2>1, <2>2 DEF Given, Fits
<1> HIDE DEF n
<1>4. DOMAIN n \subseteq BackendIds /\ \A b \in DOMAIN n : n[b] \in Nat
  <2> HIDE DEF D
  <2> QED BY <1>1, <1>2, <1>3
<1> DEFINE c == [variant |-> v, cursors |-> n]
<1>5. c.cursors = n
  OBVIOUS
<1> HIDE DEF c
<1>6. Resumes(c)
  BY <1>4, <1>5 DEF Resumes
<1> QED BY <1>6 DEF c, n

\* What depends on the configuration alone.
LEMMA ConfigKept ==
  ASSUME config' = config
  PROVE  BackendIds' = BackendIds /\ Passthrough' = Passthrough /\ PageEntries' = PageEntries
<1>1. BackendIds' = BackendIds
  BY DEF BackendIds
<1>2. Single' = Single /\ Passthrough' = Passthrough
  BY DEF Single, Passthrough
<1>3. PageEntries' = PageEntries
  BY DEF PageEntries, FromHandlers, FromBackends, SearchEntry, BackendIds, Renamed, Exposed, Renames,
         ShownAs, Label, Single, Passthrough
<1> QED BY <1>1, <1>2, <1>3

LEMMA PageOfList ==
  ASSUME SurfaceInv, NEW v, NEW filter, NEW cur, Resumes(cur), NEW failing, ListTools(v, filter, cur, failing)
  PROVE  /\ UNCHANGED <<config, offers, up, changes, outages>>
         /\ reverse' = ReverseMap(filter, cur, failing)
         /\ \/ UNCHANGED <<raw, page, cursor, walk>>
            \/ /\ raw' = Collected(filter, cur, failing) \o LocalTools(filter)
               /\ page' = PageOf(filter, cur, failing)
         /\ \/ cursor' = cursor \/ cursor' = None
            \/ cursor' = [variant |-> EffectiveVariant(v), cursors |-> NextCursors(filter, cur, failing)]
BY DEF ListTools, PageOf

LEMMA ShapeKept ==
  ASSUME SurfaceShape, config' = config, offers' \in [BackendIds -> OfferSets], up' \subseteq BackendIds,
         reverse' = reverse \/ \E f, c, g : Resumes(c) /\ reverse' = ReverseMap(f, c, g),
         \/ cursor' = cursor \/ cursor' = None
         \/ \E x, f, c, g : Resumes(c) /\ cursor' = [variant |-> x, cursors |-> NextCursors(f, c, g)],
         changes' \in 0 .. MaxChanges, outages' \in 0 .. MaxOutages
  PROVE  SurfaceShape' /\ DOMAIN reverse \subseteq DOMAIN (reverse')
<1>1. BackendIds' = BackendIds
  BY ConfigKept
<1>2. (\A n \in DOMAIN (reverse') : reverse'[n] \in BackendIds) /\ DOMAIN reverse \subseteq DOMAIN (reverse')
  <2>1. CASE reverse' = reverse
    BY <2>1 DEF SurfaceShape
  <2>2. CASE \E f, c, g : Resumes(c) /\ reverse' = ReverseMap(f, c, g)
    BY <2>2, ReverseGrows
  <2> QED BY <2>1, <2>2
<1>3. Resumes(cursor)'
  <2> DEFINE Goes(x) == x # None => /\ DOMAIN x.cursors \subseteq BackendIds
                                    /\ \A b \in DOMAIN x.cursors : x.cursors[b] \in Nat
  <2>1. \A x : Resumes(x) <=> Goes(x)
    BY DEF Resumes
  <2>2. Goes(cursor')
    <3>1. CASE cursor' = cursor
      BY <2>1, <3>1 DEF SurfaceShape
    <3>2. CASE cursor' = None
      BY <3>2
    <3>3. CASE \E x, f, c, g : Resumes(c) /\ cursor' = [variant |-> x, cursors |-> NextCursors(f, c, g)]
      <4>1. \E c : cursor' = c /\ Resumes(c)
        BY <3>3, CursorsTyped
      <4> HIDE DEF Goes
      <4> QED BY <2>1, <4>1
    <3> QED BY <3>1, <3>2, <3>3
  <2> QED BY <1>1, <2>2 DEF Resumes
<1> QED BY <1>1, <1>2, <1>3 DEF SurfaceShape

LEMMA SurfaceHolds ==
  ASSUME SurfaceInv, [SurfaceNext]_surfaceVars
  PROVE  SurfaceInv' /\ config' = config
<1>1. ASSUME config' = config, offers' \in [BackendIds -> OfferSets], up' \subseteq BackendIds,
             reverse' = reverse \/ \E f, c, g : Resumes(c) /\ reverse' = ReverseMap(f, c, g),
             cursor' = cursor, page' = page,
             changes' \in 0 .. MaxChanges, outages' \in 0 .. MaxOutages
      PROVE  SurfaceInv'
  <2>1. SurfaceShape' /\ DOMAIN reverse \subseteq DOMAIN (reverse')
    BY <1>1, ShapeKept DEF SurfaceInv
  <2>2. BackendIds' = BackendIds /\ Passthrough' = Passthrough /\ PageEntries' = PageEntries
    BY <1>1, ConfigKept
  <2> QED BY <1>1, <2>1, <2>2 DEF SurfaceInv
<1>2. ASSUME NEW v, NEW filter, NEW cur, Resumes(cur), NEW failing, ListTools(v, filter, cur, failing)
      PROVE  SurfaceInv' /\ config' = config
  <2>1. /\ UNCHANGED <<config, offers, up, changes, outages>>
        /\ reverse' = ReverseMap(filter, cur, failing)
        /\ \/ UNCHANGED <<raw, page, cursor, walk>>
           \/ /\ raw' = Collected(filter, cur, failing) \o LocalTools(filter)
              /\ page' = PageOf(filter, cur, failing)
        /\ \/ cursor' = cursor \/ cursor' = None
           \/ cursor' = [variant |-> EffectiveVariant(v), cursors |-> NextCursors(filter, cur, failing)]
    BY <1>2, PageOfList
  <2>2. SurfaceShape' /\ DOMAIN reverse \subseteq DOMAIN (reverse')
    <3>1. offers' \in [BackendIds -> OfferSets] /\ up' \subseteq BackendIds
          /\ changes' \in 0 .. MaxChanges /\ outages' \in 0 .. MaxOutages /\ SurfaceShape
      BY <2>1 DEF SurfaceInv, SurfaceShape
    <3>2. \E f, c, g : Resumes(c) /\ reverse' = ReverseMap(f, c, g)
      BY <1>2, <2>1
    <3>3. \/ cursor' = cursor \/ cursor' = None
          \/ \E x, f, c, g : Resumes(c) /\ cursor' = [variant |-> x, cursors |-> NextCursors(f, c, g)]
      BY <1>2, <2>1
    <3> QED BY <2>1, <3>1, <3>2, <3>3, ShapeKept
  <2>3. BackendIds' = BackendIds /\ Passthrough' = Passthrough /\ PageEntries' = PageEntries
    BY <2>1, ConfigKept
  <2>4. CASE page' = page
    BY <2>1, <2>2, <2>3, <2>4 DEF SurfaceInv
  <2>5. CASE page' = PageOf(filter, cur, failing)
    <3>1. /\ page' \in Seq(PageEntries)
          /\ Passthrough => \A e \in ToSet(page') : e.owner \in BackendIds => e.original \in DOMAIN (reverse')
      BY <1>2, <2>1, <2>5, PageTyped DEF SurfaceInv
    <3>2. page' \in Seq(PageEntries')
      BY <2>3, <3>1
    <3>3. Passthrough' => \A e \in ToSet(page') : e.owner \in BackendIds' => e.original \in DOMAIN (reverse')
      BY <2>3, <3>1
    <3> QED BY <2>1, <2>2, <3>2, <3>3 DEF SurfaceInv
  <2> QED BY <2>1, <2>4, <2>5
<1>3. Resumes(None) /\ Resumes(cursor)
  BY DEF SurfaceInv, SurfaceShape, Resumes
<1>4. SurfaceShape
  BY DEF SurfaceInv
<1>5. ASSUME NEW n, NEW failing, Call(n, failing) PROVE SurfaceInv' /\ config' = config
  <2>1. /\ UNCHANGED <<config, offers, up, page, cursor, changes, outages>>
        /\ reverse' = ReverseMap(NoFilter, None, failing)
    BY <1>5 DEF Call
  <2>2. offers' \in [BackendIds -> OfferSets] /\ up' \subseteq BackendIds
        /\ changes' \in 0 .. MaxChanges /\ outages' \in 0 .. MaxOutages
    BY <1>4, <2>1 DEF SurfaceShape
  <2>3. \E f, c, g : Resumes(c) /\ reverse' = ReverseMap(f, c, g)
    BY <1>3, <2>1
  <2> QED BY <1>1, <2>1, <2>2, <2>3
<1>6. ASSUME NEW b \in BackendIds, NEW o \in OfferSets, OffersChange(b, o) PROVE SurfaceInv' /\ config' = config
  <2>1. /\ UNCHANGED <<config, up, reverse, page, cursor, outages>>
        /\ offers' = [offers EXCEPT ![b] = o] /\ changes < MaxChanges /\ changes' = changes + 1
    BY <1>6 DEF OffersChange
  <2>2. offers' \in [BackendIds -> OfferSets] /\ up' \subseteq BackendIds
        /\ changes' \in 0 .. MaxChanges /\ outages' \in 0 .. MaxOutages
    BY <1>4, <2>1, OffersAssumption DEF SurfaceShape
  <2> QED BY <1>1, <2>1, <2>2
<1>7. ASSUME NEW b \in BackendIds, BreakerChanges(b) PROVE SurfaceInv' /\ config' = config
  <2>1. /\ UNCHANGED <<config, offers, reverse, page, cursor, changes>>
        /\ up' = (IF b \in up THEN up \ {b} ELSE up \cup {b}) /\ outages < MaxOutages /\ outages' = outages + 1
    BY <1>7 DEF BreakerChanges
  <2>2. offers' \in [BackendIds -> OfferSets] /\ up' \subseteq BackendIds
        /\ changes' \in 0 .. MaxChanges /\ outages' \in 0 .. MaxOutages
    BY <1>4, <2>1, OffersAssumption DEF SurfaceShape
  <2> QED BY <1>1, <2>1, <2>2
<1>8. ASSUME UNCHANGED surfaceVars PROVE SurfaceInv' /\ config' = config
  <2>1. UNCHANGED <<config, offers, up, reverse, page, cursor, changes, outages>>
    BY <1>8 DEF surfaceVars
  <2>2. offers' \in [BackendIds -> OfferSets] /\ up' \subseteq BackendIds
        /\ changes' \in 0 .. MaxChanges /\ outages' \in 0 .. MaxOutages
    BY <1>4, <2>1 DEF SurfaceShape
  <2> QED BY <1>1, <2>1, <2>2
<1> QED BY <1>2, <1>3, <1>5, <1>6, <1>7, <1>8 DEF SurfaceNext

LEMMA SurfaceStarts ==
  ASSUME SurfaceInit, \A c \in Configs : WellFormed(c)
  PROVE  SurfaceInv
<1>1. SurfaceShape
  BY OffersAssumption DEF SurfaceInit, SurfaceShape, Resumes
<1>2. page = << >>
  BY DEF SurfaceInit
<1>3. page \in Seq(PageEntries) /\ ToSet(page) = {}
  BY <1>2 DEF ToSet
<1> QED BY <1>1, <1>3 DEF SurfaceInv

\* What the tool surface always is: the cursor, the reverse map and the page hold
\* only what the backends and the handlers of the configuration give.
THEOREM SurfaceInvariance ==
  ASSUME \A c \in Configs : WellFormed(c)
  PROVE  SurfaceSpec => []SurfaceInv
<1>1. SurfaceInit => SurfaceInv
  BY SurfaceStarts
<1>2. SurfaceInv /\ [SurfaceNext]_surfaceVars => SurfaceInv'
  BY SurfaceHolds
<1> QED BY <1>1, <1>2, PTL DEF SurfaceSpec

\* Every variable that SurfaceTypeOK speaks of keeps to its type.
THEOREM SurfaceTypeCorrect ==
  ASSUME \A c \in Configs : WellFormed(c)
  PROVE  SurfaceSpec => []SurfaceTypeOK
<1>1. SurfaceInv => SurfaceTypeOK
  <2> SUFFICES ASSUME SurfaceInv PROVE SurfaceTypeOK
    OBVIOUS
  <2>1. SurfaceShape
    BY DEF SurfaceInv
  <2>2. ASSUME NEW i \in 1 .. Len(page)
        PROVE  page[i].owner = None \/ page[i].owner \in BackendIds \cup ToSet(config.handlers)
    <3>1. page[i] \in PageEntries
      BY DEF SurfaceInv
    <3>2. CASE page[i] = SearchEntry
      BY <3>2, Renames3 DEF SearchEntry
    <3>3. CASE \E x \in FromHandlers : page[i] = Renamed(x)
      BY <3>3, Renames3 DEF FromHandlers
    <3>4. CASE \E x \in FromBackends : page[i] = Renamed(x)
      BY <3>4, Renames3 DEF FromBackends
    <3> QED BY <3>1, <3>2, <3>3, <3>4 DEF PageEntries
  <2> QED BY <2>1, <2>2 DEF SurfaceTypeOK, SurfaceShape, Resumes
<1> QED BY <1>1, SurfaceInvariance, PTL

-----------------------------------------------------------------------------
\* Where a call by a served name goes.

\* The names of the proxy's own tools read back as well.
LEMMA OneCharacter ==
  ASSUME NEW c, NEW d, c # Delimiter[1]
  PROVE  split(prefix(<<c>>, <<d>>)) = <<<<c>>, <<d>>>>
<1> DEFINE T == {Delimiter[1], c, d}
           a == <<c>>
           b == <<d>>
<1>1. /\ Delimiter[1] \in T /\ a \in Seq(T) /\ b \in Seq(T) /\ a # None /\ b # None
      /\ Len(a) = 1 /\ a[1] = c
  BY DEF None
<1>2. Occurrences(a, Delimiter) = {}
  BY <1>1, Mark DEF Occurrences
<1> HIDE DEF T, a, b
<1>3. a[Len(a)] # Delimiter[1]
  BY <1>1
<1>4. split(prefix(a, b)) = <<a, b>>
  BY <1>1, <1>2, <1>3, MarkSplit
<1> QED BY <1>4 DEF a, b

LEMMA SearchSplit ==
  split(ProxySearchTool) = <<<<"p">>, <<"s">>>>
<1>1. "p" # Delimiter[1]
  <2>1. "p" # "_"
    BY Zenon
  <2>2. \A c : <<c, c>>[1] = c
    OBVIOUS
  <2>3. Delimiter[1] = "_"
    BY <2>2, Zenon DEF Delimiter
  <2> QED BY <2>1, <2>3, Zenon
<1> DEFINE c == "p"
           d == "s"
<1> HIDE DEF c, d
<1>2. c # Delimiter[1]
  BY <1>1, Zenon DEF c
<1>3. split(prefix(<<c>>, <<d>>)) = <<<<c>>, <<d>>>>
  BY <1>2, OneCharacter
<1> QED BY <1>3, Zenon DEF ProxySearchTool, c, d

LEMMA HandlerSplit ==
  ASSUME NEW id, PlainId(id)
  PROVE  split(prefix(id, HandlerTool)) = <<id, HandlerTool>>
<1>1. PICK c : HandlerTool = <<c>>
  BY Zenon DEF HandlerTool
<1> DEFINE T == Characters \cup {c}
           b == <<c>>
<1>2. Delimiter[1] \in T /\ b \in Seq(T) /\ b # None
  BY DEF Characters, None
<1>3. id \in Seq(T) /\ id # None /\ Occurrences(id, Delimiter) = {} /\ id[Len(id)] # Delimiter[1]
  BY DEF PlainId, Name
<1> HIDE DEF T, b
<1>4. split(prefix(id, b)) = <<id, b>>
  BY <1>2, <1>3, MarkSplit
<1> QED BY <1>1, <1>4 DEF b

\* A configuration's two kinds of names, and its renames.
LEMMA TellsApart ==
  ASSUME SurfaceShape, Callable(config)
  PROVE  /\ config.disclose > 0 => <<"p">> \notin BackendIds /\ <<"p">> \notin ToSet(config.handlers)
         /\ Single \/ Passthrough => \A t \in Offered :
              /\ split(t) # None => split(t)[1] \notin ToSet(config.handlers)
              /\ config.disclose > 0 => t # ProxySearchTool
         /\ config.strategy = "manual" =>
              /\ ~Single /\ ~Passthrough
              /\ Len(config.overrides) \in Nat
              /\ \A i \in 1 .. Len(config.overrides) :
                   /\ split(config.overrides[i][1]) # None /\ split(config.overrides[i][1])[1] \in BackendIds
                   /\ split(config.overrides[i][2]) = None
              /\ \A i, j \in 1 .. Len(config.overrides) :
                   config.overrides[i][1] = config.overrides[j][1] \/ config.overrides[i][2] = config.overrides[j][2]
                     => i = j
<1>1. Single <=> Lone(config)
  BY DEF Single, Lone
<1>2. Passthrough => config.strategy = "passthrough"
  BY DEF Passthrough
<1>3. config.disclose > 0 => <<"p">> \notin BackendIds /\ <<"p">> \notin ToSet(config.handlers)
  <2> DEFINE p == <<"p">>
  <2> HIDE DEF p
  <2>1. config.disclose > 0 => p \notin ToSet(config.backends) \cup ToSet(config.handlers)
    BY DEF Callable, p
  <2>2. config.disclose > 0 => p \notin BackendIds /\ p \notin ToSet(config.handlers)
    BY <2>1 DEF BackendIds
  <2> QED BY <2>2 DEF p
<1>4. ASSUME Single \/ Passthrough
      PROVE  \A t \in Offered :
              /\ split(t) # None => split(t)[1] \notin ToSet(config.handlers)
              /\ config.disclose > 0 => t # ProxySearchTool
  <2>1. Unlabelled(config)
    BY <1>1, <1>2, <1>4 DEF Unlabelled
  <2>2. \A o \in OfferSets : \A t \in ToSet(o) :
              /\ split(t) # None => split(t)[1] \notin ToSet(config.handlers)
              /\ config.disclose > 0 => t # ProxySearchTool
    BY <2>1 DEF Callable
  <2> QED BY <2>2 DEF Offered
<1>5. ASSUME config.strategy = "manual"
      PROVE  /\ ~Single /\ ~Passthrough
             /\ Len(config.overrides) \in Nat
             /\ \A i \in 1 .. Len(config.overrides) :
                  /\ split(config.overrides[i][1]) # None /\ split(config.overrides[i][1])[1] \in BackendIds
                  /\ split(config.overrides[i][2]) = None
             /\ \A i, j \in 1 .. Len(config.overrides) :
                  config.overrides[i][1] = config.overrides[j][1] \/ config.overrides[i][2] = config.overrides[j][2]
                    => i = j
  <2> DEFINE os == config.overrides
  <2>1. /\ ~Lone(config) /\ os \in Seq(ToSet(os))
        /\ \A o \in ToSet(os) : split(o[1]) # None /\ split(o[1])[1] \in ToSet(config.backends) /\ split(o[2]) = None
        /\ \A i, j \in 1 .. Len(os) : os[i][1] = os[j][1] \/ os[i][2] = os[j][2] => i = j
    BY <1>5 DEF Callable
  <2>2. ~Passthrough
    BY <1>2, <1>5
  <2> HIDE DEF os
  <2>3. Len(os) \in Nat /\ \A i \in 1 .. Len(os) : os[i] \in ToSet(os)
    BY <2>1
  <2> QED BY <1>1, <2>1, <2>2, <2>3 DEF os, BackendIds
<1> QED BY <1>3, <1>4, <1>5

\* Where a call by the name of an entry should go.
Reaches(e) ==
  LET to == Resolve(e.name)
  IN  IF e.owner = None THEN to.kind = "search"
      ELSE IF e.owner \notin BackendIds THEN to = Target("local", e.owner, e.original)
      ELSE IF Passthrough THEN to.kind = "backend" /\ to.original = e.original
      ELSE to = Target("backend", e.owner, e.original)

LEMMA Targets ==
  ASSUME NEW k, NEW o, NEW n
  PROVE  Target(k, o, n).kind = k /\ Target(k, o, n).owner = o /\ Target(k, o, n).original = n
BY DEF Target

LEMMA PairParts ==
  ASSUME NEW x, NEW y
  PROVE  <<x, y>> # None /\ <<x, y>>[1] = x /\ <<x, y>>[2] = y
BY DEF None

LEMMA ReachesLocal ==
  ASSUME SurfaceShape, Callable(config), NEW h \in ToSet(config.handlers),
         NEW e, e = Renamed(Entry(prefix(h, HandlerTool), h, HandlerTool))
  PROVE  Reaches(e)
<1> DEFINE n == prefix(h, HandlerTool)
<1>1. h # None /\ h \notin BackendIds /\ PlainId(h)
  BY OwnersApart
<1>2. split(n) = <<h, HandlerTool>>
  BY <1>1, HandlerSplit
<1>3. split(n) # None /\ split(n)[1] = h /\ split(n)[2] = HandlerTool
  BY <1>2, PairParts
<1> HIDE DEF n
<1>4. e.owner = h /\ e.original = HandlerTool /\ e.name = IF config.strategy = "manual" THEN Exposed(n) ELSE n
  BY Renames3 DEF n
<1>5. e.name = n
  <2>1. CASE config.strategy = "manual"
    <3>1. Renames(1, n) = {}
      BY <1>1, <1>3, <2>1, TellsApart DEF Renames
    <3> QED BY <1>4, <2>1, <3>1 DEF Exposed
  <2> QED BY <1>4, <2>1
<1>6. ~(config.disclose > 0 /\ n = ProxySearchTool)
  <2> SUFFICES ASSUME config.disclose > 0, n = ProxySearchTool PROVE FALSE
    OBVIOUS
  <2>1. split(n)[1] = <<"p">>
    BY SearchSplit, PairParts
  <2> QED BY <1>3, <2>1, TellsApart
<1>7. Resolve(n) = Target("local", split(n)[1], split(n)[2])
  BY <1>3, <1>6 DEF Resolve
<1> QED BY <1>1, <1>3, <1>4, <1>5, <1>7 DEF Reaches

LEMMA ReachesSearch ==
  ASSUME config.disclose > 0
  PROVE  Reaches(SearchEntry)
<1>1. SearchEntry.owner = None /\ SearchEntry.name = ProxySearchTool
  BY Renames3 DEF SearchEntry
<1>2. Resolve(ProxySearchTool) = Target("search", None, ProxySearchTool)
  BY DEF Resolve
<1> QED BY <1>1, <1>2, Targets DEF Reaches

LEMMA ReachesBackend ==
  ASSUME SurfaceShape, Callable(config), NEW b \in BackendIds, NEW t \in Offered,
         NEW e, e = Renamed(Entry(ShownAs(b, t), b, t)), Passthrough => t \in DOMAIN reverse
  PROVE  Reaches(e)
<1>1. PlainId(b) /\ b # None /\ Name(t)
  BY OwnersApart, OffersTyped
<1>2. /\ e.owner = b /\ e.original = t
      /\ e.name = IF config.strategy = "manual" THEN Exposed(ShownAs(b, t)) ELSE ShownAs(b, t)
  BY Renames3
<1>3. split(prefix(b, t)) = <<b, t>>
  BY <1>1, PrefixSplit
<1>4. b \notin ToSet(config.handlers)
  BY OwnersApart
<1>5. CASE Single \/ Passthrough
  <2>1. config.strategy # "manual" /\ ShownAs(b, t) = t
    BY <1>5, TellsApart DEF ShownAs, Label, Passthrough
  <2>2. e.name = t
    BY <1>2, <2>1
  <2>3. /\ ~(config.disclose > 0 /\ t = ProxySearchTool)
        /\ ~(split(t) # None /\ split(t)[1] \in ToSet(config.handlers))
    BY <1>5, TellsApart
  <2>4. CASE Single
    <3>1. Resolve(t) = Target("backend", config.backends[1], t)
      BY <2>3, <2>4 DEF Resolve
    <3>2. config.backends[1] = b /\ ~Passthrough
      <4>1. Len(config.backends) = 1 /\ DOMAIN config.backends = 1 .. 1
        BY <2>4 DEF Single, SurfaceShape, WellFormed
      <4>2. PICK i \in DOMAIN config.backends : config.backends[i] = b
        BY DEF BackendIds, ToSet
      <4>3. i = 1
        BY <4>1, <4>2
      <4> QED BY <2>4, <4>2, <4>3 DEF Passthrough
    <3> QED BY <1>1, <1>2, <2>2, <3>1, <3>2 DEF Reaches
  <2>5. CASE ~Single /\ Passthrough
    <3>1. Resolve(t) = ToBackend(<<reverse[t], t>>)
      BY <2>1, <2>3, <2>5 DEF Resolve
    <3>2. reverse[t] \in BackendIds
      BY <2>5 DEF SurfaceShape
    <3>3. ToBackend(<<reverse[t], t>>) = Target("backend", reverse[t], t)
      BY <3>2, PairParts DEF ToBackend
    <3> QED BY <1>1, <1>2, <2>2, <2>5, <3>1, <3>3, Targets DEF Reaches
  <2> QED BY <1>5, <2>4, <2>5
<1>6. CASE ~Single /\ ~Passthrough
  <2> DEFINE n == prefix(b, t)
  <2>1. ShownAs(b, t) = n
    BY <1>6 DEF ShownAs, Label
  <2>2. split(n) # None /\ split(n)[1] = b /\ split(n)[2] = t
    BY <1>3, PairParts
  <2> HIDE DEF n
  <2>3. ToBackend(split(n)) = Target("backend", b, t)
    BY <2>2 DEF ToBackend
  <2>4. config.disclose > 0 => n # ProxySearchTool
    <3>1. ASSUME config.disclose > 0, n = ProxySearchTool PROVE FALSE
      <4>1. split(n)[1] = <<"p">>
        BY <3>1, SearchSplit, PairParts
      <4> QED BY <2>2, <3>1, <4>1, TellsApart
    <3> QED BY <3>1
  <2>5. CASE config.strategy # "manual"
    <3>1. Resolve(n) = ToBackend(split(n))
      BY <1>4, <1>6, <2>2, <2>4, <2>5 DEF Resolve
    <3> QED BY <1>1, <1>2, <1>6, <2>1, <2>3, <2>5, <3>1 DEF Reaches
  <2>6. CASE config.strategy = "manual" /\ Renames(1, n) = {}
    <3>1. e.name = n
      BY <1>2, <2>1, <2>6 DEF Exposed
    <3>2. Renames(2, n) = {}
      BY <2>2, <2>6, TellsApart DEF Renames
    <3>3. Resolve(n) = ToBackend(split(n))
      BY <1>4, <1>6, <2>2, <2>4, <2>6, <3>2 DEF Resolve, Namespaced
    <3> QED BY <1>1, <1>2, <1>6, <2>3, <3>1, <3>3 DEF Reaches
  <2>7. CASE config.strategy = "manual" /\ Renames(1, n) # {}
    <3>1. Len(config.overrides) \in Nat
      BY <2>7, TellsApart
    <3> DEFINE i == Max(Renames(1, n))
               x == config.overrides[i][2]
    <3>2. i \in Renames(1, n)
      <4>1. Renames(1, n) \subseteq 0 .. Len(config.overrides)
        BY <3>1 DEF Renames
      <4> QED BY <2>7, <3>1, <4>1, HasMax
    <3> HIDE DEF i
    <3>3. i \in 1 .. Len(config.overrides) /\ config.overrides[i][1] = n
      BY <3>2 DEF Renames
    <3>4. e.name = x
      BY <1>2, <2>1, <2>7 DEF Exposed, i
    <3>5. split(x) = None /\ \A j \in 1 .. Len(config.overrides) : config.overrides[j][2] = x => j = i
      BY <2>7, <3>3, TellsApart
    <3>6. Renames(2, x) = {i}
      BY <3>3, <3>5 DEF Renames
    <3>7. Max({i}) = i
      BY <3>3 DEF Max
    <3> HIDE DEF x
    <3>8. Namespaced(x) = n
      BY <3>3, <3>6, <3>7 DEF Namespaced
    <3>9. x # ProxySearchTool
      BY <3>5, SearchSplit, PairParts
    <3>10. Resolve(x) = ToBackend(split(n))
      BY <1>6, <2>7, <3>5, <3>8, <3>9 DEF Resolve
    <3> QED BY <1>1, <1>2, <1>6, <2>3, <3>4, <3>10 DEF Reaches
  <2> QED BY <2>5, <2>6, <2>7
<1> QED BY <1>5, <1>6

\* A call by a name the client was just served reaches the party that listed
\* it, under the name it listed (_route_call, resolve, prefix, split), whatever
\* the backends offer, fail and change in between.
THEOREM CallsReachTheirLister ==
  ASSUME \A c \in Configs : WellFormed(c) /\ Callable(c)
  PROVE  SurfaceSpec => []CallReachesLister
<1>1. SurfaceInv => CallReachesLister
  <2> SUFFICES ASSUME SurfaceInv, NEW e \in ToSet(page) PROVE Reaches(e)
    BY DEF CallReachesLister, Reaches
  <2>1. SurfaceShape /\ Callable(config)
    BY DEF SurfaceInv, SurfaceShape
  <2>2. e \in PageEntries
    BY SeqOfItsOwn DEF SurfaceInv
  <2>3. CASE e = SearchEntry /\ config.disclose > 0
    BY <2>3, ReachesSearch
  <2>4. CASE \E x \in FromHandlers : e = Renamed(x)
    BY <2>1, <2>4, ReachesLocal DEF FromHandlers
  <2>5. CASE \E x \in FromBackends : e = Renamed(x)
    <3>1. PICK b \in BackendIds, t \in Offered : e = Renamed(Entry(ShownAs(b, t), b, t))
      BY <2>5 DEF FromBackends
    <3>2. e.owner = b /\ e.original = t
      BY <3>1, Renames3
    <3>3. Passthrough => t \in DOMAIN reverse
      BY <3>2 DEF SurfaceInv
    <3> QED BY <2>1, <3>1, <3>3, ReachesBackend
  <2> QED BY <2>2, <2>3, <2>4, <2>5 DEF PageEntries
<1>2. SurfaceSpec => []SurfaceInv
  BY SurfaceInvariance
<1> QED BY <1>1, <1>2, PTL

-----------------------------------------------------------------------------
\* The best copy of each name.

\* Sifting repeats nothing that did not repeat.
LEMMA SiftDistinct ==
  ASSUME NEW T, NEW s \in Seq(T), NEW S, \A i, j \in 1 .. Len(s) : s[i] = s[j] => i = j
  PROVE  \A k, l \in 1 .. Len(Sift(s, S)) : Sift(s, S)[k] = Sift(s, S)[l] => k = l
<1> DEFINE f == Sifted(s, S)
           Fresh(q, i) == /\ \A k \in 1 .. Len(q) : \E j \in 1 .. i : q[k] = s[j]
                          /\ \A k, l \in 1 .. Len(q) : q[k] = q[l] => k = l
           X == {i \in 0 .. Len(s) : Fresh(f[i], i)}
<1>1. /\ Len(s) \in Nat /\ f[0] = << >>
      /\ \A i \in 0 .. Len(s) - 1 :
           /\ i + 1 \in 1 .. Len(s) /\ s[i + 1] \in T
           /\ f[i + 1] = IF s[i + 1] \in S THEN Append(f[i], s[i + 1]) ELSE f[i]
      /\ \A i \in 0 .. Len(s) : f[i] \in Seq(T)
  BY SiftedAt
<1> HIDE DEF f
<1>2. 0 \in X
  <2>1. Fresh(<< >>, 0)
    OBVIOUS
  <2> HIDE DEF Fresh
  <2>2. Fresh(f[0], 0)
    BY <1>1, <2>1
  <2>3. 0 \in 0 .. Len(s)
    BY <1>1
  <2> QED BY <2>2, <2>3
<1>3. ASSUME NEW i \in 0 .. Len(s) - 1, i \in X PROVE i + 1 \in X
  <2>1. i \in Nat /\ i \in 0 .. Len(s) /\ i + 1 \in 0 .. Len(s) /\ i + 1 \in 1 .. Len(s)
        /\ \A j \in 1 .. i : j \in 1 .. i + 1 /\ j \in 1 .. Len(s) /\ j # i + 1
    BY <1>1
  <2>2. f[i] \in Seq(T) /\ s[i + 1] \in T /\ Fresh(f[i], i)
    BY <1>1, <1>3, <2>1
  <2> DEFINE a == Append(f[i], s[i + 1])
             n == Len(f[i])
  <2>3. n \in Nat /\ Len(a) = n + 1 /\ a[n + 1] = s[i + 1] /\ \A k \in 1 .. n : a[k] = f[i][k]
    BY <2>2, AppendProperties
  <2>4. \A k \in 1 .. n : f[i][k] # s[i + 1]
    BY <2>1, <2>2
  <2> HIDE DEF a
  <2>5. Fresh(a, i + 1)
    <3> HIDE DEF n
    <3>1. \A k \in 1 .. Len(a) : k \in 1 .. n \/ k = n + 1
      BY <2>3
    <3>2. \A k \in 1 .. n : \E j \in 1 .. i : f[i][k] = s[j]
      BY <2>2 DEF n
    <3>3. \A k, l \in 1 .. n : f[i][k] = f[i][l] => k = l
      BY <2>2 DEF n
    <3>4. i + 1 \in 1 .. i + 1
      BY <2>1
    <3>5. ASSUME NEW k \in 1 .. Len(a) PROVE \E j \in 1 .. i + 1 : a[k] = s[j]
      BY <2>1, <2>3, <3>1, <3>2, <3>4
    <3>6. ASSUME NEW k \in 1 .. Len(a), NEW l \in 1 .. Len(a), a[k] = a[l] PROVE k = l
      <4>1. CASE k \in 1 .. n /\ l \in 1 .. n
        BY <2>3, <3>3, <3>6, <4>1
      <4>2. CASE k \in 1 .. n /\ l = n + 1
        BY <2>3, <2>4, <3>6, <4>2
      <4>3. CASE k = n + 1 /\ l \in 1 .. n
        BY <2>3, <2>4, <3>6, <4>3
      <4> QED BY <3>1, <4>1, <4>2, <4>3
    <3> QED BY <3>5, <3>6
  <2>6. CASE s[i + 1] \in S
    <3>1. f[i + 1] = a
      BY <1>1, <2>6 DEF a
    <3> HIDE DEF Fresh
    <3> QED BY <2>1, <2>5, <3>1
  <2>7. CASE s[i + 1] \notin S
    <3>1. f[i + 1] = f[i]
      BY <1>1, <2>7
    <3>2. Fresh(f[i], i + 1)
      BY <2>1, <2>2
    <3> HIDE DEF Fresh
    <3> QED BY <2>1, <3>1, <3>2
  <2> QED BY <2>6, <2>7
<1>4. \A i \in 0 .. Len(s) : i \in X
  <2> HIDE DEF X
  <2> QED BY <1>1, <1>2, <1>3, Climbing
<1>5. Fresh(f[Len(s)], Len(s))
  <2> HIDE DEF Fresh
  <2> QED BY <1>1, <1>4
<1> QED BY <1>5 DEF Sift, f

LEMMA LabelsRead ==
  ASSUME SurfaceShape, config.strategy = "priority", ~Single, NEW x \in FromBackends \cup FromHandlers
  PROVE  OriginalOf(x.name) = x.original /\ RankOf(x.name) = Rank(x.owner)
<1>1. CASE x \in FromBackends
  <2>1. PICK b \in BackendIds, t \in Offered : x = Entry(ShownAs(b, t), b, t)
    BY <1>1 DEF FromBackends
  <2>2. ShownAs(b, t) = prefix(b, t)
    BY DEF ShownAs, Label, Passthrough
  <2>3. PlainId(b) /\ Name(t)
    BY OwnersApart, OffersTyped
  <2>4. split(prefix(b, t)) = <<b, t>>
    BY <2>3, PrefixSplit
  <2>5. x.owner = b /\ x.original = t /\ x.name = prefix(b, t)
    BY <2>1, <2>2, Renames3
  <2>6. split(x.name) # None /\ split(x.name)[1] = b /\ split(x.name)[2] = t
    BY <2>4, <2>5, PairParts
  <2> QED BY <2>5, <2>6 DEF OriginalOf, RankOf
<1>2. CASE x \in FromHandlers
  <2>1. PICK h \in ToSet(config.handlers) : x = Entry(prefix(h, HandlerTool), h, HandlerTool)
    BY <1>2 DEF FromHandlers
  <2>2. split(prefix(h, HandlerTool)) = <<h, HandlerTool>>
    BY OwnersApart, HandlerSplit
  <2>3. x.owner = h /\ x.original = HandlerTool /\ x.name = prefix(h, HandlerTool)
    BY <2>1, Renames3
  <2>4. split(x.name) # None /\ split(x.name)[1] = h /\ split(x.name)[2] = HandlerTool
    BY <2>2, <2>3, PairParts
  <2> QED BY <2>3, <2>4 DEF OriginalOf, RankOf
<1> QED BY <1>1, <1>2

\* A page p holds the best copy of each entry of r.
Bests(r, p) ==
  \A e \in ToSet(r) :
    LET copies == {i \in 1 .. Len(p) : p[i].original = e.original}
    IN  Cardinality(copies) = 1 /\ \A i \in copies : Rank(p[i].owner) <= Rank(e.owner)

LEMMA PriorityBests ==
  ASSUME SurfaceShape, config.strategy = "priority", ~Single, NEW r \in Seq(FromBackends \cup FromHandlers)
  PROVE  Bests(r, apply_priority(r))
<1> DEFINE E == FromBackends \cup FromHandlers
           p == apply_priority(r)
           N == Len(r)
           order == Order(r)
           id == [i \in 1 .. N |-> i]
           S == {i \in 1 .. N : i = First(Copies(r, OriginalAt(r, i)))}
<1>1. /\ order \in Seq(1 .. N) /\ Len(p) = Len(order)
      /\ \A k \in 1 .. Len(order) : Puts(r, k)
  BY PriorityPuts
<1>2. \A i \in 1 .. N : /\ r[i] \in E /\ OriginalAt(r, i) = r[i].original
                        /\ RankOf(r[i].name) = Rank(r[i].owner)
  BY LabelsRead DEF OriginalAt
<1>3. order = Sift(id, S) /\ id \in Seq(1 .. N) /\ ToSet(id) = 1 .. N /\ Len(id) = N
  BY DEF Order, ToSet
<1>4. ToSet(order) = S
  <2>1. ToSet(order) = ToSet(id) \cap S
    <3> HIDE DEF order, id, S
    <3> QED BY <1>3, SiftElems
  <2> QED BY <1>3, <2>1
<1>5. \A k, l \in 1 .. Len(order) : order[k] = order[l] => k = l
  <2>1. \A i, j \in 1 .. Len(id) : id[i] = id[j] => i = j
    BY <1>3
  <2> HIDE DEF order, id, S
  <2> QED BY <1>3, <2>1, SiftDistinct
<1>6. DOMAIN order = 1 .. Len(order)
  BY <1>1
<1> HIDE DEF E, p, order, id
<1>7. ASSUME NEW k \in 1 .. Len(order)
      PROVE  /\ order[k] \in 1 .. N /\ order[k] = First(Copies(r, r[order[k]].original))
             /\ p[k].original = r[order[k]].original
             /\ \A j \in Copies(r, r[order[k]].original) : Rank(p[k].owner) <= Rank(r[j].owner)
  <2> DEFINE i == order[k]
             j == BestCopy(r, OriginalAt(r, i))
  <2>1. /\ i \in 1 .. N /\ i = First(Copies(r, OriginalAt(r, i))) /\ j \in Copies(r, OriginalAt(r, i)) /\ p[k] = r[j]
    BY <1>1 DEF Puts, order, p
  <2> HIDE DEF i
  <2>2. OriginalAt(r, i) = r[i].original
    BY <1>2, <2>1
  <2>3. j \in 1 .. N /\ OriginalAt(r, j) = OriginalAt(r, i)
    BY <2>1 DEF Copies, OriginalAt
  <2>4. \A l \in Copies(r, OriginalAt(r, i)) : RankOf(r[j].name) <= RankOf(r[l].name)
    BY <2>1, HasBest
  <2>5. \A l \in Copies(r, OriginalAt(r, i)) : l \in 1 .. N
    BY DEF Copies
  <2> HIDE DEF j
  <2>6. \A l \in Copies(r, OriginalAt(r, i)) : Rank(r[j].owner) <= Rank(r[l].owner)
    BY <1>2, <2>3, <2>4, <2>5
  <2>7. p[k].original = r[i].original
    BY <1>2, <2>1, <2>2, <2>3
  <2> QED BY <2>1, <2>2, <2>6, <2>7 DEF i
<1>8. ASSUME NEW e \in ToSet(r)
      PROVE  LET copies == {i \in 1 .. Len(p) : p[i].original = e.original}
             IN  Cardinality(copies) = 1 /\ \A i \in copies : Rank(p[i].owner) <= Rank(e.owner)
  <2> DEFINE o == e.original
             copies == {i \in 1 .. Len(p) : p[i].original = o}
             f == First(Copies(r, o))
  <2>1. PICK m \in 1 .. N : r[m] = e
    BY DEF ToSet
  <2>2. m \in Copies(r, o) /\ Copies(r, o) \subseteq 1 .. N
    BY <1>2, <2>1 DEF Copies, OriginalAt
  <2>3. f \in Copies(r, o)
    <3> Copies(r, o) \subseteq Nat
      BY <2>2
    <3> QED BY <2>2, HasFirst
  <2> HIDE DEF f
  <2>4. f \in S /\ r[f].original = o
    BY <1>2, <2>2, <2>3 DEF Copies, OriginalAt, f
  <2>5. PICK k \in 1 .. Len(order) : order[k] = f
    BY <1>4, <1>6, <2>4 DEF ToSet
  <2>6. k \in copies
    BY <1>1, <1>7, <2>4, <2>5 DEF p, order
  <2>7. ASSUME NEW l \in copies PROVE l = k
    <3>1. l \in 1 .. Len(order) /\ p[l].original = o
      BY <1>1 DEF p, order
    <3>2. order[l] = f
      BY <1>7, <3>1 DEF f
    <3> QED BY <1>5, <2>5, <3>1, <3>2
  <2>8. copies = {k}
    BY <2>6, <2>7
  <2>9. Cardinality(copies) = 1
    <3> HIDE DEF copies
    <3> QED BY <2>8, FS_Singleton
  <2>10. Rank(p[k].owner) <= Rank(e.owner)
    BY <1>7, <2>1, <2>2, <2>4, <2>5
  <2> QED BY <2>8, <2>9, <2>10
<1> QED BY <1>8 DEF Bests, p

\* With the priority strategy a page serves exactly one copy of each original
\* name, and none of a backend of lower priority than another copy's
\* (collision.py), if no configuration with that strategy has a single backend.
THEOREM PriorityServesBest ==
  ASSUME \A c \in Configs : WellFormed(c) /\ (c.strategy = "priority" => ~Lone(c))
  PROVE  SurfaceSpec => []PriorityKeepsBest
<1>1. PriorityKeepsBest <=> (config.strategy = "priority" /\ config.disclose = 0 => Bests(raw, page))
  BY DEF PriorityKeepsBest, Bests
<1>2. SurfaceInit => PriorityKeepsBest
  BY DEF SurfaceInit, PriorityKeepsBest, ToSet
<1>3. SurfaceInv /\ PriorityKeepsBest /\ [SurfaceNext]_surfaceVars => PriorityKeepsBest'
  <2> SUFFICES ASSUME SurfaceInv, PriorityKeepsBest, [SurfaceNext]_surfaceVars,
                      config'.strategy = "priority" /\ config'.disclose = 0
               PROVE  Bests(raw, page)'
    BY DEF PriorityKeepsBest, Bests
  <2>1. config' = config /\ SurfaceShape
    BY SurfaceHolds DEF SurfaceInv
  <2>2. \A id : Rank(id)' = Rank(id)
    BY <2>1 DEF Rank
  <2>3. CASE UNCHANGED <<raw, page>>
    <3>1. Bests(raw, page)
      BY <1>1, <2>1
    <3> QED BY <2>2, <2>3, <3>1 DEF Bests
  <2>4. ASSUME NEW v, NEW filter, NEW cur, Resumes(cur), NEW failing, ListTools(v, filter, cur, failing)
        PROVE  Bests(raw, page)'
    <3> DEFINE r == Collected(filter, cur, failing) \o LocalTools(filter)
    <3>1. UNCHANGED <<raw, page>> \/ (raw' = r /\ page' = PageOf(filter, cur, failing))
      BY <2>4, PageOfList
    <3>2. PageOf(filter, cur, failing) = apply_priority(r)
      BY <2>1 DEF PageOf, Resolved, disclose
    <3>3. r \in Seq(FromBackends \cup FromHandlers)
      <4>1. r \in Seq(Answered(filter, cur, failing) \cup FromHandlers)
            /\ Answered(filter, cur, failing) \cup FromHandlers \subseteq FromBackends \cup FromHandlers
        BY <2>1, <2>4, EntriesTyped
      <4> HIDE DEF r
      <4> QED BY <4>1, SeqMonotonic
    <3> HIDE DEF r
    <3>4. ~Single
      BY <2>1 DEF Single, Lone, SurfaceShape
    <3>5. Bests(r, apply_priority(r))
      BY <2>1, <3>3, <3>4, PriorityBests
    <3>6. CASE raw' = r /\ page' = apply_priority(r)
      BY <2>2, <3>5, <3>6 DEF Bests
    <3> QED BY <2>3, <3>1, <3>2, <3>6
  <2>5. Resumes(None) /\ Resumes(cursor)
    BY <2>1 DEF SurfaceShape, Resumes
  <2> QED BY <2>3, <2>4, <2>5 DEF SurfaceNext, Call, OffersChange, BreakerChanges, surfaceVars
<1>4. SurfaceSpec => []SurfaceInv
  BY SurfaceInvariance
<1> QED BY <1>2, <1>3, <1>4, PTL DEF SurfaceSpec

-----------------------------------------------------------------------------
\* The walk through the pages.

\* b's entries of a sequence, and the names they had there.
OwnedBy(q, b) == Sift(q, {e \in ToSet(q) : e.owner = b})
Originals(q) == [i \in 1 .. Len(q) |-> q[i].original]

LEMMA OwnedSift ==
  ASSUME NEW T, NEW q \in Seq(T), NEW b
  PROVE  OwnedBy(q, b) = Sift(q, {e \in T : e.owner = b})
<1> DEFINE P == {e \in ToSet(q) : e.owner = b}
           Q == {e \in T : e.owner = b}
<1>1. ToSet(q) \subseteq T /\ \A i \in 1 .. Len(q) : q[i] \in ToSet(q)
  BY SeqOfItsOwn
<1>2. \A i \in 1 .. Len(q) : q[i] \in P <=> q[i] \in Q
  BY <1>1
<1> HIDE DEF P, Q
<1>3. Sift(q, P) = Sift(q, Q)
  BY <1>2, SiftSame
<1> QED BY <1>3 DEF OwnedBy, P, Q

\* Two stretches of entries, and what b has of both.
Parts(p, q, b) == OwnedBy(p \o q, b) = OwnedBy(p, b) \o OwnedBy(q, b)
NamesJoin(p, q) == Originals(p \o q) = Originals(p) \o Originals(q)

LEMMA OwnedConcat ==
  ASSUME NEW T, NEW p \in Seq(T), NEW q \in Seq(T), NEW b
  PROVE  Parts(p, q, b) /\ OwnedBy(p, b) \in Seq(T) /\ p \o q \in Seq(T)
<1> DEFINE Q == {e \in T : e.owner = b}
           s == p \o q
<1>1. s \in Seq(T)
  BY ConcatProperties
<1>2. Sift(s, Q) = Sift(p, Q) \o Sift(q, Q)
  <2> HIDE DEF Q
  <2> QED BY SiftConcat
<1> HIDE DEF s
<1>3. OwnedBy(s, b) = Sift(s, Q) /\ OwnedBy(p, b) = Sift(p, Q) /\ OwnedBy(q, b) = Sift(q, Q)
  BY <1>1, OwnedSift
<1>4. Sift(p, Q) \in Seq(T)
  <2> HIDE DEF Q
  <2> QED BY SiftElems
<1> HIDE DEF Q
<1> QED BY <1>1, <1>2, <1>3, <1>4 DEF Parts, s

LEMMA OriginalsConcat ==
  ASSUME NEW T, NEW p \in Seq(T), NEW q \in Seq(T)
  PROVE  NamesJoin(p, q)
<1> DEFINE U == {x.original : x \in T}
           s == p \o q
           a == Originals(p)
           b == Originals(q)
           c == Originals(s)
<1>1. /\ s \in Seq(T) /\ Len(p) \in Nat /\ Len(q) \in Nat /\ Len(s) = Len(p) + Len(q)
      /\ \A i \in 1 .. Len(p) + Len(q) : s[i] = IF i <= Len(p) THEN p[i] ELSE q[i - Len(p)]
  BY ConcatProperties
<1> HIDE DEF s
<1>2. ASSUME NEW x \in Seq(T)
      PROVE  Originals(x) \in Seq(U) /\ Len(Originals(x)) = Len(x) /\ \A i \in 1 .. Len(x) : Originals(x)[i] = x[i].original
  <2>1. Len(x) \in Nat /\ \A i \in 1 .. Len(x) : x[i].original \in U
    OBVIOUS
  <2> HIDE DEF U
  <2>2. [i \in 1 .. Len(x) |-> x[i].original] \in Seq(U)
    BY <2>1, IsASeq
  <2> QED BY <2>1, <2>2 DEF Originals
<1>3. /\ a \in Seq(U) /\ Len(a) = Len(p) /\ \A i \in 1 .. Len(p) : a[i] = p[i].original
      /\ b \in Seq(U) /\ Len(b) = Len(q) /\ \A i \in 1 .. Len(q) : b[i] = q[i].original
      /\ c \in Seq(U) /\ Len(c) = Len(p) + Len(q) /\ \A i \in 1 .. Len(p) + Len(q) : c[i] = s[i].original
  <2> HIDE DEF U
  <2> QED BY <1>1, <1>2
<1> HIDE DEF U, a, b, c
<1> DEFINE d == a \o b
<1>4. /\ d \in Seq(U) /\ Len(d) = Len(p) + Len(q)
      /\ \A i \in 1 .. Len(p) + Len(q) : d[i] = IF i <= Len(p) THEN a[i] ELSE b[i - Len(p)]
  <2>1. a \in Seq(U) /\ b \in Seq(U)
    BY <1>3
  <2>2. /\ d \in Seq(U) /\ Len(d) = Len(a) + Len(b)
        /\ \A i \in 1 .. Len(a) + Len(b) : d[i] = IF i <= Len(a) THEN a[i] ELSE b[i - Len(a)]
    BY <2>1, ConcatProperties
  <2> HIDE DEF d
  <2> QED BY <1>3, <2>2
<1> HIDE DEF d
<1>5. ASSUME NEW i \in 1 .. Len(p) + Len(q) PROVE c[i] = d[i]
  <2>1. CASE i <= Len(p)
    <3>1. i \in 1 .. Len(p)
      BY <1>1, <2>1
    <3> QED BY <1>1, <1>3, <1>4, <2>1, <3>1
  <2>2. CASE ~(i <= Len(p))
    <3>1. i - Len(p) \in 1 .. Len(q)
      BY <1>1, <2>2
    <3>2. c[i] = q[i - Len(p)].original
      BY <1>1, <1>3, <2>2
    <3>3. d[i] = b[i - Len(p)]
      BY <1>4, <2>2
    <3> QED BY <1>3, <3>1, <3>2, <3>3
  <2> QED BY <2>1, <2>2
<1>6. c = d
  BY <1>3, <1>4, <1>5, SeqEqual
<1> QED BY <1>6 DEF NamesJoin, s, a, b, c, d

LEMMA OwnedTwice ==
  ASSUME NEW T, NEW p \in Seq(T), NEW b \in BackendIds
  PROVE  OwnedBy(OfBackends(p), b) = OwnedBy(p, b) /\ OfBackends(p) \in Seq(T)
<1> DEFINE P == {e \in ToSet(p) : e.owner \in BackendIds}
           Q == {e \in T : e.owner = b}
           o == OfBackends(p)
<1>1. o = Sift(p, P)
  BY DEF OfBackends
<1>2. \A i \in 1 .. Len(p) : p[i] \in P \cap Q <=> p[i] \in Q
  BY SeqOfItsOwn
<1>3. OwnedBy(p, b) = Sift(p, Q)
  BY OwnedSift
<1> HIDE DEF P, o
<1>4. o \in Seq(T)
  BY <1>1, SiftElems
<1>5. OwnedBy(o, b) = Sift(o, Q)
  BY <1>4, OwnedSift
<1> HIDE DEF Q
<1>6. Sift(o, Q) = Sift(p, P \cap Q)
  BY <1>1, SiftSift
<1>7. Sift(p, P \cap Q) = Sift(p, Q)
  BY <1>2, SiftSame
<1> QED BY <1>3, <1>4, <1>5, <1>6, <1>7 DEF o

\* Renames change neither owners nor original names.
LEMMA OwnedResolved ==
  ASSUME SurfaceShape, config.strategy # "priority", NEW T, NEW r \in Seq(T), \A x \in T : Listable(x), NEW b
  PROVE  Originals(OwnedBy(Resolved(r), b)) = Originals(OwnedBy(r, b))
<1>1. CASE config.strategy = "manual"
  <2> DEFINE U == {Renamed(x) : x \in T}
             m == Resolved(r)
  <2>1. m \in Seq(U) /\ m = [i \in 1 .. Len(r) |-> [r[i] EXCEPT !.name = Exposed(@)]]
    BY <1>1, ResolvedTyped DEF Resolved, resolve_manual
  <2>2. Len(r) \in Nat /\ \A i \in 1 .. Len(r) : r[i] \in T /\ Listable(r[i])
    OBVIOUS
  <2> HIDE DEF m, U
  <2>3. Len(m) = Len(r) /\ \A i \in 1 .. Len(r) : m[i] = [r[i] EXCEPT !.name = Exposed(@)]
    BY <2>1, <2>2
  <2>4. ASSUME NEW i \in 1 .. Len(r) PROVE m[i].owner = r[i].owner /\ m[i].original = r[i].original
    <3> DEFINE x == r[i]
               n == Exposed(x.name)
    <3>1. m[i] = [x EXCEPT !.name = n]
      BY <2>3
    <3>2. x = Entry(x.name, x.owner, x.original)
      BY <2>2 DEF Listable
    <3> HIDE DEF x, n
    <3>3. [x EXCEPT !.name = n].owner = x.owner /\ [x EXCEPT !.name = n].original = x.original
      BY <3>2 DEF Entry
    <3> QED BY <3>1, <3>3 DEF x
  <2> DEFINE P == {e \in T : e.owner = b}
             Q == {e \in U : e.owner = b}
  <2>5. \A i \in 1 .. Len(r) : r[i] \in P <=> m[i] \in Q
    BY <2>1, <2>2, <2>3, <2>4
  <2>6. OwnedBy(r, b) = Sift(r, P) /\ OwnedBy(m, b) = Sift(m, Q)
    BY <2>1, OwnedSift
  <2> HIDE DEF P, Q
  <2> DEFINE s == Sift(r, P)
             t == Sift(m, Q)
  <2>7. /\ Len(s) = Len(t)
        /\ \A k \in 1 .. Len(s) : \E j \in 1 .. Len(r) : s[k] = r[j] /\ t[k] = m[j] /\ r[j] \in P
    <3>1. SiftedTogether(r, m, P, Q)
      BY <2>1, <2>3, <2>5, SiftAlike
    <3> QED BY <3>1 DEF SiftedTogether
  <2> HIDE DEF s, t
  <2>8. \A k \in 1 .. Len(s) : s[k].original = t[k].original
    BY <2>4, <2>7
  <2>9. Originals(s) = Originals(t)
    BY <2>7, <2>8 DEF Originals
  <2> QED BY <2>6, <2>9 DEF s, t, m
<1>2. CASE config.strategy # "manual"
  BY <1>2 DEF Resolved
<1> QED BY <1>1, <1>2

LEMMA OwnedListed ==
  ASSUME SurfaceShape, NEW a \in BackendIds, NEW b, NEW filter, NEW cur, Fits(cur, a)
  PROVE  OwnedBy(ListedBy(a, filter, cur), b) = IF a = b THEN ListedBy(a, filter, cur) ELSE << >>
<1> DEFINE T == EntriesOf(a, Given(a, filter, cur).items)
           l == ListedBy(a, filter, cur)
           Q == {e \in T : e.owner = b}
<1>1. l \in Seq(T)
  BY ListedTyped
<1>2. \A e \in T : e.owner = a
  BY Renames3 DEF EntriesOf
<1> HIDE DEF T, l
<1>3. \A i \in 1 .. Len(l) : l[i] \in T /\ l[i].owner = a
  BY <1>1, <1>2
<1>4. OwnedBy(l, b) = Sift(l, Q)
  BY <1>1, OwnedSift
<1>5. CASE a = b
  <2>1. \A i \in 1 .. Len(l) : l[i] \in Q
    BY <1>3, <1>5
  <2> HIDE DEF Q
  <2>2. Sift(l, Q) = l
    BY <1>1, <2>1, SiftAll
  <2> QED BY <1>4, <1>5, <2>2 DEF l
<1>6. CASE a # b
  <2>1. \A i \in 1 .. Len(l) : l[i] \notin Q
    BY <1>3, <1>6
  <2> HIDE DEF Q
  <2>2. Sift(l, Q) = << >>
    BY <1>1, <2>1, SiftNone
  <2> QED BY <1>4, <1>6, <2>2 DEF l
<1> QED BY <1>5, <1>6

\* What a request collects of b's is what b lists.
LEMMA OwnedCollected ==
  ASSUME SurfaceShape, NEW b \in BackendIds, NEW filter, NEW cur, Resumes(cur), NEW failing
  PROVE  OwnedBy(Collected(filter, cur, failing), b) =
           IF b \in AnsweringBackends(filter, cur, failing) THEN ListedBy(b, filter, cur) ELSE << >>
<1> DEFINE f == Merged(filter, cur, failing)
           A == AnsweringBackends(filter, cur, failing)
           E == Answered(filter, cur, failing)
           L(x) == ListedBy(x, filter, cur)
           Has(k) == \E j \in 1 .. k : config.backends[j] = b
           At(k) == OwnedBy(f[k], b) = IF Has(k) /\ b \in A THEN L(b) ELSE << >>
           X == {k \in 0 .. Len(config.backends) : At(k)}
<1>1. /\ Len(config.backends) \in Nat /\ f[0] = << >>
      /\ \A k \in 1 .. Len(config.backends) : config.backends[k] \in BackendIds /\ Adds(filter, cur, failing, k)
  BY MergedAt
<1>2. \A k \in 0 .. Len(config.backends) : f[k] \in Seq(E)
  BY MergedTyped
<1>3. \A x \in A : x \in BackendIds /\ Fits(cur, x)
  BY AnswersFit
<1>4. \A j, k \in 1 .. Len(config.backends) : config.backends[j] = config.backends[k] => j = k
  <2>1. IsInjective(config.backends) /\ DOMAIN config.backends = 1 .. Len(config.backends)
    BY DEF SurfaceShape, WellFormed
  <2> QED BY <2>1 DEF IsInjective
<1>5. ASSUME NEW x \in A PROVE OwnedBy(L(x), b) = (IF x = b THEN L(b) ELSE << >>) /\ L(x) \in Seq(E)
  <2>1. x \in BackendIds /\ Fits(cur, x)
    BY <1>3
  <2>2. OwnedBy(L(x), b) = IF x = b THEN L(x) ELSE << >>
    BY <2>1, OwnedListed
  <2>3. L(x) \in Seq(EntriesOf(x, Given(x, filter, cur).items))
    BY <2>1, ListedTyped
  <2>4. EntriesOf(x, Given(x, filter, cur).items) \subseteq E
    BY DEF Answered
  <2> HIDE DEF E, L
  <2> QED BY <2>2, <2>3, <2>4, SeqMonotonic
<1>6. ASSUME NEW n \in 1 .. Len(config.backends)
      PROVE  f[n] = IF config.backends[n] \in A THEN f[n - 1] \o L(config.backends[n]) ELSE f[n - 1]
  BY <1>1 DEF Adds
<1> HIDE DEF f, A, E, L
<1>7. At(0)
  <2>1. OwnedBy(<< >>, b) = << >>
    BY SiftEmpty DEF OwnedBy
  <2>2. ~Has(0)
    OBVIOUS
  <2> HIDE DEF Has
  <2> QED BY <1>1, <2>1, <2>2
<1>8. ASSUME NEW k \in 0 .. Len(config.backends) - 1, At(k) PROVE At(k + 1)
  <2> DEFINE n == k + 1
             x == config.backends[n]
  <2>1. n \in 1 .. Len(config.backends) /\ n - 1 = k /\ k \in 0 .. Len(config.backends) /\ k \in Nat
        /\ \A j \in 1 .. k : j \in 1 .. Len(config.backends) /\ j # n /\ j \in 1 .. n
    BY <1>1
  <2>2. Has(n) <=> Has(k) \/ x = b
    <3>1. \A j \in 1 .. n : j \in 1 .. k \/ j = n
      BY <2>1
    <3>2. n \in 1 .. n
      BY <2>1
    <3> HIDE DEF n
    <3> QED BY <2>1, <3>1, <3>2
  <2>3. x = b => ~Has(k)
    <3> HIDE DEF n
    <3> QED BY <1>4, <2>1
  <2>4. f[n] = IF x \in A THEN f[k] \o L(x) ELSE f[k]
    <3>1. f[n] = IF x \in A THEN f[n - 1] \o L(x) ELSE f[n - 1]
      <4> HIDE DEF n
      <4> QED BY <1>6, <2>1
    <3> QED BY <2>1, <3>1
  <2>5. OwnedBy(f[k], b) = IF Has(k) /\ b \in A THEN L(b) ELSE << >>
    BY <1>8
  <2> HIDE DEF n, x, Has
  <2>6. CASE x \notin A
    <3>1. f[n] = f[k]
      BY <2>4, <2>6
    <3>2. At(n)
      BY <2>2, <2>3, <2>5, <2>6, <3>1
    <3> QED BY <3>2 DEF n
  <2>7. CASE x \in A
    <3>1. L(x) \in Seq(E) /\ f[k] \in Seq(E) /\ OwnedBy(L(x), b) = IF x = b THEN L(b) ELSE << >>
      BY <1>2, <1>5, <2>1, <2>7
    <3>2. Parts(f[k], L(x), b)
      BY <3>1, OwnedConcat
    <3>3. OwnedBy(f[n], b) = OwnedBy(f[k], b) \o OwnedBy(L(x), b)
      BY <2>4, <2>7, <3>2 DEF Parts
    <3>4. OwnedBy(f[k], b) \in Seq(E)
      BY <3>1, OwnedConcat
    <3>5. CASE x = b
      <4>1. OwnedBy(f[k], b) = << >> /\ OwnedBy(L(x), b) = L(b) /\ L(b) \in Seq(E)
        BY <2>3, <2>5, <3>1, <3>5
      <4>2. << >> \o L(b) = L(b)
        BY <4>1, ConcatEmptySeq
      <4>3. OwnedBy(f[n], b) = L(b)
        BY <3>3, <4>1, <4>2
      <4>4. At(n)
        BY <2>2, <2>7, <3>5, <4>3
      <4> QED BY <4>4 DEF n
    <3>6. CASE x # b
      <4> DEFINE q == OwnedBy(f[k], b)
      <4>1. OwnedBy(L(x), b) = << >>
        BY <3>1, <3>6
      <4>2. q \o << >> = q
        <5> HIDE DEF q
        <5> QED BY <3>4, ConcatEmptySeq DEF q
      <4>3. OwnedBy(f[n], b) = OwnedBy(f[k], b)
        BY <3>3, <4>1, <4>2
      <4>4. At(n)
        BY <2>2, <2>5, <3>6, <4>3
      <4> QED BY <4>4 DEF n
    <3> QED BY <3>5, <3>6
  <2> QED BY <2>6, <2>7
<1>9. At(Len(config.backends))
  <2> HIDE DEF At
  <2>1. 0 \in X
    BY <1>1, <1>7
  <2>2. ASSUME NEW k \in 0 .. Len(config.backends) - 1, k \in X PROVE k + 1 \in X
    BY <1>1, <1>8, <2>2
  <2> HIDE DEF X
  <2>3. \A k \in 0 .. Len(config.backends) : k \in X
    BY <1>1, <2>1, <2>2, Climbing
  <2>4. Len(config.backends) \in X
    BY <1>1, <2>3
  <2> QED BY <2>4 DEF X
<1>10. Has(Len(config.backends))
  BY DEF SurfaceShape, WellFormed, BackendIds, ToSet
<1> QED BY <1>9, <1>10 DEF Collected, f, A, L

\* b's tools that are due under a filter.
DueIn(b, o, filter) == {t \in ToSet(o) : name_matches(ShownAs(b, t), filter.patterns)}

LEMMA ListedOriginals ==
  ASSUME SurfaceShape, NEW b \in BackendIds, NEW filter, NEW cur, Fits(cur, b)
  PROVE  Originals(ListedBy(b, filter, cur)) = Sift(Given(b, filter, cur).items, DueIn(b, offers[b], filter))
<1> DEFINE items == Given(b, filter, cur).items
           T == ToSet(offers[b])
           U == EntriesOf(b, items)
           m == [i \in 1 .. Len(items) |-> Entry(ShownAs(b, items[i]), b, items[i])]
           P == DueIn(b, offers[b], filter)
           Q == {e \in ToSet(m) : name_matches(e.name, filter.patterns)}
<1>1. items \in Seq(T)
  BY GivenTyped
<1>2. ListedBy(b, filter, cur) = Sift(m, Q)
  BY DEF ListedBy, Filtered
<1> HIDE DEF items, T
<1>3. Len(items) \in Nat /\ \A i \in 1 .. Len(items) : items[i] \in T /\ items[i] \in ToSet(items)
  BY <1>1, SeqOfItsOwn
<1>4. m \in Seq(U) /\ Len(m) = Len(items) /\ \A i \in 1 .. Len(items) : m[i] = Entry(ShownAs(b, items[i]), b, items[i])
  <2>1. \A i \in 1 .. Len(items) : Entry(ShownAs(b, items[i]), b, items[i]) \in U
    BY <1>3 DEF EntriesOf
  <2> HIDE DEF U
  <2> QED BY <1>3, <2>1, IsASeq
<1> HIDE DEF m, U
<1>5. \A i \in 1 .. Len(items) : m[i].name = ShownAs(b, items[i]) /\ m[i].original = items[i] /\ m[i] \in ToSet(m)
  BY <1>4, Renames3, SeqOfItsOwn
<1>6. \A i \in 1 .. Len(items) : items[i] \in P <=> m[i] \in Q
  BY <1>3, <1>5 DEF DueIn, T
<1> HIDE DEF P, Q
<1>7. SiftedTogether(items, m, P, Q) /\ Sift(items, P) \in Seq(T)
  BY <1>1, <1>4, <1>6, SiftAlike
<1> DEFINE s == Sift(items, P)
           t == Sift(m, Q)
<1>8. /\ s \in Seq(T) /\ Len(s) = Len(t)
      /\ \A k \in 1 .. Len(s) : \E j \in 1 .. Len(items) : s[k] = items[j] /\ t[k] = m[j]
  BY <1>7 DEF SiftedTogether
<1> HIDE DEF s, t
<1>9. \A k \in 1 .. Len(s) : t[k].original = s[k]
  BY <1>5, <1>8
<1>10. s = [k \in 1 .. Len(s) |-> s[k]]
  BY <1>8
<1>11. Originals(t) = s
  BY <1>8, <1>9, <1>10 DEF Originals
<1> QED BY <1>2, <1>11 DEF s, t, P, items

\* How far b's tools have been served, and that all that is due of them was.
Upto(b, o, cur) == IF cur # None /\ b \in DOMAIN cur.cursors THEN cur.cursors[b] ELSE Len(o)
Served(b, n, seen, o, filter) ==
  n \in 0 .. Len(o) /\ Originals(OwnedBy(seen, b)) = Sifted(o, DueIn(b, o, filter))[n]
Progress(b, seen, o, filter, cur) == Served(b, Upto(b, o, cur), seen, o, filter)

\* The page after n tools, of a backend that has the proxy filter.
PageEnd(o, n) == IF n + config.page < Len(o) THEN n + config.page ELSE Len(o)

LEMMA AnswerIs ==
  ASSUME SurfaceShape, ~config.pushdown, NEW b \in BackendIds, NEW filter, NEW n \in 0 .. Len(offers[b])
  PROVE  /\ PageEnd(offers[b], n) \in n .. Len(offers[b]) /\ Len(offers[b]) \in Nat
         /\ AnswerPage(b, n, filter).items = SubSeq(offers[b], n + 1, PageEnd(offers[b], n))
         /\ IF AnswerPage(b, n, filter).next > 0
            THEN AnswerPage(b, n, filter).next = PageEnd(offers[b], n) ELSE PageEnd(offers[b], n) = Len(offers[b])
<1> DEFINE o == offers[b]
           l == PageEnd(o, n)
<1>1. Len(o) \in Nat /\ config.page \in Nat \ {0}
  BY OffersTyped DEF SurfaceShape, WellFormed
<1>2. /\ AnswerPage(b, n, filter).items = SubSeq(o, n + 1, l)
      /\ AnswerPage(b, n, filter).next = IF l < Len(o) /\ n < l THEN l ELSE 0
  BY DEF AnswerPage, PageEnd
<1>3. l \in n .. Len(o) /\ (l < Len(o) => n < l)
  BY <1>1 DEF PageEnd
<1> HIDE DEF l, o
<1>4. IF AnswerPage(b, n, filter).next > 0 THEN AnswerPage(b, n, filter).next = l ELSE l = Len(o)
  BY <1>1, <1>2, <1>3 DEF o
<1> QED BY <1>1, <1>2, <1>3, <1>4 DEF l, o

\* What b has on the page that a list gives.
LEMMA OwnedPage ==
  ASSUME SurfaceShape, config.strategy # "priority", config.disclose = 0, NEW b \in BackendIds,
         NEW filter, NEW cur, Resumes(cur), NEW failing
  PROVE  Originals(OwnedBy(OfBackends(PageOf(filter, cur, failing)), b)) =
           IF b \in AnsweringBackends(filter, cur, failing)
           THEN Sift(Given(b, filter, cur).items, DueIn(b, offers[b], filter)) ELSE << >>
<1> DEFINE p == Collected(filter, cur, failing)
           q == LocalTools(filter)
           r == p \o q
           T == Answered(filter, cur, failing) \cup FromHandlers
<1>1. r \in Seq(T) /\ \A x \in T : Listable(x)
  BY EntriesTyped
<1>2. p \in Seq(T) /\ q \in Seq(T)
  <2>1. p \in Seq(Answered(filter, cur, failing)) /\ q \in Seq(FromHandlers)
    BY CollectedTyped, LocalTyped
  <2> HIDE DEF p, q
  <2> QED BY <2>1, SeqMonotonic
<1>3. PageOf(filter, cur, failing) = Resolved(r)
  BY DEF PageOf, disclose
<1> DEFINE m == Resolved(r)
<1>4. m \in Seq({Renamed(x) : x \in T})
  <2> HIDE DEF r, T
  <2> QED BY <1>1, ResolvedTyped
<1>5. OwnedBy(OfBackends(m), b) = OwnedBy(m, b)
  <2> HIDE DEF m, T
  <2> QED BY <1>4, OwnedTwice
<1>6. Originals(OwnedBy(m, b)) = Originals(OwnedBy(r, b))
  <2> HIDE DEF r, T
  <2> QED BY <1>1, OwnedResolved
<1>7. OwnedBy(q, b) = << >>
  <2>1. q \in Seq(FromHandlers)
    BY LocalTyped
  <2> DEFINE Q == {e \in FromHandlers : e.owner = b}
  <2>2. \A e \in FromHandlers : e.owner # b
    BY Renames3, OwnersApart DEF FromHandlers
  <2> HIDE DEF q
  <2>3. \A i \in 1 .. Len(q) : q[i] \notin Q
    BY <2>2
  <2>4. OwnedBy(q, b) = Sift(q, Q)
    BY <2>1, OwnedSift
  <2> HIDE DEF Q
  <2> QED BY <2>1, <2>3, <2>4, SiftNone
<1>8. OwnedBy(r, b) = OwnedBy(p, b)
  <2> HIDE DEF T
  <2>1. Parts(p, q, b) /\ OwnedBy(p, b) \in Seq(T)
    <3> HIDE DEF p, q
    <3> QED BY <1>2, OwnedConcat
  <2> DEFINE x == OwnedBy(p, b)
  <2>2. x \o << >> = x
    <3> HIDE DEF x
    <3> QED BY <2>1, ConcatEmptySeq DEF x
  <2> HIDE DEF p, q
  <2> QED BY <1>7, <2>1, <2>2 DEF Parts
<1>9. OwnedBy(p, b) = IF b \in AnsweringBackends(filter, cur, failing) THEN ListedBy(b, filter, cur) ELSE << >>
  BY OwnedCollected
<1>10. Originals(<< >>) = << >>
  BY DEF Originals
<1>11. b \in AnsweringBackends(filter, cur, failing) =>
         Originals(ListedBy(b, filter, cur)) = Sift(Given(b, filter, cur).items, DueIn(b, offers[b], filter))
  BY AnswersFit, ListedOriginals
<1> HIDE DEF p, r, m
<1> QED BY <1>3, <1>5, <1>6, <1>8, <1>9, <1>10, <1>11 DEF m

\* How far the cursor of a page leads.
NextOf(v, cursors) == IF cursors = << >> THEN None ELSE [variant |-> v, cursors |-> cursors]

LEMMA NextUpto ==
  ASSUME NEW v, NEW filter, NEW cur, NEW failing, NEW b, NEW o
  PROVE  Upto(b, o, NextOf(v, NextCursors(filter, cur, failing))) =
           IF b \in AnsweringBackends(filter, cur, failing) /\ Given(b, filter, cur).next > 0
           THEN Given(b, filter, cur).next ELSE Len(o)
<1> DEFINE c == NextCursors(filter, cur, failing)
           D == {a \in AnsweringBackends(filter, cur, failing) : Given(a, filter, cur).next > 0}
<1>1. c = [a \in D |-> Given(a, filter, cur).next]
  BY DEF NextCursors
<1>2. b \in D <=> b \in AnsweringBackends(filter, cur, failing) /\ Given(b, filter, cur).next > 0
  OBVIOUS
<1> HIDE DEF c, D
<1>3. DOMAIN c = D /\ (b \in D => c[b] = Given(b, filter, cur).next)
  BY <1>1
<1>4. CASE c = << >>
  <2>1. b \notin D
    BY <1>3, <1>4
  <2> QED BY <1>2, <1>4, <2>1 DEF Upto, NextOf, c
<1>5. CASE c # << >>
  <2> DEFINE n == [variant |-> v, cursors |-> c]
  <2>1. n.cursors = c /\ n # None
    <3>1. "cursors" \in DOMAIN n /\ DOMAIN None = {}
      BY DEF None
    <3> QED BY <3>1
  <2>2. NextOf(v, c) = n
    BY <1>5 DEF NextOf
  <2> HIDE DEF n
  <2> QED BY <1>2, <1>3, <2>1, <2>2 DEF Upto, c
<1> QED BY <1>4, <1>5

LEMMA Advances ==
  ASSUME SurfaceShape, ~config.pushdown, config.strategy # "priority", config.disclose = 0,
         NEW b \in BackendIds, NEW v, NEW filter, NEW cur, Resumes(cur), NEW failing,
         b \notin Unavailable(filter, cur, failing), backend_selected(config.keywords[b], filter.keywords),
         NEW seen, seen \in Seq(ToSet(seen)),
         Served(b, IF cur = None THEN 0 ELSE Upto(b, offers[b], cur), seen, offers[b], filter)
  PROVE  Progress(b, seen \o OfBackends(PageOf(filter, cur, failing)), offers[b], filter,
                  NextOf(v, NextCursors(filter, cur, failing)))
<1> DEFINE o == offers[b]
           D == DueIn(b, o, filter)
           n == IF cur = None THEN 0 ELSE Upto(b, o, cur)
           q == OfBackends(PageOf(filter, cur, failing))
           A == AnsweringBackends(filter, cur, failing)
           next == NextOf(v, NextCursors(filter, cur, failing))
           T == ToSet(seen) \cup PageEntries
           a == Originals(OwnedBy(seen, b))
           z == Originals(OwnedBy(q, b))
<1>1. n \in 0 .. Len(o) /\ a = Sifted(o, D)[n]
  BY DEF Served
<1>2. seen \in Seq(T) /\ q \in Seq(T)
  <2>1. PageOf(filter, cur, failing) \in Seq(PageEntries)
    BY PageTyped
  <2>2. q \in Seq(PageEntries)
    <3> DEFINE p == PageOf(filter, cur, failing)
    <3> HIDE DEF p
    <3> QED BY <2>1, OwnedTwice DEF p
  <2> HIDE DEF q
  <2> QED BY <2>2, SeqMonotonic
<1>3. z = IF b \in A THEN Sift(Given(b, filter, cur).items, D) ELSE << >>
  BY OwnedPage
<1>4. o \in Seq(ToSet(o)) /\ Len(o) \in Nat
  BY OffersTyped
<1>5. Sifted(o, D)[n] \in Seq(ToSet(o))
  <2> HIDE DEF D, n, o
  <2> QED BY <1>1, <1>4, SiftedAt
<1>6. Originals(OwnedBy(seen \o q, b)) = a \o z
  <2> HIDE DEF q, T
  <2>1. Parts(seen, q, b) /\ OwnedBy(seen, b) \in Seq(T) /\ OwnedBy(q, b) \in Seq(T)
    BY <1>2, OwnedConcat
  <2>2. NamesJoin(OwnedBy(seen, b), OwnedBy(q, b))
    BY <2>1, OriginalsConcat
  <2> QED BY <2>1, <2>2 DEF Parts, NamesJoin
<1>7. b \in up /\ (b \in AskedBackends(filter, cur) => b \in A)
  BY DEF Unavailable, AnsweringBackends
<1>8. Upto(b, o, next) = IF b \in A /\ Given(b, filter, cur).next > 0 THEN Given(b, filter, cur).next ELSE Len(o)
  BY NextUpto
<1> SUFFICES Upto(b, o, next) \in 0 .. Len(o) /\ a \o z = Sifted(o, D)[Upto(b, o, next)]
  BY <1>6 DEF Progress, Served
<1> HIDE DEF a, z, next
<1>9. CASE b \in A
  <2> DEFINE l == PageEnd(o, n)
             t == SubSeq(o, n + 1, l)
  <2>1. Given(b, filter, cur) = AnswerPage(b, n, filter)
    <3>1. CASE cur = None
      BY <3>1 DEF Given
    <3>2. CASE cur # None
      <4>1. b \in DOMAIN cur.cursors
        BY <1>9, <3>2, AnswersFit DEF Fits
      <4> QED BY <3>2, <4>1 DEF Given, Upto
    <3> QED BY <3>1, <3>2
  <2> HIDE DEF n
  <2>2. /\ l \in n .. Len(o) /\ AnswerPage(b, n, filter).items = t
        /\ IF AnswerPage(b, n, filter).next > 0 THEN AnswerPage(b, n, filter).next = l ELSE l = Len(o)
    BY <1>1, AnswerIs
  <2> HIDE DEF l, o
  <2>3. l \in 0 .. Len(o) /\ n \in Nat /\ l \in Nat /\ n <= l
    BY <1>1, <1>4, <2>2
  <2>4. t \in Seq(ToSet(o)) /\ Len(t) = l - n /\ \A j \in 1 .. l - n : t[j] = o[n + j]
    <3>1. \A i \in n + 1 .. l : o[i] \in ToSet(o)
      BY <1>4, <2>3
    <3>2. n + 1 \in Int /\ l \in Int
      BY <2>3
    <3>3. /\ t \in Seq(ToSet(o)) /\ Len(t) = IF n + 1 <= l THEN l - (n + 1) + 1 ELSE 0
          /\ \A j \in 1 .. l - (n + 1) + 1 : t[j] = o[n + 1 + j - 1]
      BY <3>1, <3>2, SubSeqProperties
    <3> HIDE DEF t
    <3>4. (IF n + 1 <= l THEN l - (n + 1) + 1 ELSE 0) = l - n
          /\ \A j \in 1 .. l - n : j \in 1 .. l - (n + 1) + 1 /\ n + 1 + j - 1 = n + j
      BY <2>3
    <3>5. \A j \in 1 .. l - n : t[j] = o[n + j]
      BY <3>3, <3>4
    <3> QED BY <3>3, <3>4, <3>5
  <2> HIDE DEF t, D
  <2>5. n + Len(t) = l /\ n + Len(t) <= Len(o) /\ \A j \in 1 .. Len(t) : o[n + j] = t[j]
    BY <2>3, <2>4
  <2>6. Continues(o, n, t, D)
    BY <1>1, <1>4, <2>4, <2>5, SiftSpan
  <2>7. Sifted(o, D)[l] = Sifted(o, D)[n] \o Sift(t, D)
    BY <2>5, <2>6 DEF Continues
  <2>8. z = Sift(t, D)
    BY <1>3, <1>9, <2>1, <2>2
  <2>9. Upto(b, o, next) = l
    BY <1>8, <1>9, <2>1, <2>2
  <2> QED BY <1>1, <2>3, <2>7, <2>8, <2>9
<1>10. CASE b \notin A
  <2>1. cur # None /\ b \notin DOMAIN cur.cursors
    BY <1>7, <1>10 DEF AskedBackends
  <2>2. n = Len(o)
    BY <2>1 DEF Upto
  <2>3. z = << >> /\ Upto(b, o, next) = Len(o)
    BY <1>3, <1>8, <1>10
  <2> DEFINE x == Sifted(o, D)[n]
  <2>4. x \o << >> = x
    <3> HIDE DEF x
    <3> QED BY <1>5, ConcatEmptySeq DEF x
  <2> HIDE DEF D, o, n
  <2> QED BY <1>1, <1>4, <2>2, <2>3, <2>4
<1> QED BY <1>9, <1>10

\* What a walk that nothing disturbed has come to.
Advanced(w, o, cur) ==
  (w.steady /\ w.pages > 0 /\ config.strategy # "priority" /\ config.disclose = 0) =>
    \A b \in BackendIds \ w.lost :
      backend_selected(config.keywords[b], w.filter.keywords) => Progress(b, w.seen, o[b], w.filter, cur)

WalkShape(w, cur) ==
  /\ w = [seen |-> w.seen, lost |-> w.lost, variants |-> w.variants, filter |-> w.filter,
          pages |-> w.pages, steady |-> w.steady]
  /\ w.seen \in Seq(ToSet(w.seen)) /\ w.pages \in Nat
  /\ cur # None => w.pages > 0

WalkInv == WalkShape(walk, cursor) /\ Advanced(walk, offers, cursor)

LEMMA WalkKept ==
  ASSUME config' = config
  PROVE  \A w, o, cur : Advanced(w, o, cur)' <=> Advanced(w, o, cur)
<1>1. BackendIds' = BackendIds
  BY ConfigKept
<1>2. \A b, t : ShownAs(b, t)' = ShownAs(b, t)
  BY DEF ShownAs, Label, Passthrough, Single
<1>3. \A b, o, filter : DueIn(b, o, filter)' = DueIn(b, o, filter)
  BY <1>2 DEF DueIn
<1>4. \A b, n, seen, o, filter : Served(b, n, seen, o, filter)' <=> Served(b, n, seen, o, filter)
  BY <1>3 DEF Served
<1>5. \A b, seen, o, filter, cur : Progress(b, seen, o, filter, cur)' <=> Progress(b, seen, o, filter, cur)
  BY <1>4 DEF Progress
<1> QED BY <1>1, <1>5 DEF Advanced

\* A page more.
Before(cur) ==
  IF cur = None THEN [seen |-> << >>, lost |-> {}, variants |-> {}, pages |-> 0, steady |-> TRUE] ELSE walk

LEMMA WalkAdvances ==
  ASSUME SurfaceInv, WalkInv, ~config.pushdown, NEW v, NEW filter, NEW failing,
         NEW cur, cur = None \/ (cur = cursor /\ cursor # None /\ filter = walk.filter),
         ListTools(v, filter, cur, failing)
  PROVE  WalkInv'
<1>1. SurfaceShape /\ Resumes(cur)
  BY DEF SurfaceInv, SurfaceShape, Resumes
<1>2. UNCHANGED <<config, offers>>
  BY DEF ListTools
<1>3. CASE UNCHANGED <<cursor, walk>>
  <2>1. Advanced(walk, offers, cursor)' <=> Advanced(walk, offers, cursor)
    BY <1>2, <1>3, WalkKept
  <2> QED BY <1>3, <2>1 DEF WalkInv, WalkShape
<1>4. CASE ~UNCHANGED <<cursor, walk>>
  <2> DEFINE w == Before(cur)
             q == OfBackends(PageOf(filter, cur, failing))
             e == EffectiveVariant(v)
             lost == Unavailable(filter, cur, failing)
             next == NextOf(e, NextCursors(filter, cur, failing))
             x == [seen |-> w.seen \o q, lost |-> w.lost \cup lost, variants |-> w.variants \cup {e},
                   filter |-> filter, pages |-> w.pages + 1, steady |-> w.steady]
  <2>1. ~(config.strategy = "manual" /\ UnresolvedCollision(Collected(filter, cur, failing) \o LocalTools(filter)))
    BY <1>4 DEF ListTools
  <2>2. page' = PageOf(filter, cur, failing) /\ cursor' = next
    <3>1. page' = PageOf(filter, cur, failing)
      BY <2>1 DEF ListTools, PageOf
    <3>2. cursor' = next
      BY <2>1 DEF ListTools, NextOf
    <3> QED BY <3>1, <3>2
  <2>3. walk' = x
    <3>1. walk' = [seen |-> w.seen \o OfBackends(page'), lost |-> w.lost \cup lost, variants |-> w.variants \cup {e},
                   filter |-> filter, pages |-> w.pages + 1, steady |-> w.steady]
      BY <2>1, Zenon DEF ListTools, Before
    <3> QED BY <2>2, <3>1
  <2>4. w.seen \in Seq(ToSet(w.seen)) /\ w.pages \in Nat
    BY DEF Before, WalkInv, WalkShape, ToSet
  <2>5. q \in Seq(PageEntries)
    <3> DEFINE p == PageOf(filter, cur, failing)
    <3>1. p \in Seq(PageEntries)
      BY <1>1, PageTyped
    <3> HIDE DEF p
    <3> QED BY <3>1, SiftElems DEF p, OfBackends
  <2>6. x.seen = w.seen \o q /\ x.lost = w.lost \cup lost /\ x.filter = filter /\ x.pages = w.pages + 1
        /\ x.steady = w.steady
        /\ x = [seen |-> x.seen, lost |-> x.lost, variants |-> x.variants, filter |-> x.filter,
                pages |-> x.pages, steady |-> x.steady]
    BY Zenon
  <2>7. x.seen \in Seq(ToSet(x.seen))
    <3> DEFINE T == ToSet(w.seen) \cup PageEntries
    <3>1. w.seen \in Seq(T) /\ q \in Seq(T)
      <4> HIDE DEF q, w
      <4> QED BY <2>4, <2>5, SeqMonotonic
    <3> HIDE DEF T, q, w, x
    <3>2. x.seen \in Seq(T)
      BY <2>6, <3>1, ConcatProperties
    <3> QED BY <3>2, SeqOfItsOwn
  <2>8. ASSUME x.steady, config.strategy # "priority", config.disclose = 0, NEW b \in BackendIds \ x.lost,
               backend_selected(config.keywords[b], filter.keywords)
        PROVE  Progress(b, x.seen, offers[b], filter, next)
    <3>1. b \notin w.lost /\ b \notin lost
      BY <2>6, <2>8
    <3>2. Served(b, IF cur = None THEN 0 ELSE Upto(b, offers[b], cur), w.seen, offers[b], filter)
      <4>1. CASE cur = None
        <5>1. w.seen = << >>
          BY <4>1 DEF Before
        <5>2. OwnedBy(<< >>, b) = << >> /\ Originals(<< >>) = << >>
          BY SiftEmpty DEF OwnedBy, Originals
        <5>3. Len(offers[b]) \in Nat /\ Sifted(offers[b], DueIn(b, offers[b], filter))[0] = << >>
          BY <1>1, OffersTyped, SiftedAt
        <5>4. Served(b, 0, << >>, offers[b], filter)
          BY <5>2, <5>3 DEF Served
        <5> QED BY <4>1, <5>1, <5>4
      <4>2. CASE cur # None
        <5>1. w = walk /\ cur = cursor /\ filter = walk.filter /\ walk.pages > 0
          BY <4>2 DEF Before, WalkInv, WalkShape
        <5>2. walk.steady
          BY <2>6, <2>8, <5>1
        <5>3. Progress(b, walk.seen, offers[b], walk.filter, cursor)
          BY <2>8, <3>1, <5>1, <5>2 DEF WalkInv, Advanced
        <5> QED BY <4>2, <5>1, <5>3 DEF Progress
      <4> QED BY <4>1, <4>2
    <3> HIDE DEF w
    <3>3. Progress(b, w.seen \o q, offers[b], filter, next)
      BY <1>1, <2>4, <2>8, <3>1, <3>2, Advances
    <3> QED BY <2>6, <3>3
  <2> HIDE DEF x, next, w
  <2>9. Advanced(x, offers, next)
    BY <2>6, <2>8 DEF Advanced
  <2>10. Advanced(walk, offers, cursor)'
    BY <1>2, <2>2, <2>3, <2>9, WalkKept
  <2>11. WalkShape(x, next)
    BY <2>4, <2>6, <2>7 DEF WalkShape
  <2> QED BY <2>2, <2>3, <2>10, <2>11 DEF WalkInv
<1> QED BY <1>3, <1>4

LEMMA WalkHolds ==
  ASSUME SurfaceInv, WalkInv, ~config.pushdown, [SurfaceNext]_surfaceVars
  PROVE  WalkInv'
<1>1. config' = config
  BY SurfaceHolds
<1>2. ASSUME UNCHANGED <<offers, cursor, walk>> PROVE WalkInv'
  <2>1. Advanced(walk, offers, cursor)' <=> Advanced(walk, offers, cursor)
    BY <1>1, <1>2, WalkKept
  <2> QED BY <1>2, <2>1 DEF WalkInv, WalkShape
<1>3. ASSUME NEW v, NEW f, NEW failing, ListTools(v, f, None, failing) PROVE WalkInv'
  BY <1>3, WalkAdvances
<1>4. ASSUME NEW v, NEW failing, cursor # None, ListTools(v, walk.filter, cursor, failing) PROVE WalkInv'
  BY <1>4, WalkAdvances
<1>5. ASSUME NEW n, NEW failing, Call(n, failing) PROVE WalkInv'
  BY <1>2, <1>5 DEF Call
<1>6. ASSUME NEW b, NEW o, OffersChange(b, o) PROVE WalkInv'
  <2> DEFINE x == [walk EXCEPT !.steady = FALSE]
  <2>1. walk' = x /\ cursor' = cursor
    BY <1>6 DEF OffersChange
  <2>2. WalkShape(walk, cursor)
    BY DEF WalkInv
  <2> DEFINE y == [seen |-> walk.seen, lost |-> walk.lost, variants |-> walk.variants, filter |-> walk.filter,
                   pages |-> walk.pages, steady |-> FALSE]
             fields == {"seen", "lost", "variants", "filter", "pages", "steady"}
  <2>3. x = y
    <3>1. DOMAIN walk = fields
      BY <2>2 DEF WalkShape
    <3>2. x = [k \in DOMAIN walk |-> IF k = "steady" THEN FALSE ELSE walk[k]]
      OBVIOUS
    <3>3. DOMAIN x = fields /\ x.seen = walk.seen /\ x.lost = walk.lost /\ x.variants = walk.variants
          /\ x.filter = walk.filter /\ x.pages = walk.pages /\ x.steady = FALSE
      BY <3>1, <3>2
    <3>4. x = [k \in DOMAIN x |-> x[k]]
      BY <3>2
    <3>5. DOMAIN y = fields /\ y.seen = walk.seen /\ y.lost = walk.lost /\ y.variants = walk.variants
          /\ y.filter = walk.filter /\ y.pages = walk.pages /\ y.steady = FALSE
      OBVIOUS
    <3>6. y = [k \in DOMAIN y |-> y[k]]
      OBVIOUS
    <3> HIDE DEF x, y
    <3>7. \A k \in DOMAIN x : x[k] = y[k]
      BY <3>3, <3>5
    <3> QED BY <3>3, <3>4, <3>5, <3>6, <3>7, SMT
  <2> HIDE DEF x
  <2>4. x.seen = walk.seen /\ x.pages = walk.pages /\ ~x.steady
        /\ x = [seen |-> x.seen, lost |-> x.lost, variants |-> x.variants, filter |-> x.filter,
                pages |-> x.pages, steady |-> x.steady]
    BY <2>3
  <2>5. WalkShape(x, cursor)
    BY <2>2, <2>4 DEF WalkShape
  <2>6. Advanced(x, o, cursor) /\ \A p : Advanced(x, p, cursor)
    BY <2>4 DEF Advanced
  <2>7. Advanced(walk, offers, cursor)'
    BY <2>1, <2>4 DEF Advanced
  <2> QED BY <2>1, <2>5, <2>7 DEF WalkInv
<1>7. ASSUME NEW b, BreakerChanges(b) PROVE WalkInv'
  BY <1>2, <1>7 DEF BreakerChanges
<1>8. ASSUME UNCHANGED surfaceVars PROVE WalkInv'
  BY <1>2, <1>8 DEF surfaceVars
<1> QED BY <1>3, <1>4, <1>5, <1>6, <1>7, <1>8 DEF SurfaceNext

\* A client that follows the cursors to the end of a walk that nothing disturbed
\* has been served every tool that passes the filter, of every backend that no
\* page reported unavailable, exactly once, and nothing else (_collect,
\* _aggregate, the composite cursor), whatever pages the backends cut.
THEOREM WalksAreComplete ==
  ASSUME \A c \in Configs : WellFormed(c) /\ ~c.pushdown
  PROVE  SurfaceSpec => []PagesComplete
<1>1. SurfaceInit => WalkInv
  <2> SUFFICES ASSUME SurfaceInit PROVE WalkInv
    OBVIOUS
  <2>1. walk = [seen |-> << >>, lost |-> {}, variants |-> {}, filter |-> NoFilter, pages |-> 0, steady |-> TRUE]
        /\ cursor = None
    BY DEF SurfaceInit
  <2>2. walk.seen = << >> /\ walk.pages = 0
        /\ walk = [seen |-> walk.seen, lost |-> walk.lost, variants |-> walk.variants, filter |-> walk.filter,
                   pages |-> walk.pages, steady |-> walk.steady]
    BY <2>1
  <2>3. walk.seen \in Seq(ToSet(walk.seen))
    BY <2>2
  <2> QED BY <2>1, <2>2, <2>3 DEF WalkInv, WalkShape, Advanced
<1>2. SurfaceInv /\ WalkInv /\ [SurfaceNext]_surfaceVars => WalkInv'
  BY WalkHolds DEF SurfaceInv, SurfaceShape
<1>3. SurfaceInv /\ WalkInv => PagesComplete
  <2> SUFFICES ASSUME SurfaceInv, WalkInv, Walked, config.strategy # "priority", config.disclose = 0,
                      NEW b \in BackendIds \ walk.lost,
                      backend_selected(config.keywords[b], walk.filter.keywords)
               PROVE  Originals(OwnedBy(walk.seen, b)) = Sift(offers[b], DueIn(b, offers[b], walk.filter))
    BY DEF PagesComplete, Originals, OwnedBy, DueIn
  <2>1. Progress(b, walk.seen, offers[b], walk.filter, cursor)
    BY DEF WalkInv, Advanced, Walked
  <2>2. Upto(b, offers[b], cursor) = Len(offers[b])
    BY DEF Walked, Upto
  <2> QED BY <2>1, <2>2 DEF Progress, Served, Sift
<1>4. SurfaceSpec => []SurfaceInv
  BY SurfaceInvariance
<1> QED BY <1>1, <1>2, <1>3, <1>4, PTL DEF SurfaceSpec

\* The pages of a walk, and the cursor that leads on, are of one variant.
VariantInv ==
  /\ \E x : walk.variants \subseteq {x}
  /\ cursor # None => walk.variants \subseteq {cursor.variant}

\* All pages of one walk are served under one variant: a cursor is refused under
\* another than the one it was minted with (_aggregate, bind_cursor).
THEOREM WalksKeepVariant == SurfaceSpec => []WalkKeepsVariant
<1>1. SurfaceInit => VariantInv
  BY DEF SurfaceInit, VariantInv
<1>2. ASSUME VariantInv, NEW v, NEW filter, NEW cur, NEW failing, cur = None \/ (cur = cursor /\ cursor # None),
             ListTools(v, filter, cur, failing)
      PROVE  VariantInv'
  <2>1. CASE UNCHANGED <<cursor, walk>>
    BY <1>2, <2>1 DEF VariantInv
  <2>2. CASE ~UNCHANGED <<cursor, walk>>
    <3> DEFINE e == EffectiveVariant(v)
               n == NextCursors(filter, cur, failing)
               w == Before(cur)
    <3>1. ~(config.strategy = "manual" /\ UnresolvedCollision(Collected(filter, cur, failing) \o LocalTools(filter)))
      BY <1>2, <2>2 DEF ListTools
    <3>2. cursor' = IF n = << >> THEN None ELSE [variant |-> e, cursors |-> n]
      BY <1>2, <3>1 DEF ListTools
    <3>3. walk' = [seen |-> w.seen \o OfBackends(page'), lost |-> w.lost \cup Unavailable(filter, cur, failing),
                   variants |-> w.variants \cup {e}, filter |-> filter, pages |-> w.pages + 1, steady |-> w.steady]
      BY <1>2, <3>1, Zenon DEF ListTools, Before
    <3>4. cur # None => cur.variant = e
      BY <1>2 DEF ListTools
    <3>5. w.variants \subseteq {e}
      <4>1. CASE cur = None
        BY <4>1 DEF Before
      <4>2. CASE cur # None
        BY <1>2, <3>4, <4>2 DEF Before, VariantInv
      <4> QED BY <4>1, <4>2
    <3>6. walk'.variants = w.variants \cup {e}
      BY <3>3, Zenon
    <3>7. cursor' # None => cursor'.variant = e
      BY <3>2
    <3> HIDE DEF e, n, w
    <3>8. walk'.variants \subseteq {e}
      BY <3>5, <3>6
    <3> QED BY <3>7, <3>8 DEF VariantInv
  <2> QED BY <2>1, <2>2
<1>3. ASSUME VariantInv, [SurfaceNext]_surfaceVars PROVE VariantInv'
  <2>1. ASSUME UNCHANGED cursor, walk'.variants = walk.variants PROVE VariantInv'
    BY <1>3, <2>1 DEF VariantInv
  <2>2. ASSUME NEW b, NEW o, OffersChange(b, o) PROVE VariantInv'
    <3>1. walk' = [walk EXCEPT !.steady = FALSE] /\ cursor' = cursor
      BY <2>2 DEF OffersChange
    <3>2. walk'.variants = walk.variants
      BY <3>1
    <3> QED BY <2>1, <3>1, <3>2
  <2> QED BY <1>2, <1>3, <2>1, <2>2 DEF SurfaceNext, Call, BreakerChanges, surfaceVars
<1>4. VariantInv => WalkKeepsVariant
  <2>1. ASSUME NEW V, NEW x, V \subseteq {x} PROVE Cardinality(V) <= 1
    <3>1. CASE V = {}
      BY <3>1, FS_EmptySet
    <3>2. CASE V # {}
      <4>1. V = {x}
        BY <2>1, <3>2
      <4>2. Cardinality({x}) = 1
        BY FS_Singleton, Zenon
      <4> QED BY <4>1, <4>2
    <3> QED BY <3>1, <3>2
  <2> QED BY <2>1 DEF VariantInv, WalkKeepsVariant
<1> QED BY <1>1, <1>3, <1>4, PTL DEF SurfaceSpec
=============================================================================
