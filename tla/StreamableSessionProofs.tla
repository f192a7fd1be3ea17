------------------------ MODULE StreamableSessionProofs ------------------------
(***************************************************************************)
(* What holds of every session of the Streamable HTTP server, however many *)
(* POSTs, streams, events and reloads there are.                           *)
(*                                                                         *)
(* The responses are paired with the requests by order alone, so the       *)
(* invariant is about what is outstanding: the lock is held by its head,   *)
(* which alone may wait for a response (LockInv); while a router without   *)
(* breakers runs, whatever it has to answer, is answering or has answered  *)
(* is one message, the holder's (ExchangeInv).  The events are a window    *)
(* that moves over their numbers (EventsInv).                              *)
(***************************************************************************)
EXTENDS StreamableSession, SequenceTheorems, TLAPS

Elems(q) == {q[i] : i \in DOMAIN q}
One(q, S) == \A i, j \in DOMAIN q : q[i] \in S /\ q[j] \in S => i = j

\* The lock is held and awaited by the tasks that are about to write or to
\* read, each once; the one that reads is the holder.
LockInv ==
    /\ \A t \in Tasks : task[t].pc \in {"queued", "receiving"} <=> t \in Elems(lock)
    /\ \A i, j \in DOMAIN lock : lock[i] = lock[j] => i = j
    /\ \A t \in Tasks : task[t].pc = "receiving" => Turn(t)

\* How far the session is, as the opening POST and the router tell it.
StageInv ==
    /\ task[Opening].kind \notin {"call", "note", "delete"}
    /\ task[Opening].pc # "unsent" => task[Opening].kind = "initialize"
    /\ task[Opening].pc = "unsent" => ~resilient
    /\ task[Opening].pc \in {"unsent", "connecting"} => router.pc = "none"
    /\ router.pc = "none" => lock = <<>> /\ c2r = <<>> /\ r2c = <<>> /\ ~eof /\ ~registered /\ ~dirty
    /\ task[Opening].pc # "done" => ~eof /\ \A t \in Posts : task[t].pc = "unsent"
    /\ router.pc = "opening" => /\ task[Opening].pc \in {"queued", "receiving"}
                                /\ Elems(c2r) \subseteq {Opening} /\ r2c = <<>>
    /\ \A t \in Elems(c2r) : task[t].pc # "unsent"

\* A router without breakers: the one message between a request and its
\* response belongs to the task that waits for the response.
Busy == router.pc \in {"calling", "asking"}
Waits(t) == task[t].pc = "receiving"
Requesters == {t \in Tasks : IsRequest(t)}

ExchangeInv ==
    /\ ~dirty
    /\ One(c2r, Requesters)
    /\ \A t \in Elems(c2r) \cap Requesters : Waits(t) /\ r2c = <<>> /\ ~Busy
    /\ Busy => Waits(router.call) /\ r2c = <<>>
    /\ Len(r2c) <= 1
    /\ \A msg \in Elems(r2c) : msg = Response(msg.to) /\ msg.to \in Tasks /\ Waits(msg.to)
    /\ AnswerMatches

StrictExchange == ~resilient => ExchangeInv

\* The messages of the backends that have left the queue.
Taken == events - Len(outbound)

EventsInv ==
    /\ Taken \in 0..events
    /\ \A i \in DOMAIN outbound : outbound[i] = Taken + i
    /\ Given \union lost = 1..Taken
    /\ \A s \in Streams : \A i, j \in DOMAIN stream[s].got : i < j => stream[s].got[i] < stream[s].got[j]
    /\ \A s, o \in Streams : s # o => Elems(stream[s].got) \cap Elems(stream[o].got) = {}

IndInv == TypeOK /\ LockInv /\ StageInv /\ StrictExchange /\ EventsInv

-----------------------------------------------------------------------------
\* The pipes and the queues.
LEMMA Joined ==
  ASSUME NEW S, NEW q \in Seq(S), NEW x \in S
  PROVE  /\ Append(q, x) \in Seq(S) /\ Len(Append(q, x)) = Len(q) + 1 /\ Len(q) \in Nat
         /\ DOMAIN q = 1 .. Len(q) /\ DOMAIN Append(q, x) = 1 .. Len(q) + 1
         /\ Append(q, x)[Len(q) + 1] = x
         /\ \A i \in DOMAIN q : Append(q, x)[i] = q[i]
         /\ \A i \in DOMAIN Append(q, x) : i = Len(q) + 1 \/ i \in DOMAIN q
<1>1. /\ Append(q, x) \in Seq(S) /\ Len(Append(q, x)) = Len(q) + 1 /\ Len(q) \in Nat
      /\ Append(q, x)[Len(q) + 1] = x /\ \A i \in 1..Len(q) : Append(q, x)[i] = q[i]
  BY AppendProperties
<1> QED BY <1>1

LEMMA Shifted ==
  ASSUME NEW S, NEW q \in Seq(S), q # <<>>
  PROVE  /\ Tail(q) \in Seq(S) /\ Len(Tail(q)) = Len(q) - 1 /\ Len(q) \in Nat \ {0}
         /\ DOMAIN Tail(q) = 1 .. Len(q) - 1 /\ DOMAIN q = 1 .. Len(q)
         /\ \A i \in DOMAIN Tail(q) : i + 1 \in DOMAIN q /\ Tail(q)[i] = q[i + 1]
         /\ \A i \in DOMAIN q : i = 1 \/ (i - 1 \in DOMAIN Tail(q) /\ Tail(q)[i - 1] = q[i])
         /\ Head(q) = q[1] /\ 1 \in DOMAIN q /\ Head(q) \in S
<1>1. /\ Tail(q) \in Seq(S) /\ Len(Tail(q)) = Len(q) - 1 /\ Len(q) \in Nat \ {0}
      /\ \A i \in 1..Len(Tail(q)) : Tail(q)[i] = q[i + 1]
      /\ Head(q) = q[1]
  BY HeadTailProperties
<1>2. DOMAIN q = 1 .. Len(q) /\ DOMAIN Tail(q) = 1 .. Len(q) - 1
  BY <1>1
<1>3. \A i \in DOMAIN Tail(q) : i + 1 \in DOMAIN q /\ Tail(q)[i] = q[i + 1]
  BY <1>1, <1>2
<1>4. ASSUME NEW i \in DOMAIN q, i # 1
      PROVE  i - 1 \in DOMAIN Tail(q) /\ Tail(q)[i - 1] = q[i]
  <2>1. i - 1 \in 1 .. Len(q) - 1 /\ (i - 1) + 1 = i
    BY <1>1, <1>2, <1>4
  <2> QED BY <1>2, <1>3, <2>1
<1> QED BY <1>1, <1>2, <1>3, <1>4

Distinct(q) == \A i, j \in DOMAIN q : q[i] = q[j] => i = j

LEMMA JoinedElems ==
  ASSUME NEW S, NEW q \in Seq(S), NEW x \in S
  PROVE  /\ Elems(Append(q, x)) = Elems(q) \union {x}
         /\ Distinct(q) /\ x \notin Elems(q) => Distinct(Append(q, x))
         /\ Append(q, x) # <<>>
         /\ q # <<>> => Head(Append(q, x)) = Head(q)
<1>1. Elems(Append(q, x)) = Elems(q) \union {x}
  BY Joined DEF Elems
<1>2. Distinct(q) /\ x \notin Elems(q) => Distinct(Append(q, x))
  BY Joined DEF Elems, Distinct
<1>3. Append(q, x) # <<>> /\ (q # <<>> => Head(Append(q, x)) = Head(q))
  BY Joined, Shifted
<1> QED BY <1>1, <1>2, <1>3

LEMMA ShiftedElems ==
  ASSUME NEW S, NEW q \in Seq(S), q # <<>>
  PROVE  /\ Elems(q) = Elems(Tail(q)) \union {Head(q)} /\ Head(q) \in S
         /\ Distinct(q) => Distinct(Tail(q)) /\ Head(q) \notin Elems(Tail(q))
<1>1. Elems(q) = Elems(Tail(q)) \union {Head(q)} /\ Head(q) \in S
  <2>1. \A i \in DOMAIN q : q[i] \in Elems(Tail(q)) \union {Head(q)}
    BY Shifted DEF Elems
  <2>2. Elems(Tail(q)) \union {Head(q)} \subseteq Elems(q)
    <3>1. Head(q) \in Elems(q)
      BY Shifted DEF Elems
    <3>2. \A i \in DOMAIN Tail(q) : Tail(q)[i] \in Elems(q)
      BY Shifted DEF Elems
    <3>3. Elems(Tail(q)) \subseteq Elems(q)
      BY <3>2 DEF Elems
    <3> QED BY <3>1, <3>3
  <2>3. Elems(q) \subseteq Elems(Tail(q)) \union {Head(q)}
    BY <2>1 DEF Elems
  <2> QED BY <2>2, <2>3, Shifted
<1>2. ASSUME Distinct(q) PROVE Distinct(Tail(q)) /\ Head(q) \notin Elems(Tail(q))
  <2>1. \A i \in DOMAIN Tail(q) : i + 1 # 1 /\ i \in Nat
    BY Shifted
  <2>2. \A i, j \in DOMAIN Tail(q) : i + 1 = j + 1 => i = j
    BY <2>1
  <2> QED BY <1>2, <2>1, <2>2, Shifted DEF Distinct, Elems
<1> QED BY <1>1, <1>2

TaskType == [pc : {"unsent", "connecting", "queued", "receiving", "closing", "done", "broken"},
             kind : {"none", "initialize", "call", "note", "delete"}, got : Results]

\* One task moves, the others stay.
Moves(t, pc, kind, got) ==
    /\ task' \in [Tasks -> TaskType]
    /\ task'[t].pc = pc /\ task'[t].kind = kind /\ task'[t].got = got
    /\ \A o \in Tasks : o # t => task'[o] = task[o]

LEMMA Moved ==
  ASSUME TypeOK, NEW t \in Tasks,
         NEW pc \in {"unsent", "connecting", "queued", "receiving", "closing", "done", "broken"},
         NEW kind \in {"none", "initialize", "call", "note", "delete"}, NEW got \in Results,
         \/ task' = [task EXCEPT ![t] = [@ EXCEPT !.pc = pc, !.kind = kind]] /\ got = task[t].got
         \/ task' = [task EXCEPT ![t] = [@ EXCEPT !.pc = pc, !.got = got]] /\ kind = task[t].kind
         \/ task' = [task EXCEPT ![t].pc = pc] /\ got = task[t].got /\ kind = task[t].kind
         \/ task' = [task EXCEPT ![t] = [pc |-> pc, kind |-> kind, got |-> got]]
  PROVE  Moves(t, pc, kind, got)
<1> DEFINE P == {"unsent", "connecting", "queued", "receiving", "closing", "done", "broken"}
           K == {"none", "initialize", "call", "note", "delete"}
           T == [pc : P, kind : K, got : Results]
           Now(r) == r \in T /\ r.pc = pc /\ r.kind = kind /\ r.got = got
<1>1. task \in [Tasks -> T] /\ pc \in P /\ kind \in K
  BY DEF TypeOK
<1> HIDE DEF P, K
<1>2. ASSUME NEW r, Now(r), task' = [task EXCEPT ![t] = r]
      PROVE  Moves(t, pc, kind, got)
  <2>1. Now(task'[t]) /\ \A o \in Tasks : o # t => task'[o] = task[o]
    BY <1>1, <1>2
  <2>2. task' \in [Tasks -> T]
    <3> HIDE DEF T
    <3>1. r \in T
      BY <1>2
    <3> QED BY <1>1, <1>2, <3>1
  <2> QED BY <2>1, <2>2 DEF Moves, TaskType, P, K
<1>3. task[t] \in T
  BY <1>1
<1>4. CASE task' = [task EXCEPT ![t] = [@ EXCEPT !.pc = pc, !.kind = kind]] /\ got = task[t].got
  <2>1. Now([task[t] EXCEPT !.pc = pc, !.kind = kind])
    BY <1>1, <1>3, <1>4
  <2> QED BY <1>2, <1>4, <2>1
<1>5. CASE task' = [task EXCEPT ![t] = [@ EXCEPT !.pc = pc, !.got = got]] /\ kind = task[t].kind
  <2>1. Now([task[t] EXCEPT !.pc = pc, !.got = got])
    BY <1>1, <1>3, <1>5
  <2> QED BY <1>2, <1>5, <2>1
<1>6. CASE task' = [task EXCEPT ![t].pc = pc] /\ got = task[t].got /\ kind = task[t].kind
  <2>1. Now([task[t] EXCEPT !.pc = pc])
    BY <1>1, <1>3, <1>6
  <2>2. task' = [task EXCEPT ![t] = [task[t] EXCEPT !.pc = pc]]
    BY <1>6
  <2> QED BY <1>2, <2>1, <2>2
<1>7. CASE task' = [task EXCEPT ![t] = [pc |-> pc, kind |-> kind, got |-> got]]
  <2>1. Now([pc |-> pc, kind |-> kind, got |-> got])
    BY <1>1
  <2> QED BY <1>2, <1>7, <2>1
<1> QED BY <1>4, <1>5, <1>6, <1>7

\* What the handlers' steps do to the tasks.
LEMMA TaskSteps ==
  ASSUME TypeOK, LockInv
  PROVE  /\ \A valid \in BOOLEAN : Initialize(valid) =>
               \E pc \in {"done", "connecting"}, got \in {Refusal, task[Opening].got} :
                  Moves(Opening, pc, "initialize", got)
         /\ Connect => \E pc \in {"queued", "broken"} :
               Moves(Opening, pc, task[Opening].kind, task[Opening].got) /\ (Started <=> pc = "queued")
         /\ \A t \in Posts, kind \in {"call", "note"} : Post(t, kind) =>
               \/ registered /\ Moves(t, "queued", kind, task[t].got) /\ lock' = Append(lock, t)
               \/ ~registered /\ Moves(t, "done", kind, Refusal) /\ lock' = lock
         /\ \A t \in Tasks : Send(t) =>
               \/ eof /\ Moves(t, "broken", task[t].kind, task[t].got) /\ lock' = Tail(lock) /\ c2r' = c2r
               \/ /\ ~eof /\ c2r' = Append(c2r, t)
                  /\ \/ ~IsRequest(t) /\ Moves(t, "done", task[t].kind, task[t].got) /\ lock' = Tail(lock)
                     \/ IsRequest(t) /\ Moves(t, "receiving", task[t].kind, task[t].got) /\ lock' = lock
         /\ \A t \in Tasks : Receive(t) =>
               Head(r2c) \in Messages /\ Moves(t, "done", task[t].kind, Head(r2c)) /\ lock' = Tail(lock)
         /\ \A t \in Posts : Delete(t) =>
               \E pc \in {"closing", "done"} : Moves(t, pc, "delete", task[t].got)
         /\ \A t \in Tasks : Close(t) => Moves(t, "done", task[t].kind, task[t].got)
<1>0. /\ \A t \in Tasks : task[t].got \in Results /\ task[t].kind \in {"none", "initialize", "call", "note", "delete"}
      /\ Opening \in Tasks /\ Posts \subseteq Tasks /\ r2c \in Seq(Messages)
      /\ Messages \subseteq Results /\ Refusal \in Results
  BY DEF TypeOK, Tasks, Results
<1>1. ASSUME NEW valid \in BOOLEAN, Initialize(valid)
      PROVE  \E pc \in {"done", "connecting"}, got \in {Refusal, task[Opening].got} :
                Moves(Opening, pc, "initialize", got)
  BY <1>0, <1>1, Moved DEF Initialize
<1>2. ASSUME Connect
      PROVE  \E pc \in {"queued", "broken"} :
               Moves(Opening, pc, task[Opening].kind, task[Opening].got) /\ (Started <=> pc = "queued")
  <2>1. CASE Started
    <3>1. Moves(Opening, "queued", task[Opening].kind, task[Opening].got)
      BY <1>0, <2>1, Moved DEF Started
    <3> QED BY <2>1, <3>1
  <2>2. CASE ~Started
    <3>1. Moves(Opening, "broken", task[Opening].kind, task[Opening].got)
      BY <1>0, <1>2, <2>2, Moved DEF Connect
    <3> QED BY <2>2, <3>1
  <2> QED BY <2>1, <2>2
<1>3. ASSUME NEW t \in Posts, NEW kind \in {"call", "note"}, Post(t, kind)
      PROVE  \/ registered /\ Moves(t, "queued", kind, task[t].got) /\ lock' = Append(lock, t)
             \/ ~registered /\ Moves(t, "done", kind, Refusal) /\ lock' = lock
  <2>1. t \in Tasks /\ task[t].got \in Results /\ Refusal \in Results
    BY <1>0
  <2>2. CASE registered
    <3>1. task' = [task EXCEPT ![t] = [@ EXCEPT !.pc = "queued", !.kind = kind]] /\ lock' = Append(lock, t)
      BY <1>3, <2>2 DEF Post
    <3>2. Moves(t, "queued", kind, task[t].got)
      BY <2>1, <3>1, Moved
    <3> QED BY <2>2, <3>1, <3>2
  <2>3. CASE ~registered
    <3>1. task' = [task EXCEPT ![t] = [pc |-> "done", kind |-> kind, got |-> Refusal]] /\ lock' = lock
      BY <1>3, <2>3 DEF Post
    <3>2. Moves(t, "done", kind, Refusal)
      BY <2>1, <3>1, Moved
    <3> QED BY <2>3, <3>1, <3>2
  <2> QED BY <2>2, <2>3
<1>4. ASSUME NEW t \in Tasks, Send(t)
      PROVE  \/ eof /\ Moves(t, "broken", task[t].kind, task[t].got) /\ lock' = Tail(lock) /\ c2r' = c2r
             \/ /\ ~eof /\ c2r' = Append(c2r, t)
                /\ \/ ~IsRequest(t) /\ Moves(t, "done", task[t].kind, task[t].got) /\ lock' = Tail(lock)
                   \/ IsRequest(t) /\ Moves(t, "receiving", task[t].kind, task[t].got) /\ lock' = lock
  BY <1>0, <1>4, Moved DEF Send, Released
<1>5. ASSUME NEW t \in Tasks, Receive(t)
      PROVE  Head(r2c) \in Messages /\ Moves(t, "done", task[t].kind, Head(r2c)) /\ lock' = Tail(lock)
  <2>1. Head(r2c) \in Messages
    BY <1>0, <1>5, Shifted DEF Receive
  <2> QED BY <1>0, <1>5, <2>1, Moved DEF Receive, Released
<1>6. ASSUME NEW t \in Posts, Delete(t)
      PROVE  \E pc \in {"closing", "done"} : Moves(t, pc, "delete", task[t].got)
  BY <1>0, <1>6, Moved DEF Delete
<1>7. ASSUME NEW t \in Tasks, Close(t) PROVE Moves(t, "done", task[t].kind, task[t].got)
  BY <1>0, <1>7, Moved DEF Close
<1> QED BY <1>1, <1>2, <1>3, <1>4, <1>5, <1>6, <1>7

-----------------------------------------------------------------------------
\* Types.
LEMMA TypeNext ==
  ASSUME TypeOK, LockInv, [Next]_vars
  PROVE  TypeOK'
<1> DEFINE RouterType == [pc : {"none", "opening", "opened", "reading", "calling", "asking", "ended", "failed"},
                          call : Tasks]
           StreamType == [pc : {"unsent", "open", "closed", "refused"}, gone : BOOLEAN, got : Seq(1..MaxEvents)]
<1>0. /\ task \in [Tasks -> TaskType] /\ router \in RouterType /\ stream \in [Streams -> StreamType]
      /\ lock \in Seq(Tasks) /\ c2r \in Seq(Tasks) /\ r2c \in Seq(Messages) /\ outbound \in Seq(1..MaxEvents)
      /\ Opening \in Tasks /\ Posts \subseteq Tasks /\ MaxEvents \in Nat /\ MaxReloads \in Nat
      /\ Changed \in Messages /\ \A t \in Tasks : Response(t) \in Messages
      /\ Modes \subseteq BOOLEAN /\ Messages \subseteq Results /\ {Nothing, Refusal} \subseteq Results
  BY FlagsAssumption, SessionBounds DEF TypeOK, TaskType, Tasks, Messages, Results
<1>1. ASSUME NEW valid \in BOOLEAN, Initialize(valid) PROVE TypeOK'
  <2>1. task' \in [Tasks -> TaskType]
    BY <1>0, <1>1, TaskSteps DEF Moves
  <2>2. resilient' \in BOOLEAN
    BY <1>0, <1>1 DEF Initialize, TypeOK
  <2> QED BY <1>1, <2>1, <2>2 DEF Initialize, TypeOK, TaskType, pipes, sse
<1>2. CASE Connect
  <2>1. task' \in [Tasks -> TaskType] /\ router' \in RouterType
    BY <1>0, <1>2, TaskSteps DEF Connect, Started, Moves
  <2>2. <<Opening>> \in Seq(Tasks)
    BY <1>0
  <2>3. lock' \in Seq(Tasks) /\ registered' \in BOOLEAN
    BY <1>0, <1>2, <2>2 DEF Connect, Started, TypeOK
  <2> QED BY <1>2, <2>1, <2>3 DEF Connect, TypeOK, TaskType, pipes, sse, conf
<1>3. CASE Reload
  <2>1. current' \in [doc : 0..MaxReloads, resilient : Modes, auth : BOOLEAN]
    <3>1. current.doc + 1 \in 0..MaxReloads
      BY <1>0, <1>3 DEF Reload, TypeOK
    <3> QED BY <1>3, <3>1 DEF Reload
  <2> QED BY <1>3, <2>1 DEF Reload, TypeOK, TaskType, pipes, sse
<1>4. ASSUME NEW t \in Posts, NEW kind \in {"call", "note"}, Post(t, kind) PROVE TypeOK'
  <2>1. task' \in [Tasks -> TaskType]
    BY <1>0, <1>4, TaskSteps DEF Moves
  <2>2. lock' \in Seq(Tasks)
    <3>1. lock' = lock \/ lock' = Append(lock, t)
      BY <1>4 DEF Post
    <3>2. Append(lock, t) \in Seq(Tasks)
      BY <1>0, Joined
    <3> QED BY <1>0, <3>1, <3>2
  <2> QED BY <1>4, <2>1, <2>2 DEF Post, TypeOK, TaskType, sse, conf
<1>5. ASSUME NEW t \in Tasks, Send(t) PROVE TypeOK'
  <2>1. task' \in [Tasks -> TaskType]
    BY <1>0, <1>5, TaskSteps DEF Moves
  <2>2. lock' \in Seq(Tasks) /\ c2r' \in Seq(Tasks)
    <3>1. lock # <<>> /\ lock' \in {lock, Tail(lock)} /\ c2r' \in {c2r, Append(c2r, t)}
      BY <1>5 DEF Send, Turn, Released
    <3>2. Append(c2r, t) \in Seq(Tasks) /\ Tail(lock) \in Seq(Tasks)
      BY <1>0, <3>1, Joined, Shifted
    <3> QED BY <1>0, <3>1, <3>2
  <2> QED BY <1>5, <2>1, <2>2 DEF Send, TypeOK, TaskType, sse, conf
<1>6. ASSUME NEW t \in Tasks, Receive(t) PROVE TypeOK'
  <2>1. Head(r2c) \in Messages /\ Tail(r2c) \in Seq(Messages) /\ Tail(lock) \in Seq(Tasks)
    BY <1>0, <1>6, Shifted DEF Receive, LockInv, Turn
  <2>2. task' \in [Tasks -> TaskType]
    BY <1>0, <1>6, TaskSteps DEF Moves
  <2> QED BY <1>6, <2>1, <2>2 DEF Receive, Released, TypeOK, TaskType, sse, conf
<1>7. ASSUME NEW t \in Posts, Delete(t) PROVE TypeOK'
  <2>1. task' \in [Tasks -> TaskType]
    BY <1>0, <1>7, TaskSteps DEF Moves
  <2>2. registered' \in BOOLEAN /\ eof' \in BOOLEAN
    BY <1>7 DEF Delete, TypeOK
  <2> QED BY <1>7, <2>1, <2>2 DEF Delete, TypeOK, TaskType, sse, conf
<1>8. ASSUME NEW t \in Tasks, Close(t) PROVE TypeOK'
  <2>1. task' \in [Tasks -> TaskType] /\ router' \in RouterType
    BY <1>0, <1>8, TaskSteps DEF Close, Moves
  <2> QED BY <1>8, <2>1 DEF Close, TypeOK, TaskType, sse, conf
<1>9. CASE RouterStep \/ SurfaceChanges
  <2>1. c2r' \in Seq(Tasks)
    <3>1. c2r' = c2r \/ (c2r # <<>> /\ c2r' = Tail(c2r))
      BY <1>9 DEF RouterStep, SurfaceChanges, Open, Opened, Read, EndOfInput, Answer, CallFails, Announce, Took
    <3>2. c2r # <<>> => Tail(c2r) \in Seq(Tasks)
      BY <1>0, Shifted
    <3> QED BY <1>0, <3>1, <3>2
  <2>2. router' \in RouterType
    <3>1. CASE Read
      <4>1. Head(c2r) \in Tasks
        BY <1>0, <3>1, Shifted DEF Read
      <4> QED BY <1>0, <3>1, <4>1 DEF Read
    <3>2. CASE ~Read
      BY <1>0, <1>9, <3>2 DEF RouterStep, SurfaceChanges, Open, Opened, EndOfInput, Answer, CallFails, Announce
    <3> QED BY <3>1, <3>2
  <2>3. r2c' \in Seq(Messages)
    <3>1. ASSUME NEW t \in Tasks PROVE <<Response(t), Changed>> \in Seq(Messages) /\ <<Response(t)>> \in Seq(Messages)
      BY <1>0
    <3>2. \A q \in Seq(Messages) : r2c \o q \in Seq(Messages)
      BY <1>0, ConcatProperties
    <3>3. CASE Answer
      BY <1>0, <3>1, <3>2, <3>3 DEF Answer
    <3>4. CASE Open
      <4>1. Response(Head(c2r)) \in Messages
        BY <1>0, <3>4, Shifted DEF Open
      <4>2. r2c' = r2c \/ r2c' = Append(r2c, Response(Head(c2r)))
        BY <3>4 DEF Open
      <4>3. Append(r2c, Response(Head(c2r))) \in Seq(Messages)
        BY <1>0, <4>1, Joined
      <4> QED BY <1>0, <4>2, <4>3
    <3>5. CASE Announce
      BY <1>0, <3>5, Joined DEF Announce
    <3>6. CASE Opened \/ Read \/ EndOfInput \/ CallFails \/ SurfaceChanges
      BY <1>0, <3>6 DEF Opened, Read, EndOfInput, CallFails, SurfaceChanges
    <3> QED BY <1>9, <3>3, <3>4, <3>5, <3>6 DEF RouterStep
  <2>4. dirty' \in BOOLEAN /\ UNCHANGED <<registered, task, lock, eof, conf, sse>>
    BY <1>9 DEF RouterStep, SurfaceChanges, Open, Opened, Read, EndOfInput, Answer, CallFails, Announce, TypeOK
  <2> QED BY <2>1, <2>2, <2>3, <2>4 DEF TypeOK, TaskType, conf, sse
<1>10. CASE Event
  <2>1. events + 1 \in 1..MaxEvents
    BY <1>0, <1>10 DEF Event, TypeOK
  <2>2. outbound' \in Seq(1..MaxEvents) /\ events' \in 0..MaxEvents
    BY <1>0, <1>10, <2>1, Joined DEF Event
  <2>3. router' \in RouterType
    BY <1>0, <1>10 DEF Event
  <2> QED BY <1>10, <2>2, <2>3 DEF Event, TypeOK, TaskType, conf, pipes
<1>11. ASSUME NEW s \in Streams, StreamStep(s) PROVE TypeOK'
  <2>1. stream' \in [Streams -> StreamType] /\ outbound' \in Seq(1..MaxEvents) /\ lost' \subseteq 1..MaxEvents
    <3>1. CASE Take(s)
      <4>1. Head(outbound) \in 1..MaxEvents /\ Tail(outbound) \in Seq(1..MaxEvents)
        BY <1>0, <3>1, Shifted DEF Take
      <4>2. Append(stream[s].got, Head(outbound)) \in Seq(1..MaxEvents)
        BY <1>0, <4>1
      <4>3. stream' \in [Streams -> StreamType]
        <5>1. \/ \E pc \in {"open", "closed"} : stream' = [stream EXCEPT ![s] = [stream[s] EXCEPT !.pc = pc]]
              \/ stream' = [stream EXCEPT ![s] = [stream[s] EXCEPT !.got = Append(stream[s].got, Head(outbound))]]
          BY <3>1 DEF Take
        <5>2. /\ \A pc \in {"open", "closed"} : [stream[s] EXCEPT !.pc = pc] \in StreamType
              /\ [stream[s] EXCEPT !.got = Append(stream[s].got, Head(outbound))] \in StreamType
          BY <1>0, <4>2
        <5> HIDE DEF StreamType
        <5> QED BY <1>0, <5>1, <5>2
      <4> QED BY <3>1, <4>1, <4>3 DEF Take, TypeOK, TaskType
    <3>2. CASE Get(s) \/ Leave(s) \/ Keepalive(s)
      <4>1. /\ \A pc \in {"open", "closed", "refused"} : [stream[s] EXCEPT !.pc = pc] \in StreamType
            /\ [stream[s] EXCEPT !.gone = TRUE] \in StreamType
        BY <1>0
      <4>2. \/ \E pc \in {"open", "closed", "refused"} : stream' = [stream EXCEPT ![s] = [stream[s] EXCEPT !.pc = pc]]
            \/ stream' = [stream EXCEPT ![s] = [stream[s] EXCEPT !.gone = TRUE]]
        BY <3>2 DEF Get, Leave, Keepalive
      <4>3. stream' \in [Streams -> StreamType]
        <5> HIDE DEF StreamType
        <5> QED BY <1>0, <4>1, <4>2
      <4> QED BY <3>2, <4>3 DEF Get, Leave, Keepalive, TypeOK
    <3> QED BY <1>11, <3>1, <3>2 DEF StreamStep
  <2>2. UNCHANGED <<registered, task, lock, pipes, router, dirty, conf, events>>
    BY <1>11 DEF StreamStep, Get, Leave, Take, Keepalive
  <2> QED BY <2>1, <2>2 DEF TypeOK, TaskType, pipes, conf
<1>12. CASE UNCHANGED vars
  BY <1>12 DEF vars, pipes, conf, sse, TypeOK
<1> QED BY <1>1, <1>2, <1>3, <1>4, <1>5, <1>6, <1>7, <1>8, <1>9, <1>10, <1>11, <1>12
        DEF Next, ClientStep, HandlerStep

-----------------------------------------------------------------------------
\* The lock.
Queues(pc) == pc \in {"queued", "receiving"}

LEMMA LockFrame ==
  ASSUME LockInv, lock' = lock,
         \A t \in Tasks : Queues(task'[t].pc) <=> Queues(task[t].pc),
         \A t \in Tasks : task'[t].pc = "receiving" => task[t].pc = "receiving"
  PROVE  LockInv'
BY DEF LockInv, Queues, Turn

\* Who waits for the lock, and who leaves it.
LEMMA LockTail ==
  ASSUME TypeOK, LockInv, NEW t \in Tasks, Turn(t), lock' = Tail(lock),
         NEW pc, NEW kind, NEW got, Moves(t, pc, kind, got), ~Queues(pc)
  PROVE  LockInv'
<1>1. /\ lock \in Seq(Tasks) /\ lock # <<>> /\ Distinct(lock) /\ t = Head(lock)
      /\ \A o \in Tasks : Queues(task[o].pc) <=> o \in Elems(lock)
      /\ \A o \in Tasks : task[o].pc = "receiving" => o = t
  BY DEF TypeOK, LockInv, Turn, Distinct, Queues
<1>2. Elems(lock) = Elems(lock') \union {t} /\ Distinct(lock') /\ t \notin Elems(lock')
  BY <1>1, ShiftedElems
<1>3. \A o \in Tasks : Queues(task'[o].pc) <=> o \in Elems(lock')
  BY <1>1, <1>2 DEF Moves
<1>4. \A o \in Tasks : task'[o].pc # "receiving"
  BY <1>1 DEF Moves, Queues
<1> QED BY <1>2, <1>3, <1>4 DEF LockInv, Distinct, Queues

LEMMA LockJoin ==
  ASSUME TypeOK, LockInv, NEW t \in Tasks, ~Queues(task[t].pc), lock' = Append(lock, t),
         NEW kind, NEW got, Moves(t, "queued", kind, got)
  PROVE  LockInv'
<1>1. /\ lock \in Seq(Tasks) /\ Distinct(lock) /\ t \notin Elems(lock)
      /\ \A o \in Tasks : Queues(task[o].pc) <=> o \in Elems(lock)
      /\ \A o \in Tasks : task[o].pc = "receiving" => lock # <<>> /\ Head(lock) = o
  BY DEF TypeOK, LockInv, Turn, Distinct, Queues
<1>2. /\ Elems(lock') = Elems(lock) \union {t} /\ Distinct(lock') /\ lock' # <<>>
      /\ lock # <<>> => Head(lock') = Head(lock)
  BY <1>1, JoinedElems
<1>3. \A o \in Tasks : Queues(task'[o].pc) <=> o \in Elems(lock')
  BY <1>1, <1>2 DEF Moves, Queues
<1>4. \A o \in Tasks : task'[o].pc = "receiving" => lock' # <<>> /\ Head(lock') = o
  BY <1>1, <1>2 DEF Moves
<1> QED BY <1>2, <1>3, <1>4 DEF LockInv, Distinct, Queues, Turn

LEMMA LockNext ==
  ASSUME TypeOK, LockInv, StageInv, [Next]_vars
  PROVE  LockInv'
<1>0. Opening \in Tasks /\ Posts \subseteq Tasks
  BY DEF Tasks
<1>1. ASSUME NEW valid \in BOOLEAN, Initialize(valid) PROVE LockInv'
  <2>1. PICK pc \in {"done", "connecting"}, got \in {Refusal, task[Opening].got} :
          Moves(Opening, pc, "initialize", got)
    BY <1>1, TaskSteps
  <2>2. lock' = lock /\ task[Opening].pc = "unsent"
    BY <1>1 DEF Initialize
  <2> QED BY <1>0, <2>1, <2>2, LockFrame DEF Moves, Queues
<1>2. CASE Connect
  <2>1. PICK pc \in {"queued", "broken"} :
          Moves(Opening, pc, task[Opening].kind, task[Opening].got) /\ (Started <=> pc = "queued")
    BY <1>2, TaskSteps
  <2>2. task[Opening].pc = "connecting" /\ lock = <<>>
    BY <1>2 DEF Connect, StageInv
  <2>3. CASE pc = "queued"
    <3>1. lock' = Append(lock, Opening)
      BY <2>1, <2>2, <2>3 DEF Started
    <3> QED BY <1>0, <2>1, <2>2, <2>3, <3>1, LockJoin DEF Queues
  <2>4. CASE pc = "broken"
    <3>1. lock' = lock
      BY <1>2, <2>1, <2>4 DEF Connect
    <3> QED BY <1>0, <2>1, <2>2, <2>4, <3>1, LockFrame DEF Moves, Queues
  <2> QED BY <2>1, <2>3, <2>4
<1>3. ASSUME NEW t \in Posts, NEW kind \in {"call", "note"}, Post(t, kind) PROVE LockInv'
  <2>1. task[t].pc = "unsent" /\ t \in Tasks
    BY <1>0, <1>3 DEF Post
  <2>2. CASE Moves(t, "queued", kind, task[t].got) /\ lock' = Append(lock, t)
    BY <2>1, <2>2, LockJoin DEF Queues
  <2>3. CASE Moves(t, "done", kind, Refusal) /\ lock' = lock
    BY <2>1, <2>3, LockFrame DEF Moves, Queues
  <2> QED BY <1>3, <2>2, <2>3, TaskSteps
<1>4. ASSUME NEW t \in Tasks, Send(t) PROVE LockInv'
  <2>1. task[t].pc = "queued" /\ Turn(t)
    BY <1>4 DEF Send
  <2>2. CASE lock' = Tail(lock) /\ \E pc \in {"broken", "done"} : Moves(t, pc, task[t].kind, task[t].got)
    <3>1. PICK pc \in {"broken", "done"} : Moves(t, pc, task[t].kind, task[t].got)
      BY <2>2
    <3>2. ~Queues(pc)
      BY DEF Queues
    <3> QED BY <2>1, <2>2, <3>1, <3>2, LockTail
  <2>3. CASE lock' = lock /\ Moves(t, "receiving", task[t].kind, task[t].got)
    BY <2>1, <2>3 DEF LockInv, Moves, Turn
  <2> QED BY <1>4, <2>2, <2>3, TaskSteps
<1>5. ASSUME NEW t \in Tasks, Receive(t) PROVE LockInv'
  <2>1. Turn(t) /\ Moves(t, "done", task[t].kind, Head(r2c)) /\ lock' = Tail(lock) /\ ~Queues("done")
    BY <1>5, TaskSteps DEF Receive, LockInv, Queues
  <2> QED BY <2>1, LockTail
<1>6. ASSUME NEW t \in Posts, Delete(t) PROVE LockInv'
  <2>1. PICK pc \in {"closing", "done"} : Moves(t, pc, "delete", task[t].got)
    BY <1>6, TaskSteps
  <2>2. lock' = lock /\ task[t].pc = "unsent"
    BY <1>6 DEF Delete
  <2> QED BY <1>0, <2>1, <2>2, LockFrame DEF Moves, Queues
<1>7. ASSUME NEW t \in Tasks, Close(t) PROVE LockInv'
  <2>1. lock' = lock /\ task[t].pc = "closing" /\ Moves(t, "done", task[t].kind, task[t].got)
    BY <1>7, TaskSteps DEF Close
  <2> QED BY <2>1, LockFrame DEF Moves, Queues
<1>8. UNCHANGED <<task, lock>> => LockInv'
  BY LockFrame
<1>9. ASSUME NEW s \in Streams, StreamStep(s) PROVE UNCHANGED <<task, lock>>
  BY <1>9 DEF StreamStep, Get, Leave, Take, Keepalive
<1>10. Reload \/ Event \/ RouterStep \/ SurfaceChanges \/ UNCHANGED vars => UNCHANGED <<task, lock>>
  BY DEF Reload, Event, RouterStep, SurfaceChanges, Open, Opened, Read, EndOfInput, Answer, CallFails, Announce, vars
<1> QED BY <1>1, <1>2, <1>3, <1>4, <1>5, <1>6, <1>7, <1>8, <1>9, <1>10 DEF Next, ClientStep, HandlerStep

-----------------------------------------------------------------------------
\* The stages of the session.
LEMMA StageFrame ==
  ASSUME StageInv, resilient' = resilient,
         task'[Opening] = task[Opening],
         \A t \in Posts : task[Opening].pc # "done" => task'[t].pc = task[t].pc,
         \A t \in Elems(c2r') : t \in Elems(c2r),
         \A t \in Elems(c2r) : task'[t].pc # "unsent",
         router'.pc = router.pc \/ (router'.pc \notin {"none", "opening"} /\ router.pc # "none"),
         router.pc = "none" => UNCHANGED <<lock, c2r, r2c, eof, registered, dirty>>,
         router'.pc = "opening" => r2c' = r2c,
         task[Opening].pc # "done" => eof' = eof
  PROVE  StageInv'
BY DEF StageInv

LEMMA StageNext ==
  ASSUME TypeOK, LockInv, StageInv, [Next]_vars
  PROVE  StageInv'
<1>0. /\ Opening \in Tasks /\ Posts \subseteq Tasks /\ Opening \notin Posts
      /\ c2r \in Seq(Tasks) /\ r2c \in Seq(Messages)
      /\ \A t \in Elems(c2r) : t \in Tasks
      /\ Elems(<<>>) = {}
  BY FlagsAssumption DEF Tasks, Opening, TypeOK, Elems
<1>1. ASSUME NEW valid \in BOOLEAN, Initialize(valid) PROVE StageInv'
  <2>1. PICK pc \in {"done", "connecting"}, got \in {Refusal, task[Opening].got} :
          Moves(Opening, pc, "initialize", got)
    BY <1>1, TaskSteps
  <2>2. /\ task[Opening].pc = "unsent" /\ router.pc = "none"
        /\ UNCHANGED <<registered, lock, c2r, eof, r2c, router, dirty>>
    BY <1>1 DEF Initialize, StageInv, pipes
  <2>3. c2r' = <<>> /\ \A t \in Posts : task'[t].pc = "unsent"
    BY <1>0, <2>1, <2>2 DEF StageInv, Moves
  <2> QED BY <1>0, <2>1, <2>2, <2>3 DEF StageInv, Moves
<1>2. CASE Connect
  <2>1. PICK pc \in {"queued", "broken"} :
          Moves(Opening, pc, task[Opening].kind, task[Opening].got) /\ (Started <=> pc = "queued")
    BY <1>2, TaskSteps
  <2>2. /\ task[Opening].pc = "connecting" /\ router.pc = "none" /\ task[Opening].kind = "initialize"
        /\ UNCHANGED <<c2r, eof, r2c, dirty, resilient>>
        /\ c2r = <<>> /\ r2c = <<>> /\ ~eof /\ ~dirty
        /\ \A t \in Posts : task'[t].pc = "unsent"
    BY <1>0, <1>2, <2>1 DEF Connect, StageInv, pipes, conf, Moves
  <2>3. CASE pc = "queued"
    <3>1. router'.pc = "opening"
      BY <2>1, <2>3 DEF Started, TypeOK
    <3> QED BY <1>0, <2>1, <2>2, <2>3, <3>1 DEF StageInv, Moves
  <2>4. CASE pc = "broken"
    <3>1. UNCHANGED <<registered, lock, router>>
      BY <1>2, <2>1, <2>4 DEF Connect
    <3> QED BY <1>0, <2>1, <2>2, <2>4, <3>1 DEF StageInv, Moves
  <2> QED BY <2>1, <2>3, <2>4
<1>3. ASSUME NEW t \in Posts, NEW kind \in {"call", "note"}, Post(t, kind) PROVE StageInv'
  <2>1. PICK pc \in {"queued", "done"}, got \in {Refusal, task[t].got} : Moves(t, pc, kind, got)
    BY <1>3, TaskSteps
  <2>2. /\ task[Opening].pc = "done" /\ UNCHANGED <<registered, c2r, eof, r2c, router, dirty, resilient>>
        /\ ~registered => lock' = lock
    BY <1>3 DEF Post, conf
  <2>3. task'[Opening] = task[Opening] /\ \A o \in Elems(c2r) : task'[o].pc # "unsent"
    BY <1>0, <2>1 DEF Moves, StageInv
  <2>4. router.pc = "none" => UNCHANGED <<lock, c2r, r2c, eof, registered, dirty>>
    BY <2>2 DEF StageInv
  <2> QED BY <2>2, <2>3, <2>4, StageFrame
<1>4. ASSUME NEW t \in Tasks, Send(t) PROVE StageInv'
  <2>1. PICK pc \in {"broken", "done", "receiving"} : Moves(t, pc, task[t].kind, task[t].got)
    BY <1>4, TaskSteps
  <2>2. /\ task[t].pc = "queued" /\ lock # <<>> /\ router.pc # "none"
        /\ UNCHANGED <<registered, eof, r2c, router, dirty, resilient>>
        /\ (eof /\ c2r' = c2r) \/ (~eof /\ c2r' = Append(c2r, t))
    BY <1>4 DEF Send, Turn, StageInv, conf
  <2>3. Elems(c2r') \subseteq Elems(c2r) \union {t}
    <3>1. Elems(Append(c2r, t)) = Elems(c2r) \union {t}
      BY <1>0, JoinedElems
    <3> QED BY <2>2, <3>1
  <2>4. \A o \in Elems(c2r') : task'[o].pc # "unsent"
    BY <1>0, <2>1, <2>3 DEF Moves, StageInv
  <2>5. CASE t = Opening
    <3>1. ~eof /\ IsRequest(t) /\ pc = "receiving"
      <4>1. ~eof /\ task[t].kind = "initialize"
        BY <2>2, <2>5 DEF StageInv
      <4>2. task'[t].pc = "receiving"
        BY <1>4, <4>1, TaskSteps DEF IsRequest, Moves
      <4> QED BY <2>1, <4>1, <4>2 DEF IsRequest, Moves
    <3> QED BY <1>0, <2>1, <2>2, <2>3, <2>4, <2>5, <3>1 DEF StageInv, Moves
  <2>6. CASE t # Opening
    <3>1. t \in Posts /\ task[Opening].pc = "done" /\ task'[Opening] = task[Opening]
      BY <1>0, <2>1, <2>2, <2>6 DEF Tasks, StageInv, Moves
    <3> QED BY <2>2, <2>4, <3>1 DEF StageInv
  <2> QED BY <2>5, <2>6
<1>5. ASSUME NEW t \in Tasks, Receive(t) PROVE StageInv'
  <2>1. Moves(t, "done", task[t].kind, Head(r2c))
    BY <1>5, TaskSteps
  <2>2. /\ task[t].pc = "receiving" /\ r2c # <<>> /\ router.pc \notin {"none", "opening"}
        /\ UNCHANGED <<registered, c2r, eof, router, dirty, resilient>>
    BY <1>5 DEF Receive, StageInv, conf
  <2>3. \A o \in Elems(c2r) : task'[o].pc # "unsent"
    BY <1>0, <2>1 DEF Moves, StageInv
  <2>4. /\ task'[Opening].kind = task[Opening].kind
        /\ \/ task[Opening].pc = "receiving" /\ task'[Opening].pc = "done"
           \/ task'[Opening] = task[Opening]
        /\ \A o \in Posts : task[o].pc = "unsent" => task'[o].pc = "unsent"
    BY <1>0, <2>1, <2>2 DEF Moves
  <2>5. task[Opening].pc # "done" => \A o \in Posts : task[o].pc = "unsent"
    BY DEF StageInv
  <2> QED BY <2>2, <2>3, <2>4, <2>5 DEF StageInv
<1>6. ASSUME NEW t \in Posts, Delete(t) PROVE StageInv'
  <2>1. PICK pc \in {"closing", "done"} : Moves(t, pc, "delete", task[t].got)
    BY <1>6, TaskSteps
  <2>2. /\ task[Opening].pc = "done" /\ UNCHANGED <<lock, c2r, r2c, router, dirty, resilient>>
        /\ registered' = FALSE /\ eof' = (eof \/ registered)
    BY <1>6 DEF Delete, conf
  <2>3. task'[Opening] = task[Opening] /\ \A o \in Elems(c2r) : task'[o].pc # "unsent"
    BY <1>0, <2>1 DEF Moves, StageInv
  <2>4. router.pc = "none" => UNCHANGED <<lock, c2r, r2c, eof, registered, dirty>>
    BY <2>2 DEF StageInv, TypeOK
  <2> QED BY <2>2, <2>3, <2>4, StageFrame
<1>7. ASSUME NEW t \in Tasks, Close(t) PROVE StageInv'
  <2>1. Moves(t, "done", task[t].kind, task[t].got) /\ task[t].pc = "closing"
        /\ UNCHANGED <<registered, lock, c2r, eof, r2c, dirty, resilient>>
        /\ router' = IF Alive THEN [router EXCEPT !.pc = "ended"] ELSE router
    BY <1>7, TaskSteps DEF Close, conf
  <2>2. router'.pc = router.pc \/ (router'.pc = "ended" /\ router.pc # "none")
    BY <2>1 DEF Alive, TypeOK
  <2>3. \A o \in Elems(c2r) : task'[o].pc # "unsent"
    BY <1>0, <2>1 DEF Moves, StageInv
  <2>4. /\ task'[Opening].kind = task[Opening].kind
        /\ \/ task[Opening].pc = "closing" /\ task'[Opening].pc = "done"
           \/ task'[Opening] = task[Opening]
        /\ \A o \in Posts : task[o].pc = "unsent" => task'[o].pc = "unsent"
    BY <1>0, <2>1 DEF Moves
  <2> QED BY <2>1, <2>2, <2>3, <2>4 DEF StageInv
<1>8. CASE RouterStep \/ SurfaceChanges \/ Event
  <2>1. UNCHANGED <<registered, task, lock, eof, resilient>> /\ router.pc # "none"
    BY <1>8 DEF RouterStep, SurfaceChanges, Event, Open, Opened, Read, EndOfInput, Answer, CallFails, Announce, 
                StageInv, pipes, conf
  <2>2. c2r' = c2r \/ (c2r # <<>> /\ c2r' = Tail(c2r))
    BY <1>8 DEF RouterStep, SurfaceChanges, Event, Open, Opened, Read, EndOfInput, Answer, CallFails, Announce, 
                Took, pipes
  <2>3. Elems(c2r') \subseteq Elems(c2r)
    <3>1. c2r # <<>> => Elems(Tail(c2r)) \subseteq Elems(c2r)
      BY <1>0, ShiftedElems
    <3> QED BY <2>2, <3>1
  <2>4. router'.pc \notin {"none", "opening"} \/ (router'.pc = router.pc /\ r2c' = r2c)
    <3>1. CASE Read
      BY <3>1 DEF Read, TypeOK
    <3>2. CASE ~Read
      BY <1>8, <3>2 DEF RouterStep, SurfaceChanges, Event, Open, Opened, EndOfInput, Answer, CallFails, Announce, 
                pipes, TypeOK
    <3> QED BY <3>1, <3>2
  <2>5. \A t \in Elems(c2r) : task'[t].pc # "unsent"
    BY <2>1 DEF StageInv
  <2> QED BY <2>1, <2>3, <2>4, <2>5, StageFrame
<1>9. UNCHANGED <<registered, task, lock, pipes, router, dirty, resilient>> => StageInv'
  <2> SUFFICES ASSUME UNCHANGED <<registered, task, lock, pipes, router, dirty, resilient>> PROVE StageInv'
    OBVIOUS
  <2>1. \A t \in Elems(c2r) : task'[t].pc # "unsent"
    BY DEF StageInv
  <2> QED BY <2>1, StageFrame DEF pipes
<1>10. ASSUME NEW s \in Streams, StreamStep(s)
       PROVE  UNCHANGED <<registered, task, lock, pipes, router, dirty, resilient>>
  BY <1>10 DEF StreamStep, Get, Leave, Take, Keepalive, conf
<1>11. Reload \/ UNCHANGED vars => UNCHANGED <<registered, task, lock, pipes, router, dirty, resilient>>
  BY DEF Reload, vars, conf
<1> QED BY <1>1, <1>2, <1>3, <1>4, <1>5, <1>6, <1>7, <1>8, <1>9, <1>10, <1>11
        DEF Next, ClientStep, HandlerStep

-----------------------------------------------------------------------------
\* The events.
LEMMA EventsFrame ==
  ASSUME EventsInv, UNCHANGED <<outbound, lost, events>>,
         \A s \in Streams : stream'[s].got = stream[s].got
  PROVE  EventsInv'
<1>1. Given' = Given
  BY DEF Given
<1> QED BY <1>1 DEF EventsInv, Taken

LEMMA NumberTaken ==
  ASSUME NEW n \in Nat, NEW S, NEW T, S = 1 .. n, T = S \union {n + 1}
  PROVE  T = 1 .. n + 1
OBVIOUS

\* A stream's share grows by the next number.
LEMMA ShareGrows ==
  ASSUME NEW n \in Nat, NEW q \in Seq(Nat), Elems(q) \subseteq 1 .. n,
         \A i, j \in DOMAIN q : i < j => q[i] < q[j]
  PROVE  /\ Elems(Append(q, n + 1)) = Elems(q) \union {n + 1}
         /\ \A i, j \in DOMAIN Append(q, n + 1) :
               i < j => Append(q, n + 1)[i] < Append(q, n + 1)[j]
<1> DEFINE r == Append(q, n + 1)
<1>1. /\ DOMAIN q = 1 .. Len(q) /\ DOMAIN r = 1 .. Len(q) + 1 /\ Len(q) \in Nat
      /\ r[Len(q) + 1] = n + 1 /\ \A i \in DOMAIN q : r[i] = q[i]
      /\ \A i \in DOMAIN r : i = Len(q) + 1 \/ i \in DOMAIN q
  BY Joined
<1>2. Elems(r) = Elems(q) \union {n + 1}
  BY JoinedElems
<1>3. \A i \in DOMAIN q : q[i] \in 1 .. n /\ i < Len(q) + 1 /\ i \in Nat
  BY <1>1 DEF Elems
<1> HIDE DEF r
<1>4. ASSUME NEW i \in DOMAIN r, NEW j \in DOMAIN r, i < j PROVE r[i] < r[j]
  <2>1. CASE j = Len(q) + 1
    <3>1. i \in DOMAIN q /\ r[i] = q[i] /\ q[i] \in 1 .. n /\ r[j] = n + 1
      BY <1>1, <1>3, <1>4, <2>1
    <3> QED BY <3>1
  <2>2. CASE j # Len(q) + 1
    <3>1. j \in DOMAIN q
      BY <1>1, <2>2
    <3>2. i \in DOMAIN q
      BY <1>1, <1>3, <1>4, <3>1
    <3> QED BY <1>1, <1>4, <3>1, <3>2
  <2> QED BY <2>1, <2>2
<1> QED BY <1>2, <1>4 DEF r

LEMMA EventsNext ==
  ASSUME TypeOK, EventsInv, [Next]_vars
  PROVE  EventsInv'
<1> DEFINE n == Taken
<1>0. /\ outbound \in Seq(1..MaxEvents) /\ events \in Nat /\ Len(outbound) \in Nat
      /\ DOMAIN outbound = 1 .. Len(outbound)
      /\ n = events - Len(outbound) /\ n \in Nat
      /\ \A i \in DOMAIN outbound : outbound[i] = n + i
      /\ Given \union lost = 1 .. n
      /\ \A s \in Streams : stream[s].got \in Seq(Nat)
  BY SessionBounds DEF TypeOK, EventsInv, Taken
<1>1. /\ \A s \in Streams : \A i, j \in DOMAIN stream[s].got : i < j => stream[s].got[i] < stream[s].got[j]
      /\ \A s, o \in Streams : s # o => Elems(stream[s].got) \cap Elems(stream[o].got) = {}
      /\ \A s \in Streams : Elems(stream[s].got) \subseteq Given
      /\ \A x \in Given : \E s \in Streams : x \in Elems(stream[s].got)
      /\ \A s \in Streams : Elems(stream'[s].got) \subseteq Given'
      /\ \A x \in Given' : \E s \in Streams : x \in Elems(stream'[s].got)
  <2>1. Given = UNION {Elems(stream[s].got) : s \in Streams} /\ Given' = UNION {Elems(stream'[s].got) : s \in Streams}
    BY DEF Given, Elems
  <2>2. \A s \in Streams : Elems(stream[s].got) \subseteq Given /\ Elems(stream'[s].got) \subseteq Given'
    BY <2>1
  <2>3. /\ \A x \in Given : \E s \in Streams : x \in Elems(stream[s].got)
        /\ \A x \in Given' : \E s \in Streams : x \in Elems(stream'[s].got)
    BY <2>1
  <2> QED BY <2>2, <2>3 DEF EventsInv
<1>a. \A s \in Streams : /\ stream[s] \in [pc : {"unsent", "open", "closed", "refused"}, gone : BOOLEAN, got : Seq(1..MaxEvents)]
                         /\ \A pc \in {"open", "closed", "refused"} : [stream[s] EXCEPT !.pc = pc].got = stream[s].got
                         /\ [stream[s] EXCEPT !.gone = TRUE].got = stream[s].got
  BY DEF TypeOK
<1>b. stream \in [Streams -> [pc : {"unsent", "open", "closed", "refused"}, gone : BOOLEAN, got : Seq(1..MaxEvents)]]
  BY DEF TypeOK
<1>c. n + 1 \notin 1 .. n /\ \A x \in 1 .. n : x # n + 1
  BY <1>0
<1> HIDE DEF n
<1>2. CASE Event
  <2>1. /\ UNCHANGED <<stream, lost>> /\ events' = events + 1 /\ outbound' = Append(outbound, events + 1)
        /\ events + 1 \in 1 .. MaxEvents
    BY <1>2, SessionBounds DEF Event, TypeOK
  <2>2. /\ DOMAIN Append(outbound, events + 1) = 1 .. Len(outbound) + 1
        /\ Append(outbound, events + 1)[Len(outbound) + 1] = events + 1
        /\ \A i \in DOMAIN outbound : Append(outbound, events + 1)[i] = outbound[i]
        /\ Len(Append(outbound, events + 1)) = Len(outbound) + 1
        /\ \A i \in DOMAIN Append(outbound, events + 1) : i = Len(outbound) + 1 \/ i \in DOMAIN outbound
    BY <1>0, <2>1, Joined
  <2>3. Taken' = n /\ n \in 0 .. events'
    BY <1>0, <2>1, <2>2 DEF Taken
  <2>4. \A i \in DOMAIN outbound' : outbound'[i] = n + i
    BY <1>0, <2>1, <2>2
  <2>5. Given' = Given
    BY <2>1 DEF Given
  <2> QED BY <1>0, <1>1, <2>1, <2>3, <2>4, <2>5 DEF EventsInv
<1>3. ASSUME NEW s \in Streams, Take(s) PROVE EventsInv'
  <2>1. outbound # <<>> /\ outbound' = Tail(outbound) /\ events' = events
    BY <1>3 DEF Take
  <2>2. /\ Len(Tail(outbound)) = Len(outbound) - 1 /\ Len(outbound) > 0
        /\ DOMAIN Tail(outbound) = 1 .. Len(outbound) - 1
        /\ \A i \in DOMAIN Tail(outbound) : i + 1 \in DOMAIN outbound /\ Tail(outbound)[i] = outbound[i + 1]
        /\ Head(outbound) = outbound[1] /\ 1 \in DOMAIN outbound
    BY <1>0, <2>1, Shifted
  <2>3. Head(outbound) = n + 1
    BY <1>0, <2>2
  <2>4. Taken' = n + 1 /\ n + 1 \in 0 .. events'
    BY <1>0, <2>1, <2>2 DEF Taken
  <2>5. \A i \in DOMAIN outbound' : outbound'[i] = (n + 1) + i
    BY <1>0, <2>1, <2>2
  <2>6. CASE stream[s].gone
    <3>1. lost' = lost \union {n + 1} /\ \A o \in Streams : stream'[o].got = stream[o].got
      <4>1. lost' = lost \union {n + 1}
        BY <1>3, <2>3, <2>6 DEF Take
      <4>2. PICK pc \in {"open", "closed"} : stream' = [stream EXCEPT ![s] = [stream[s] EXCEPT !.pc = pc]]
        BY <1>3, <2>6 DEF Take
      <4> QED BY <1>a, <1>b, <4>1, <4>2
    <3>2. Given' = Given
      BY <3>1 DEF Given
    <3>3. Given' \union lost' = 1 .. n + 1
      BY <1>0, <3>1, <3>2, NumberTaken
    <3> QED BY <1>1, <2>4, <2>5, <3>1, <3>3 DEF EventsInv
  <2>7. CASE ~stream[s].gone
    <3> DEFINE q == stream[s].got
    <3>1. /\ lost' = lost /\ stream'[s].got = Append(q, n + 1)
          /\ \A o \in Streams : o # s => stream'[o].got = stream[o].got
      BY <1>3, <2>3, <2>7 DEF Take, TypeOK
    <3>2. q \in Seq(Nat) /\ Elems(q) \subseteq 1 .. n /\ \A i, j \in DOMAIN q : i < j => q[i] < q[j]
      BY <1>0, <1>1
    <3>3. /\ Elems(Append(q, n + 1)) = Elems(q) \union {n + 1}
          /\ \A i, j \in DOMAIN Append(q, n + 1) : i < j => Append(q, n + 1)[i] < Append(q, n + 1)[j]
      BY <1>0, <3>2, ShareGrows
    <3> HIDE DEF q
    <3>4. Elems(stream'[s].got) = Elems(q) \union {n + 1}
      BY <3>1, <3>3
    <3>5. Given' = Given \union {n + 1}
      <4>1. Given' \subseteq Given \union {n + 1}
        BY <1>1, <3>1, <3>4 DEF q
      <4>2. Given \union {n + 1} \subseteq Given'
        BY <1>1, <3>1, <3>4 DEF q
      <4> QED BY <4>1, <4>2
    <3>6. Given' \union lost' = 1 .. n + 1
      <4>1. Given' \union lost' = (Given \union lost) \union {n + 1}
        BY <3>1, <3>5
      <4> HIDE DEF Given
      <4> QED BY <1>0, <4>1, NumberTaken
    <3>7. \A o, p \in Streams : o # p => Elems(stream'[o].got) \cap Elems(stream'[p].got) = {}
      <4>1. \A o \in Streams : n + 1 \notin Elems(stream[o].got)
        BY <1>0, <1>1, <1>c
      <4>2. ASSUME NEW o \in Streams, NEW p \in Streams, o # p
            PROVE  Elems(stream'[o].got) \cap Elems(stream'[p].got) = {}
        <5>1. Elems(stream[o].got) \cap Elems(stream[p].got) = {}
          BY <1>1, <4>2
        <5>2. \/ o = s /\ Elems(stream'[o].got) = Elems(stream[o].got) \union {n + 1}
                    /\ Elems(stream'[p].got) = Elems(stream[p].got)
              \/ p = s /\ Elems(stream'[p].got) = Elems(stream[p].got) \union {n + 1}
                    /\ Elems(stream'[o].got) = Elems(stream[o].got)
              \/ /\ Elems(stream'[o].got) = Elems(stream[o].got)
                 /\ Elems(stream'[p].got) = Elems(stream[p].got)
          <6>1. \A r \in Streams : r # s => Elems(stream'[r].got) = Elems(stream[r].got)
            BY <3>1
          <6>2. Elems(stream'[s].got) = Elems(stream[s].got) \union {n + 1}
            BY <3>4 DEF q
          <6> QED BY <4>2, <6>1, <6>2
        <5> QED BY <4>1, <5>1, <5>2
      <4> QED BY <4>2
    <3>8. \A o \in Streams : \A i, j \in DOMAIN stream'[o].got : i < j => stream'[o].got[i] < stream'[o].got[j]
      BY <1>1, <3>1, <3>3
    <3> QED BY <2>4, <2>5, <3>6, <3>7, <3>8 DEF EventsInv
  <2> QED BY <2>6, <2>7
<1>4. ASSUME UNCHANGED <<outbound, lost, events>>, \A s \in Streams : stream'[s].got = stream[s].got
      PROVE  EventsInv'
  BY <1>4, EventsFrame
<1>5. ASSUME NEW s \in Streams, Get(s) \/ Leave(s) \/ Keepalive(s) PROVE EventsInv'
  <2>1. UNCHANGED <<outbound, lost, events>> /\ \A o \in Streams : stream'[o].got = stream[o].got
    <3>1. UNCHANGED <<outbound, lost, events>>
      BY <1>5 DEF Get, Leave, Keepalive
    <3>2. \/ \E pc \in {"open", "closed", "refused"} : stream' = [stream EXCEPT ![s] = [stream[s] EXCEPT !.pc = pc]]
          \/ stream' = [stream EXCEPT ![s] = [stream[s] EXCEPT !.gone = TRUE]]
      BY <1>5 DEF Get, Leave, Keepalive
    <3>3. ASSUME NEW pc \in {"open", "closed", "refused"}, stream' = [stream EXCEPT ![s] = [stream[s] EXCEPT !.pc = pc]]
          PROVE  \A o \in Streams : stream'[o].got = stream[o].got
      BY <1>a, <1>b, <3>3
    <3>4. ASSUME stream' = [stream EXCEPT ![s] = [stream[s] EXCEPT !.gone = TRUE]]
          PROVE  \A o \in Streams : stream'[o].got = stream[o].got
      BY <1>a, <1>b, <3>4
    <3> QED BY <3>1, <3>2, <3>3, <3>4
  <2> QED BY <1>4, <2>1
<1>6. ASSUME NEW t \in Tasks, HandlerStep(t) PROVE UNCHANGED sse
  BY <1>6 DEF HandlerStep, Send, Receive, Close, Connect
<1>7. ASSUME NEW t \in Posts, ClientStep(t) PROVE UNCHANGED sse
  BY <1>7 DEF ClientStep, Post, Delete
<1>8. ASSUME NEW valid \in BOOLEAN, Initialize(valid) PROVE UNCHANGED sse
  BY <1>8 DEF Initialize
<1>9. Reload \/ RouterStep \/ SurfaceChanges \/ UNCHANGED vars => UNCHANGED sse
  BY DEF Reload, RouterStep, SurfaceChanges, Open, Opened, Read, EndOfInput, Answer, CallFails, Announce, vars
<1>10. UNCHANGED sse => EventsInv'
  BY <1>4 DEF sse
<1> QED BY <1>2, <1>3, <1>5, <1>6, <1>7, <1>8, <1>9, <1>10 DEF Next, StreamStep

-----------------------------------------------------------------------------
\* The exchange of a router without breakers.
LEMMA OneJoined ==
  ASSUME NEW T, NEW q \in Seq(T), NEW x \in T, NEW S, One(q, S), x \notin S \/ Elems(q) \cap S = {}
  PROVE  One(Append(q, x), S)
<1>1. /\ Append(q, x)[Len(q) + 1] = x /\ \A i \in DOMAIN q : Append(q, x)[i] = q[i]
      /\ \A i \in DOMAIN Append(q, x) : i = Len(q) + 1 \/ i \in DOMAIN q
  BY Joined
<1> DEFINE r == Append(q, x)
<1> HIDE DEF r
<1> QED BY <1>1 DEF One, Elems, r

LEMMA OneShifted ==
  ASSUME NEW T, NEW q \in Seq(T), q # <<>>, NEW S, One(q, S)
  PROVE  One(Tail(q), S) /\ (Head(q) \in S => Elems(Tail(q)) \cap S = {})
<1>1. /\ \A i \in DOMAIN Tail(q) : i + 1 \in DOMAIN q /\ Tail(q)[i] = q[i + 1] /\ i + 1 # 1
      /\ \A i, j \in DOMAIN Tail(q) : i + 1 = j + 1 => i = j
      /\ Head(q) = q[1] /\ 1 \in DOMAIN q
  BY Shifted
<1> DEFINE r == Tail(q)
<1> HIDE DEF r
<1> QED BY <1>1 DEF One, Elems, r

LEMMA OneLess ==
  ASSUME NEW q, NEW S, NEW T, One(q, S), Elems(q) \cap T \subseteq S
  PROVE  One(q, T)
BY DEF One, Elems

\* Steps that only take from the pipe to the router and end what it does.
LEMMA ExchangeFrame ==
  ASSUME TypeOK, ExchangeInv, UNCHANGED <<r2c, dirty>>,
         c2r' = c2r \/ (c2r # <<>> /\ c2r' = Tail(c2r)),
         \A t \in Elems(c2r) : task'[t].kind = task[t].kind,
         \A t \in Tasks : Waits(t) => task'[t].pc = "receiving",
         \A t \in Tasks : task'[t].got \in {task[t].got, Refusal},
         Busy' => Busy /\ router'.call = router.call
  PROVE  ExchangeInv'
<1>0. c2r \in Seq(Tasks) /\ router.call \in Tasks
  BY DEF TypeOK
<1>1. One(c2r', Requesters) /\ Elems(c2r') \subseteq Elems(c2r)
  <2>1. c2r # <<>> => One(Tail(c2r), Requesters) /\ Elems(Tail(c2r)) \subseteq Elems(c2r)
    BY <1>0, OneShifted, ShiftedElems DEF ExchangeInv
  <2> QED BY <2>1 DEF ExchangeInv
<1>2. Elems(c2r) \cap Requesters' \subseteq Requesters
  BY DEF Requesters, IsRequest
<1>3. One(c2r', Requesters')
  BY <1>1, <1>2, OneLess
<1>4. \A t \in Elems(c2r') \cap Requesters' : task'[t].pc = "receiving" /\ r2c' = <<>> /\ ~Busy'
  BY <1>1, <1>2 DEF ExchangeInv, Requesters
<1>5. Busy' => task'[router'.call].pc = "receiving" /\ r2c' = <<>>
  BY <1>0 DEF ExchangeInv
<1>6. /\ ~dirty' /\ Len(r2c') <= 1
      /\ \A msg \in Elems(r2c') : msg = Response(msg.to) /\ msg.to \in Tasks /\ task'[msg.to].pc = "receiving"
  BY DEF ExchangeInv
<1>7. AnswerMatches'
  BY DEF ExchangeInv, AnswerMatches, Refusal
<1> QED BY <1>3, <1>4, <1>5, <1>6, <1>7 DEF ExchangeInv, Waits

LEMMA ExchangeNext ==
  ASSUME TypeOK, LockInv, StageInv, ~resilient, ExchangeInv, UNCHANGED resilient, [Next]_vars
  PROVE  ExchangeInv'
<1>0. /\ Opening \in Tasks /\ Posts \subseteq Tasks
      /\ c2r \in Seq(Tasks) /\ r2c \in Seq(Messages) /\ router.call \in Tasks
      /\ \A t \in Elems(c2r) : t \in Tasks
  BY DEF Tasks, TypeOK, Elems
<1>1. /\ ~dirty /\ One(c2r, Requesters) /\ Len(r2c) <= 1 /\ AnswerMatches
      /\ \A t \in Elems(c2r) \cap Requesters : Waits(t) /\ r2c = <<>> /\ ~Busy
      /\ Busy => Waits(router.call) /\ r2c = <<>>
      /\ \A msg \in Elems(r2c) : msg = Response(msg.to) /\ msg.to \in Tasks /\ Waits(msg.to)
  BY DEF ExchangeInv
\* A task that had not begun, or was about to end the session.
<1>2. ASSUME NEW t \in Tasks, task[t].pc \in {"unsent", "connecting", "closing"},
             NEW pc, NEW kind, NEW got \in {task[t].got, Refusal}, Moves(t, pc, kind, got),
             t \in Elems(c2r) => kind = task[t].kind,
             UNCHANGED <<r2c, dirty, c2r>>, Busy' => Busy /\ router'.call = router.call
      PROVE  ExchangeInv'
  <2>1. /\ \A o \in Elems(c2r) : task'[o].kind = task[o].kind
        /\ \A o \in Tasks : Waits(o) => task'[o].pc = "receiving"
        /\ \A o \in Tasks : task'[o].got \in {task[o].got, Refusal}
    BY <1>0, <1>2 DEF Moves, Waits
  <2> QED BY <1>2, <2>1, ExchangeFrame
<1>3. \A t \in Tasks : task[t].pc = "unsent" => t \notin Elems(c2r)
  BY DEF StageInv
<1>4. ASSUME NEW valid \in BOOLEAN, Initialize(valid) PROVE ExchangeInv'
  <2>1. PICK pc \in {"done", "connecting"}, got \in {Refusal, task[Opening].got} :
          Moves(Opening, pc, "initialize", got)
    BY <1>4, TaskSteps
  <2>2. task[Opening].pc = "unsent" /\ UNCHANGED <<r2c, dirty, c2r, router>>
    BY <1>4 DEF Initialize, pipes
  <2>3. Busy' => Busy /\ router'.call = router.call
    BY <2>2 DEF Busy
  <2> QED BY <1>0, <1>2, <1>3, <2>1, <2>2, <2>3
<1>5. CASE Connect
  <2>1. PICK pc \in {"queued", "broken"} : Moves(Opening, pc, task[Opening].kind, task[Opening].got)
    BY <1>5, TaskSteps
  <2>2. /\ task[Opening].pc = "connecting" /\ UNCHANGED <<r2c, dirty, c2r>>
        /\ router' = router \/ router' = [router EXCEPT !.pc = "opening"]
    BY <1>5 DEF Connect, Started, pipes
  <2>3. Busy' => Busy /\ router'.call = router.call
    BY <2>2 DEF Busy, TypeOK
  <2> QED BY <1>0, <1>2, <2>1, <2>2, <2>3
<1>6. ASSUME NEW t \in Posts, NEW kind \in {"call", "note"}, Post(t, kind) PROVE ExchangeInv'
  <2>1. PICK pc \in {"queued", "done"}, got \in {Refusal, task[t].got} : Moves(t, pc, kind, got)
    BY <1>6, TaskSteps
  <2>2. task[t].pc = "unsent" /\ UNCHANGED <<r2c, dirty, c2r, router>>
    BY <1>6 DEF Post
  <2>3. Busy' => Busy /\ router'.call = router.call
    BY <2>2 DEF Busy
  <2> QED BY <1>0, <1>2, <1>3, <2>1, <2>2, <2>3
<1>7. ASSUME NEW t \in Posts, Delete(t) PROVE ExchangeInv'
  <2>1. PICK pc \in {"closing", "done"} : Moves(t, pc, "delete", task[t].got)
    BY <1>7, TaskSteps
  <2>2. task[t].pc = "unsent" /\ UNCHANGED <<r2c, dirty, c2r, router>>
    BY <1>7 DEF Delete
  <2>3. Busy' => Busy /\ router'.call = router.call
    BY <2>2 DEF Busy
  <2> QED BY <1>0, <1>2, <1>3, <2>1, <2>2, <2>3
<1>8. ASSUME NEW t \in Tasks, Close(t) PROVE ExchangeInv'
  <2>1. Moves(t, "done", task[t].kind, task[t].got)
    BY <1>8, TaskSteps
  <2>2. /\ task[t].pc = "closing" /\ UNCHANGED <<r2c, dirty, c2r>>
        /\ router' = router \/ router' = [router EXCEPT !.pc = "ended"]
    BY <1>8 DEF Close
  <2>3. Busy' => Busy /\ router'.call = router.call
    BY <2>2 DEF Busy, TypeOK
  <2> QED BY <1>2, <2>1, <2>2, <2>3
\* Nothing is outstanding while the holder has not written.
<1>9. ASSUME NEW t \in Tasks, Send(t) PROVE ExchangeInv'
  <2>1. task[t].pc = "queued" /\ Turn(t) /\ UNCHANGED <<r2c, dirty, router>>
    BY <1>9 DEF Send
  <2>2. \A o \in Tasks : ~Waits(o)
    BY <2>1 DEF LockInv, Turn, Waits
  <2>3. Elems(c2r) \cap Requesters = {} /\ ~Busy /\ Elems(r2c) = {}
    BY <1>0, <1>1, <2>2
  <2>4. PICK pc \in {"broken", "done", "receiving"} :
          /\ Moves(t, pc, task[t].kind, task[t].got)
          /\ c2r' = c2r \/ c2r' = Append(c2r, t)
          /\ c2r' = Append(c2r, t) /\ IsRequest(t) => pc = "receiving"
    <3>1. CASE eof
      BY <1>9, <3>1, TaskSteps
    <3>2. CASE ~eof
      BY <1>9, <3>2, TaskSteps
    <3> QED BY <3>1, <3>2
  <2>5. Requesters' = Requesters
    BY <2>4 DEF Requesters, IsRequest, Moves
  <2>6. One(c2r', Requesters)
    <3>1. One(Append(c2r, t), Requesters)
      BY <1>0, <1>1, <2>3, OneJoined
    <3> QED BY <1>1, <2>4, <3>1
  <2>7. Elems(c2r') \subseteq Elems(c2r) \union {t} /\ (c2r' = c2r => Elems(c2r') = Elems(c2r))
    <3>1. Elems(Append(c2r, t)) = Elems(c2r) \union {t}
      BY <1>0, JoinedElems
    <3> QED BY <2>4, <3>1
  <2>8. r2c = <<>>
    <3>1. r2c # <<>> => Head(r2c) \in Elems(r2c)
      BY <1>0, Shifted DEF Elems
    <3> QED BY <2>3, <3>1
  <2>9. \A o \in Elems(c2r') \cap Requesters : task'[o].pc = "receiving"
    BY <2>3, <2>4, <2>7 DEF Moves, Requesters
  <2>10. ~Busy'
    BY <2>1, <2>3 DEF Busy
  <2>11. AnswerMatches'
    BY <1>1, <2>4 DEF AnswerMatches, Moves
  <2>12. Len(r2c') <= 1 /\ r2c' = <<>> /\ Elems(r2c') = {} /\ ~dirty'
    BY <1>1, <2>1, <2>3, <2>8
  <2> QED BY <2>5, <2>6, <2>9, <2>10, <2>11, <2>12 DEF ExchangeInv, Waits
\* The holder reads the response to its own message.
<1>10. ASSUME NEW t \in Tasks, Receive(t) PROVE ExchangeInv'
  <2>1. Waits(t) /\ Turn(t) /\ r2c # <<>> /\ r2c' = Tail(r2c) /\ UNCHANGED <<c2r, dirty, router>>
        /\ Moves(t, "done", task[t].kind, Head(r2c))
    BY <1>10, TaskSteps DEF Receive, LockInv, Waits
  <2>2. Head(r2c) \in Elems(r2c) /\ Len(Tail(r2c)) = Len(r2c) - 1 /\ Len(r2c) \in Nat \ {0}
        /\ DOMAIN Tail(r2c) = 1 .. Len(r2c) - 1 /\ Tail(r2c) \in Seq(Messages)
    BY <1>0, <2>1, Shifted DEF Elems
  <2>3. Len(r2c) = 1
    BY <1>1, <2>2
  <2>4. Elems(r2c') = {} /\ Len(r2c') <= 1
    BY <2>1, <2>2, <2>3 DEF Elems
  <2>5. Head(r2c) = Response(t)
    <3>1. Head(r2c) = Response(Head(r2c).to) /\ Head(r2c).to \in Tasks /\ Waits(Head(r2c).to)
      BY <1>1, <2>2
    <3>2. \A o \in Tasks : Waits(o) => o = t
      BY <2>1 DEF LockInv, Turn, Waits
    <3> QED BY <3>1, <3>2
  <2>6. Elems(c2r) \cap Requesters = {} /\ ~Busy
    BY <1>1, <2>1
  <2>7. Requesters' = Requesters
    BY <2>1 DEF Requesters, IsRequest, Moves
  <2>8. AnswerMatches'
    BY <1>1, <2>1, <2>5 DEF AnswerMatches, Moves
  <2>9. ~Busy' /\ ~dirty' /\ Elems(c2r') \cap Requesters' = {} /\ One(c2r', Requesters')
    BY <1>1, <2>1, <2>6, <2>7 DEF Busy
  <2> QED BY <2>4, <2>8, <2>9 DEF ExchangeInv
\* The router writes the response to the one request.
<1>11. ASSUME NEW t \in Tasks, Waits(t), r2c = <<>>, r2c' = Append(r2c, Response(t)),
              Elems(c2r') \cap Requesters = {}, One(c2r', Requesters),
              UNCHANGED <<task, dirty>>, ~Busy'
       PROVE  ExchangeInv'
  <2>1. Response(t) \in Messages /\ Response(t).to = t
    BY DEF Messages, Response
  <2>2. Len(r2c') = 1 /\ Elems(r2c') = Elems(r2c) \union {Response(t)}
    <3>1. Len(r2c) = 0
      BY <1>11
    <3>2. Len(Append(r2c, Response(t))) = Len(r2c) + 1 /\ Elems(Append(r2c, Response(t))) = Elems(r2c) \union {Response(t)}
      BY <1>0, <2>1, Joined, JoinedElems
    <3> QED BY <1>11, <3>1, <3>2
  <2>3. Elems(r2c') = {Response(t)}
    BY <1>11, <2>2 DEF Elems
  <2>4. Requesters' = Requesters /\ AnswerMatches'
    BY <1>1, <1>11 DEF Requesters, IsRequest, AnswerMatches
  <2> QED BY <1>1, <1>11, <2>1, <2>2, <2>3, <2>4 DEF ExchangeInv, Waits
<1>12. CASE Open
  <2>1. /\ router.pc = "opening" /\ c2r # <<>> /\ c2r' = Tail(c2r) /\ UNCHANGED <<task, dirty>>
    BY <1>12 DEF Open, Took
  <2>2. CASE r2c' = r2c /\ router' = [router EXCEPT !.pc = "failed"]
    <3>1. ~Busy'
      BY <2>2 DEF Busy, TypeOK
    <3> QED BY <2>1, <2>2, <3>1, ExchangeFrame DEF Waits
  <2>3. CASE r2c' = Append(r2c, Response(Head(c2r))) /\ router' = [router EXCEPT !.pc = "opened"]
    <3>1. Head(c2r) \in Elems(c2r) /\ Elems(Tail(c2r)) \subseteq Elems(c2r)
      BY <1>0, <2>1, ShiftedElems
    <3>2. Head(c2r) = Opening /\ r2c = <<>> /\ IsRequest(Opening)
      BY <2>1, <3>1 DEF StageInv, IsRequest
    <3>3. Opening \in Elems(c2r) \cap Requesters
      BY <1>0, <3>1, <3>2 DEF Requesters
    <3>4. Elems(Tail(c2r)) \cap Requesters = {} /\ One(Tail(c2r), Requesters)
      BY <1>0, <1>1, <2>1, <3>2, <3>3, OneShifted
    <3>5. ~Busy'
      BY <2>3 DEF Busy, TypeOK
    <3> QED BY <1>0, <1>1, <1>11, <2>1, <2>3, <3>2, <3>3, <3>4, <3>5
  <2> QED BY <1>12, <2>2, <2>3 DEF Open
<1>13. CASE Read /\ IsRequest(Head(c2r))
  <2>1. /\ c2r # <<>> /\ c2r' = Tail(c2r) /\ UNCHANGED <<task, dirty, r2c>>
        /\ router' = [pc |-> "calling", call |-> Head(c2r)]
    BY <1>13 DEF Read, Took
  <2>2. Head(c2r) \in Elems(c2r) \cap Requesters
    BY <1>0, <1>13, <2>1, ShiftedElems DEF Requesters
  <2>3. Elems(Tail(c2r)) \cap Requesters = {} /\ One(Tail(c2r), Requesters)
    BY <1>0, <1>1, <2>1, <2>2, OneShifted
  <2>4. Requesters' = Requesters /\ AnswerMatches' /\ \A o \in Tasks : Waits(o)' <=> Waits(o)
    BY <1>1, <2>1 DEF Requesters, IsRequest, AnswerMatches, Waits
  <2>5. Waits(Head(c2r)) /\ r2c = <<>>
    BY <1>1, <2>2
  <2>6. task'[router'.call].pc = "receiving"
    BY <2>1, <2>5 DEF Waits
  <2>7. Len(r2c') <= 1 /\ Elems(r2c') = {} /\ ~dirty'
    BY <1>1, <2>1, <2>5 DEF Elems
  <2> QED BY <2>1, <2>3, <2>4, <2>5, <2>6, <2>7 DEF ExchangeInv, Waits
<1>14. CASE Answer
  <2>1. Busy /\ UNCHANGED <<task, c2r>> /\ r2c' = r2c \o <<Response(router.call)>> /\ dirty' = dirty
        /\ router' = [router EXCEPT !.pc = "reading"]
    BY <1>1, <1>14 DEF Answer, Busy, TypeOK
  <2>2. r2c = <<>> /\ Waits(router.call) /\ Elems(c2r) \cap Requesters = {}
    BY <1>1, <2>1
  <2>3. r2c' = Append(r2c, Response(router.call))
    BY <2>1, <2>2
  <2>4. ~Busy'
    BY <2>1 DEF Busy, TypeOK
  <2> QED BY <1>0, <1>1, <1>11, <2>1, <2>2, <2>3, <2>4
<1>15. CASE Opened \/ (Read /\ ~IsRequest(Head(c2r))) \/ EndOfInput \/ CallFails \/ Event
  <2>1. UNCHANGED <<task, r2c, dirty>> /\ (c2r' = c2r \/ (c2r # <<>> /\ c2r' = Tail(c2r)))
    BY <1>15 DEF Opened, Read, EndOfInput, CallFails, Event, Took, pipes
  <2>2. Busy' => Busy /\ router'.call = router.call
    BY <1>15 DEF Opened, Read, EndOfInput, CallFails, Event, Busy, TypeOK
  <2> QED BY <2>1, <2>2, ExchangeFrame DEF Waits
<1>16. ~Announce /\ ~SurfaceChanges
  BY <1>1 DEF Announce, SurfaceChanges
<1>17. UNCHANGED <<task, pipes, router, dirty>> => ExchangeInv'
  <2> SUFFICES ASSUME UNCHANGED <<task, pipes, router, dirty>> PROVE ExchangeInv'
    OBVIOUS
  <2>1. (Busy' => Busy /\ router'.call = router.call) /\ \A t \in Tasks : Waits(t) => task'[t].pc = "receiving"
    BY DEF Busy, Waits
  <2> QED BY <2>1, ExchangeFrame DEF pipes
<1>18. ASSUME NEW s \in Streams, StreamStep(s) PROVE UNCHANGED <<task, pipes, router, dirty>>
  BY <1>18 DEF StreamStep, Get, Leave, Take, Keepalive
<1>19. Reload \/ UNCHANGED vars => UNCHANGED <<task, pipes, router, dirty>>
  BY DEF Reload, vars
<1>20. ASSUME NEW t \in Posts, ClientStep(t) PROVE ExchangeInv'
  BY <1>6, <1>7, <1>20 DEF ClientStep
<1>21. ASSUME NEW t \in Tasks, HandlerStep(t) PROVE ExchangeInv'
  BY <1>5, <1>8, <1>9, <1>10, <1>21 DEF HandlerStep
<1>22. RouterStep => ExchangeInv'
  BY <1>12, <1>13, <1>14, <1>15, <1>16 DEF RouterStep
<1> QED BY <1>4, <1>15, <1>16, <1>17, <1>18, <1>19, <1>20, <1>21, <1>22 DEF Next

-----------------------------------------------------------------------------
LEMMA InitInv == Init => IndInv
<1> SUFFICES ASSUME Init PROVE IndInv
  OBVIOUS
<1>0. /\ \A S : <<>> \in Seq(S) /\ Len(<<>>) = 0 /\ DOMAIN <<>> = {}
      /\ Opening \in Tasks /\ Elems(<<>>) = {}
  BY DEF Tasks, Elems
<1>1. TypeOK
  <2>1. /\ lock \in Seq(Tasks) /\ c2r \in Seq(Tasks) /\ r2c \in Seq(Messages) /\ outbound \in Seq(1..MaxEvents)
        /\ <<>> \in Seq(1..MaxEvents)
    BY <1>0 DEF Init
  <2>2. task \in [Tasks -> TaskType]
    BY DEF Init, TaskType, Results
  <2>3. stream \in [Streams -> [pc : {"unsent", "open", "closed", "refused"}, gone : BOOLEAN, got : Seq(1..MaxEvents)]]
    BY <2>1 DEF Init
  <2>4. /\ current \in [doc : 0..MaxReloads, resilient : Modes, auth : BOOLEAN]
        /\ resilient \in BOOLEAN
    <3>1. 0 \in 0..MaxReloads
      BY SessionBounds
    <3> QED BY <3>1 DEF Init
  <2>5. router \in [pc : {"none", "opening", "opened", "reading", "calling", "asking", "ended", "failed"},
                   call : Tasks]
    BY <1>0 DEF Init
  <2>6. /\ registered \in BOOLEAN /\ eof \in BOOLEAN /\ dirty \in BOOLEAN
        /\ events \in 0..MaxEvents /\ lost \subseteq 1..MaxEvents
    <3>1. lost = {} /\ registered = FALSE /\ eof = FALSE /\ dirty = FALSE
      BY DEF Init
    <3>2. events = 0
      BY DEF Init
    <3>3. events \in 0..MaxEvents
      BY <3>2, SessionBounds
    <3> QED BY <3>1, <3>3
  <2> QED BY <2>1, <2>2, <2>3, <2>4, <2>5, <2>6 DEF TypeOK, TaskType
<1>2. LockInv /\ StageInv
  BY <1>0, FlagsAssumption DEF Init, LockInv, StageInv, Tasks, Opening
<1>3. ExchangeInv
  BY <1>0 DEF Init, ExchangeInv, One, Busy, AnswerMatches, Nothing
<1>4. EventsInv
  <2>1. Given = {}
    BY <1>0 DEF Init, Given
  <2>2. outbound = <<>> /\ lost = {}
    BY DEF Init
  <2>6. events = 0
    BY DEF Init
  <2>4. Len(<<>>) = 0 /\ 1 .. 0 = {} /\ 0 \in 0 .. 0
    OBVIOUS
  <2>5. Taken = 0
    <3>1. Len(outbound) = 0
      BY <2>2, <2>4
    <3> QED BY <2>6, <3>1 DEF Taken
  <2>3. \A s \in Streams : stream[s].got = <<>>
    BY DEF Init
  <2> QED BY <1>0, <2>1, <2>2, <2>3, <2>4, <2>5, <2>6 DEF EventsInv
<1> QED BY <1>1, <1>2, <1>3, <1>4 DEF IndInv, StrictExchange

LEMMA NextInv == IndInv /\ [Next]_vars => IndInv'
<1> SUFFICES ASSUME IndInv, [Next]_vars PROVE IndInv'
  OBVIOUS
<1>0. TypeOK /\ LockInv /\ StageInv /\ StrictExchange /\ EventsInv
  BY DEF IndInv
<1>1. TypeOK' /\ LockInv' /\ StageInv' /\ EventsInv'
  BY <1>0, TypeNext, LockNext, StageNext, EventsNext
<1>2. resilient' = resilient \/ \E valid \in BOOLEAN : Initialize(valid)
  BY DEF Next, Reload, Event, StreamStep, Get, Leave, Take, Keepalive, ClientStep, Post, Delete, 
         HandlerStep, Send, Receive, Close, Connect, RouterStep, Open, Opened, Read, EndOfInput, Answer,
         CallFails, Announce, SurfaceChanges, vars, conf
<1>3. StrictExchange'
  <2> SUFFICES ASSUME ~resilient' PROVE ExchangeInv'
    BY DEF StrictExchange
  <2>1. ~resilient
    BY <1>0, <1>2 DEF Initialize, StageInv
  <2>2. UNCHANGED resilient
    BY <2>1, <1>0 , <1>1 DEF TypeOK
  <2> QED BY <1>0, <2>1, <2>2, ExchangeNext DEF StrictExchange
<1> QED BY <1>1, <1>3 DEF IndInv

\* The invariant that carries the others.
THEOREM Invariance == Spec => []IndInv
BY InitInv, NextInv, PTL DEF Spec

\* Every variable holds a value of its kind.
THEOREM TypeCorrect == Spec => []TypeOK
<1>1. IndInv => TypeOK
  BY DEF IndInv
<1> QED BY <1>1, Invariance, PTL

\* In a session without breakers every POST gets the response to its own
\* message, though Session.request pairs them by order alone: however many
\* overlap, whichever are notifications, and when a DELETE ends the session.
THEOREM AnswersPaired == Spec => []StrictAnswerMatches
<1>1. IndInv => StrictAnswerMatches
  BY DEF IndInv, StrictExchange, ExchangeInv, StrictAnswerMatches
<1> QED BY <1>1, Invariance, PTL

\* A message of a backend reaches at most one GET stream, each stream gets its
\* share in order, and none is missing but what a stream took for a client
\* that had left.
THEOREM EventsReachOneStream == Spec => []EventsOnce
<1>1. ASSUME IndInv PROVE EventsOnce
  <2> DEFINE n == Taken
  <2>1. /\ outbound \in Seq(1..MaxEvents) /\ events \in Nat /\ Len(outbound) \in Nat
        /\ DOMAIN outbound = 1 .. Len(outbound) /\ n = events - Len(outbound) /\ n \in Nat
        /\ \A i \in DOMAIN outbound : outbound[i] = n + i
        /\ Given \union lost = 1 .. n
    BY <1>1, SessionBounds DEF IndInv, TypeOK, EventsInv, Taken
  <2> HIDE DEF n
  <2>2. {outbound[i] : i \in DOMAIN outbound} = n + 1 .. events
    <3>1. \A x \in n + 1 .. events : x - n \in DOMAIN outbound /\ outbound[x - n] = x
      BY <2>1
    <3>2. \A i \in DOMAIN outbound : outbound[i] \in n + 1 .. events
      BY <2>1
    <3> QED BY <3>1, <3>2
  <2>3. Given \union lost \union {outbound[i] : i \in DOMAIN outbound} = 1..events
    BY <2>1, <2>2
  <2> QED BY <1>1, <2>3 DEF IndInv, EventsInv, EventsOnce, Elems
<1> QED BY <1>1, Invariance, PTL
================================================================================
