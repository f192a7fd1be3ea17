------------------------- MODULE BackendConnProofs -------------------------
(* Theorems about BackendConn for every set of callers, every bound and     *)
(* every combination of breaker, timeout and faults.                        *)
EXTENDS BackendConn, SequenceTheorems, TLAPS

USE DEF Ids, NoId

-----------------------------------------------------------------------------
(* The breaker's operators return breakers.                                 *)
LEMMA BreakerTypes ==
  ASSUME NEW b \in Breaker, NEW t \in Nat
  PROVE  /\ Refresh(b, t) \in Breaker
         /\ RecordSuccess(b) \in Breaker
         /\ RecordFailure(b, t) \in Breaker
<1>1. ASSUME NEW v \in CircuitState PROVE [b EXCEPT !.state = v] \in Breaker
  BY DEF Breaker
<1>2. State(b, t) \in CircuitState
  BY DEF State, Breaker, CircuitState
<1>3. Refresh(b, t) \in Breaker
  BY <1>1, <1>2 DEF Refresh
<1>4. RecordSuccess(b) \in Breaker
  BY DEF RecordSuccess, Breaker, CircuitState
<1>5. Trip(t) \in Breaker
  BY BreakerAssumption DEF Trip, Breaker, CircuitState
<1>6. RecordFailure(b, t) \in Breaker
  <2>1. [b EXCEPT !.failures = b.failures + 1] \in Breaker
    BY DEF Breaker
  <2> QED BY <1>5, <2>1 DEF RecordFailure
<1> QED BY <1>3, <1>4, <1>6

(* The breaker's operators keep its fields coherent as long as the clock    *)
(* does not run backwards.                                                  *)
LEMMA BreakerStaysCoherent ==
  ASSUME NEW b \in Breaker, NEW t \in Nat, Coherent(b, t)
  PROVE  /\ Coherent(Refresh(b, t), t)
         /\ Coherent(RecordSuccess(b), t)
         /\ Coherent(RecordFailure(b, t), t)
<1>1. Coherent(Refresh(b, t), t)
  <2>1. /\ Refresh(b, t).failures = b.failures
        /\ Refresh(b, t).opened_at = b.opened_at
        /\ Refresh(b, t).state = State(b, t)
    BY DEF Refresh, Breaker
  <2>2. State(b, t) = "closed" <=> b.state = "closed"
    BY DEF State, Breaker, CircuitState
  <2> QED BY <2>1, <2>2 DEF Coherent
<1>2. Coherent(RecordSuccess(b), t)
  BY BreakerAssumption DEF Coherent, RecordSuccess, Breaker
<1>3. Coherent(RecordFailure(b, t), t)
  <2>1. CASE State(b, t) = "half_open" \/ b.failures + 1 >= Threshold
    <3>1. RecordFailure(b, t) = Trip(t)
      BY <2>1 DEF RecordFailure
    <3> QED BY <3>1, BreakerAssumption DEF Coherent, Trip
  <2>2. CASE ~(State(b, t) = "half_open" \/ b.failures + 1 >= Threshold)
    <3>1. RecordFailure(b, t) = [b EXCEPT !.failures = b.failures + 1]
      BY <2>2 DEF RecordFailure
    <3>2. b.state = "closed" /\ b.failures + 1 < Threshold
      BY <2>2, BreakerAssumption DEF Coherent, Breaker
    <3> QED BY <3>1, <3>2, BreakerAssumption DEF Coherent, Breaker
  <2> QED BY <2>1, <2>2
<1> QED BY <1>1, <1>2, <1>3

-----------------------------------------------------------------------------
LEMMA TypeInit == Init => TypeOK
<1> SUFFICES ASSUME Init PROVE TypeOK
  OBVIOUS
<1>1. NewBreaker \in Breaker
  BY DEF NewBreaker, Breaker, CircuitState
<1>2. future \in [Ids -> Future]
  BY DEF Init, NoMessage, Future
<1>3. /\ pc \in [Callers -> {"idle", "admitted", "locking", "sending", "awaiting", "gone"}]
      /\ cur \in [Callers -> Ids \cup {NoId}]
      /\ executed \in [Ids -> Nat]
      /\ outcome \in [Ids -> {"none", "ok", "error"}]
  BY DEF Init
<1>4. /\ lock \in Seq(Callers)
      /\ to_backend \in Seq(Ids \cup {NoId})
      /\ to_proxy \in Seq(Message)
  BY DEF Init
<1>5. breaker \in Breaker /\ joined \in BOOLEAN
  BY <1>1 DEF Init
<1>6. /\ now \in Nat
      /\ next_id \in 0..MaxRequests
      /\ pending \subseteq Ids /\ working \subseteq Ids /\ sink \subseteq Message
      /\ reader \in {"reading", "delivering", "stopped"}
      /\ phase \in {"handshaking", "serving", "closed", "dead"}
      /\ link \in {"up", "down"} /\ streak \in Nat
  BY BoundsAssumption DEF Init
<1> QED
  BY <1>2, <1>3, <1>4, <1>5, <1>6 DEF TypeOK

LEMMA TypeRegister ==
  ASSUME TypeOK, NEW c \in Callers, Register(c), UNCHANGED breaker
  PROVE  TypeOK'
BY BoundsAssumption
   DEF TypeOK, Register, Future, NoMessage, MessageKind, conn, life, env, history

(* A request that raises leaves its caller, breaker and phase well typed.   *)
LEMMA TypeRaise ==
  ASSUME TypeOK, NEW c \in Callers, NEW b \in Breaker,
         Failed(b) \in Breaker, Raise(c, b)
  PROVE  /\ breaker' \in Breaker
         /\ phase' \in {"handshaking", "serving", "closed", "dead"}
         /\ pc' \in [Callers -> {"idle", "admitted", "locking", "sending", "awaiting", "gone"}]
         /\ outcome' \in [Ids -> {"none", "ok", "error"}]
         /\ streak' \in Nat
         /\ UNCHANGED <<joined, sink>>
<1>1. breaker' \in Breaker
  BY DEF Raise
<1>2. phase' \in {"handshaking", "serving", "closed", "dead"}
  BY DEF Raise, TypeOK
<1>3. pc' \in [Callers -> {"idle", "admitted", "locking", "sending", "awaiting", "gone"}]
  BY DEF Raise, TypeOK
<1>4. outcome' \in [Ids -> {"none", "ok", "error"}]
  BY DEF Raise, TypeOK
<1>5. streak' \in Nat
  BY DEF Raise, TypeOK
<1> QED BY <1>1, <1>2, <1>3, <1>4, <1>5 DEF Raise

LEMMA TypeNext == TypeOK /\ LockOrder /\ [Next]_vars => TypeOK'
<1> SUFFICES ASSUME TypeOK, LockOrder, [Next]_vars PROVE TypeOK'
  OBVIOUS
<1> USE CallersAssumption, BoundsAssumption
<1>1. CASE StartHandshake
  BY <1>1, TypeRegister DEF StartHandshake
<1>2. CASE Admit
  BY <1>2, BreakerTypes DEF Admit, TypeOK, conn, life, env, history
<1>3. CASE StartRequest
  BY <1>3, TypeRegister DEF StartRequest
<1>4. CASE StartRelay
  BY <1>4 DEF StartRelay, TypeOK, conn, life, env, history
<1>5. ASSUME NEW c \in Pingers, StartPing(c) PROVE TypeOK'
  BY <1>5, TypeRegister DEF StartPing, Pingers
<1>6. ASSUME NEW c \in Callers, CallerStep(c) PROVE TypeOK'
  <2>1. /\ Failed(breaker) \in Breaker
        /\ Succeeded(breaker) \in Breaker
        /\ Failed(Failed(breaker)) \in Breaker
        /\ Failed(Succeeded(breaker)) \in Breaker
    BY BreakerTypes DEF Failed, Succeeded, TypeOK
  <2>2. CASE BeginSend(c)
    BY <2>2 DEF BeginSend, TypeOK, conn, life, history
  <2>3. CASE EndSend(c)
    <3>1. Tail(lock) \in Seq(Callers)
      BY <2>3 DEF EndSend, LockOrder, TypeOK
    <3>2. (IF cur[c] = NoId THEN "idle" ELSE "awaiting") \in {"idle", "awaiting"}
      OBVIOUS
    <3> QED BY <2>3, <3>1, <3>2 DEF EndSend, TypeOK, conn, life, env, history
  <2>4. CASE FailSend(c)
    <3>1. Tail(lock) \in Seq(Callers)
      BY <2>4 DEF FailSend, LockOrder, TypeOK
    <3>2. CASE cur[c] = NoId
      BY <2>4, <3>1, <3>2 DEF FailSend, TypeOK, conn, life, env, history
    <3>3. CASE cur[c] # NoId
      BY <2>4, <3>1, <3>3, <2>1, TypeRaise DEF FailSend, TypeOK, conn, env
    <3> QED BY <3>2, <3>3
  <2>5. CASE Expire(c)
    BY <2>5 DEF Expire, TypeOK, Future, NoMessage, callers, life, env, history
  <2>6. CASE Return(c)
    BY <2>6, <2>1 DEF Return, Succeed, TypeOK, conn, life, env
  <2>7. CASE FinishHandshake(c)
    <3>1. ASSUME Succeed(c), phase' = "serving", joined' = TRUE,
                 to_backend' = IF link = "up" THEN Append(to_backend, NoId) ELSE to_backend
          PROVE  TypeOK'
      <4>1. to_backend' \in Seq(Ids \cup {NoId})
        BY <3>1 DEF TypeOK
      <4>2. /\ pc' \in [Callers -> {"idle", "admitted", "locking", "sending", "awaiting", "gone"}]
            /\ outcome' \in [Ids -> {"none", "ok", "error"}]
        BY <3>1 DEF Succeed, TypeOK
      <4> QED BY <2>7, <3>1, <4>1, <4>2, <2>1 DEF FinishHandshake, Succeed, TypeOK, conn
    <3>2. ASSUME Raise(c, Succeeded(breaker)), UNCHANGED to_backend PROVE TypeOK'
      BY <2>7, <3>2, <2>1, TypeRaise DEF FinishHandshake, TypeOK, conn
    <3> QED BY <2>7, <3>1, <3>2 DEF FinishHandshake
  <2>8. CASE Reraise(c)
    BY <2>8, <2>1, TypeRaise DEF Reraise, TypeOK, env
  <2> QED BY <1>6, <2>2, <2>3, <2>4, <2>5, <2>6, <2>7, <2>8 DEF CallerStep
<1>7. CASE ReaderStep
  <2>1. CASE Resolve
    <3>1. Head(to_proxy) \in Message /\ Tail(to_proxy) \in Seq(Message)
      BY <2>1 DEF Resolve, TypeOK
    <3>2. Message \subseteq Future
      BY DEF Message, Future
    <3>3. future' \in [Ids -> Future]
      BY <2>1, <3>1, <3>2 DEF Resolve, TypeOK
    <3> QED BY <2>1, <3>1, <3>3 DEF Resolve, TypeOK, callers, life, history
  <2>2. CASE Deliver
    <3>1. Head(to_proxy) \in Message /\ Tail(to_proxy) \in Seq(Message)
      BY <2>2 DEF Deliver, TypeOK
    <3>2. sink' \subseteq Message /\ to_proxy' \in Seq(Message) /\ reader' = "delivering"
      BY <2>2, <3>1 DEF Deliver, TypeOK
    <3> QED BY <2>2, <3>2 DEF Deliver, TypeOK, callers, life
  <2>3. CASE Delivered
    BY <2>3 DEF Delivered, TypeOK, callers, life, env, history
  <2>4. CASE EndReader
    BY <2>4 DEF EndReader, StopReader, NoMessage, Future, TypeOK, callers, life, env, history
  <2> QED BY <1>7, <2>1, <2>2, <2>3, <2>4 DEF ReaderStep
<1>8. CASE Close
  <2>1. pc' \in [Callers -> {"idle", "admitted", "locking", "sending", "awaiting", "gone"}]
    BY <1>8 DEF Close
  <2> QED BY <1>8, <2>1 DEF Close, StopReader, NoMessage, Future, TypeOK, env, history
<1>9. CASE Tick
  BY <1>9 DEF Tick, TypeOK, conn, callers, life, env, history
<1>10. CASE Serve
  <2>1. Head(to_backend) \in Ids \cup {NoId} /\ Tail(to_backend) \in Seq(Ids \cup {NoId})
    BY <1>10 DEF Serve, TypeOK
  <2>2. working' \subseteq Ids /\ executed' \in [Ids -> Nat]
    <3>1. CASE Head(to_backend) = NoId
      BY <1>10, <3>1 DEF Serve, TypeOK
    <3>2. CASE Head(to_backend) \in Ids
      <4>1. executed' = [executed EXCEPT ![Head(to_backend)] = executed[Head(to_backend)] + 1]
        BY <1>10, <3>2 DEF Serve
      <4>2. \A i \in Ids : executed[i] + 1 \in Nat
        BY DEF TypeOK
      <4> QED BY <1>10, <3>2, <4>1, <4>2 DEF Serve, TypeOK
    <3> QED BY <2>1, <3>1, <3>2
  <2> QED BY <1>10, <2>1, <2>2 DEF Serve, TypeOK, conn, callers, life, history
<1>11. CASE Speak
  <2>1. PICK m \in Message : to_proxy' = Append(to_proxy, m)
    <3>1. ASSUME NEW k \in MessageKind PROVE NoMessage(k) \in Message
      BY DEF NoMessage, Message
    <3>2. ASSUME NEW m \in [kind : {"request"}, id : ServerIds] PROVE m \in Message
      <4>1. m.kind = "request" /\ m.id \in 0..MaxRequests /\ m = [kind |-> m.kind, id |-> m.id]
        BY ServerIdsAssumption
      <4>2. m.id \in Ids \cup {NoId}
        BY <4>1
      <4> QED BY <4>1, <4>2 DEF Message, MessageKind
    <3>3. "notification" \in MessageKind /\ "garbage" \in MessageKind
      BY DEF MessageKind
    <3> QED BY <1>11, <3>1, <3>2, <3>3 DEF Speak
  <2>2. to_proxy' \in Seq(Message)
    BY <2>1 DEF TypeOK
  <2> QED BY <1>11, <2>2 DEF Speak, TypeOK, conn, callers, life, history
<1>12. CASE Crash
  BY <1>12 DEF Crash, TypeOK, conn, callers, life, history
<1>13. ASSUME NEW i \in Ids, Answer(i) PROVE TypeOK'
  <2>1. [kind |-> "response", id |-> i] \in Message
    BY DEF Message, MessageKind
  <2>2. to_proxy' \in Seq(Message)
    BY <1>13, <2>1 DEF Answer, TypeOK
  <2>3. working' \subseteq Ids
    BY <1>13 DEF Answer, TypeOK
  <2> QED BY <1>13, <2>2, <2>3 DEF Answer, TypeOK, conn, callers, life, history
<1>14. CASE UNCHANGED vars
  BY <1>14 DEF vars, TypeOK, conn, callers, life, env, history
<1> QED
  BY <1>1, <1>2, <1>3, <1>4, <1>5, <1>6, <1>7, <1>8, <1>9, <1>10, <1>11,
     <1>12, <1>13, <1>14 DEF Next


-----------------------------------------------------------------------------
(* Registering a request keeps the lock's queue, the ids and the futures in *)
(* order.                                                                   *)
LEMMA RegisterStep ==
  ASSUME TypeOK, LockOrder, OwnIds, NobodyForgotten, AnswersExecuted, AnswersOwn,
         NEW c \in Callers, pc[c] \in {"idle", "admitted"}, Register(c)
  PROVE  LockOrder' /\ OwnIds' /\ NobodyForgotten' /\ AnswersExecuted' /\ AnswersOwn'
<1> USE BoundsAssumption
<1>1. /\ next_id' = next_id + 1 /\ next_id' \in Ids
      /\ pending' = pending \cup {next_id'}
      /\ future' = [future EXCEPT ![next_id'] = NoMessage("waiting")]
      /\ cur' = [cur EXCEPT ![c] = next_id']
      /\ lock' = Append(lock, c)
      /\ pc' = [pc EXCEPT ![c] = "locking"]
      /\ UNCHANGED <<working, executed, to_proxy>>
  BY DEF Register, TypeOK, env
<1>2. LockOrder'
  <2> SUFFICES ASSUME NEW d \in Callers, pc'[d] = "sending"
               PROVE  lock' # <<>> /\ Head(lock') = d
    BY DEF LockOrder
  <2>1. pc[d] = "sending"
    BY <1>1 DEF TypeOK
  <2>2. lock # <<>> /\ Head(lock) = d
    BY <2>1 DEF LockOrder
  <2>3. lock \in Seq(Callers)
    BY DEF TypeOK
  <2> QED BY <1>1, <2>2, <2>3, AppendProperties
<1>3. OwnIds'
  <2>1. pending' \subseteq 1..next_id'
    BY <1>1 DEF OwnIds, TypeOK
  <2>2. ASSUME NEW d \in Callers, InRequest(d)'
        PROVE  d = c \/ (InRequest(d) /\ cur'[d] = cur[d] /\ cur[d] \in 1..next_id)
    BY <1>1, <2>2 DEF InRequest, TypeOK, OwnIds
  <2>3. cur'[c] = next_id'
    BY <1>1 DEF TypeOK
  <2>4. \A d \in Callers : InRequest(d)' => cur'[d] \in 1..next_id'
    BY <1>1, <2>2, <2>3 DEF TypeOK
  <2>5. ASSUME NEW d \in Callers, pc'[d] = "awaiting" PROVE cur'[d] # NoId
    <3>1. d # c /\ pc[d] = "awaiting" /\ cur'[d] = cur[d]
      BY <1>1, <2>5 DEF TypeOK
    <3> QED BY <3>1 DEF OwnIds, InRequest
  <2>6. ASSUME NEW d \in Callers, NEW e \in Callers,
               InRequest(d)', InRequest(e)', cur'[d] = cur'[e]
        PROVE  d = e
    BY <1>1, <2>2, <2>3, <2>6 DEF OwnIds, TypeOK
  <2> QED BY <2>1, <2>4, <2>5, <2>6 DEF OwnIds
<1>4. NobodyForgotten'
  <2> SUFFICES ASSUME NEW d \in Callers, InRequest(d)', future'[cur'[d]].kind = "waiting"
               PROVE  cur'[d] \in pending'
    BY DEF NobodyForgotten
  <2>1. CASE d = c
    BY <1>1, <2>1 DEF TypeOK
  <2>2. CASE d # c
    <3>1. InRequest(d) /\ cur'[d] = cur[d] /\ cur[d] \in 1..next_id
      BY <1>1, <2>2 DEF InRequest, TypeOK, OwnIds
    <3>2. future'[cur[d]] = future[cur[d]]
      BY <1>1, <3>1 DEF TypeOK
    <3> QED BY <1>1, <3>1, <3>2 DEF NobodyForgotten
  <2> QED BY <2>1, <2>2
<1>5. AnswersExecuted'
  BY <1>1 DEF AnswersExecuted
<1>6. AnswersOwn'
  <2> SUFFICES ASSUME NEW i \in Ids
               PROVE  /\ future'[i].kind \in MessageKind => future'[i].id = i
                      /\ future'[i].kind = "response" => executed'[i] > 0
    BY DEF AnswersOwn
  <2>1. CASE i = next_id'
    BY <1>1, <2>1 DEF TypeOK, NoMessage, MessageKind
  <2>2. CASE i # next_id'
    BY <1>1, <2>2 DEF TypeOK, AnswersOwn
  <2> QED BY <2>1, <2>2
<1> QED BY <1>2, <1>3, <1>4, <1>5, <1>6

(* Any other step only takes requests and registrations away, and leaves    *)
(* registered what is still waited for.                                     *)
LEMMA ShrinkStep ==
  ASSUME TypeOK, OwnIds, NobodyForgotten,
         next_id' = next_id, pending' \subseteq pending,
         \A c \in Callers : InRequest(c)' => InRequest(c) /\ cur'[c] = cur[c],
         \A c \in Callers : pc'[c] = "awaiting" => cur'[c] # NoId,
         \A c \in Callers : InRequest(c)' /\ future'[cur[c]].kind = "waiting" =>
            future[cur[c]].kind = "waiting" /\ (cur[c] \in pending => cur[c] \in pending')
  PROVE  OwnIds' /\ NobodyForgotten'
<1>1. OwnIds'
  BY DEF OwnIds
<1>2. NobodyForgotten'
  BY DEF NobodyForgotten
<1> QED BY <1>1, <1>2

(* A caller that moves on without a new request: where it may go from where.*)
LEMMA MoveStep ==
  ASSUME TypeOK, OwnIds, NobodyForgotten, NEW c \in Callers, NEW p,
         UNCHANGED <<next_id, pending, future, cur>>,
         pc' = [pc EXCEPT ![c] = p],
         \/ p \notin {"locking", "sending", "awaiting"}
         \/ pc[c] \in {"locking", "sending", "awaiting"} /\ (p = "awaiting" => cur[c] # NoId)
         \/ cur[c] = NoId /\ p # "awaiting"
  PROVE  OwnIds' /\ NobodyForgotten'
<1>1. pc'[c] = p /\ \A d \in Callers : d # c => pc'[d] = pc[d]
  BY DEF TypeOK
<1>2. \A d \in Callers : InRequest(d)' => InRequest(d) /\ cur'[d] = cur[d]
  BY <1>1 DEF InRequest
<1>3. \A d \in Callers : pc'[d] = "awaiting" => cur'[d] # NoId
  BY <1>1 DEF OwnIds
<1>4. \A d \in Callers : InRequest(d)' /\ future'[cur[d]].kind = "waiting" =>
         future[cur[d]].kind = "waiting" /\ (cur[d] \in pending => cur[d] \in pending')
  OBVIOUS
<1> QED BY <1>2, <1>3, <1>4, ShrinkStep

(* The holder of the lock is its only writer, so releasing it leaves none.  *)
LEMMA ReleaseStep ==
  ASSUME TypeOK, LockOrder, NEW c \in Callers, pc[c] = "sending", NEW p,
         pc' = [pc EXCEPT ![c] = p], p # "sending"
  PROVE  LockOrder'
BY DEF LockOrder, TypeOK

(* A caller that stops, or never was, writing leaves the lock's order.      *)
LEMMA QuietStep ==
  ASSUME TypeOK, LockOrder, NEW c \in Callers, NEW p, UNCHANGED lock,
         pc' = [pc EXCEPT ![c] = p], p # "sending"
  PROVE  LockOrder'
BY DEF LockOrder, TypeOK

(* The answers' invariants depend on four variables.                        *)
LEMMA AnswersFrame ==
  ASSUME AnswersExecuted, AnswersOwn, UNCHANGED <<future, working, executed, to_proxy>>
  PROVE  AnswersExecuted' /\ AnswersOwn'
BY DEF AnswersExecuted, AnswersOwn

-----------------------------------------------------------------------------
(* The demultiplexing invariants are preserved by every step.               *)
Demux == LockOrder /\ OwnIds /\ NobodyForgotten /\ AnswersExecuted /\ AnswersOwn

LEMMA DemuxCallerStep ==
  ASSUME TypeOK, Demux, NEW c \in Callers, CallerStep(c)
  PROVE  Demux'
<1> USE DEF Demux
<1>1. CASE BeginSend(c)
  <2>1. LockOrder'
    BY <1>1 DEF BeginSend, LockOrder, TypeOK
  <2>2. OwnIds' /\ NobodyForgotten'
    BY <1>1, MoveStep DEF BeginSend, conn
  <2>3. AnswersExecuted' /\ AnswersOwn'
    BY <1>1, AnswersFrame DEF BeginSend, conn
  <2> QED BY <2>1, <2>2, <2>3
<1>2. CASE EndSend(c)
  <2>0. PICK p \in {"idle", "awaiting"} : /\ pc' = [pc EXCEPT ![c] = p]
                                         /\ p = "awaiting" => cur[c] # NoId
    BY <1>2 DEF EndSend
  <2>1. LockOrder'
    BY <1>2, <2>0, ReleaseStep DEF EndSend
  <2>2. OwnIds' /\ NobodyForgotten'
    BY <1>2, <2>0, MoveStep DEF EndSend, conn
  <2>3. AnswersExecuted' /\ AnswersOwn'
    BY <1>2, AnswersFrame DEF EndSend, conn, env
  <2> QED BY <2>1, <2>2, <2>3
<1>3. CASE FailSend(c)
  <2>1. PICK p \in {"idle", "gone"} : pc' = [pc EXCEPT ![c] = p]
    BY <1>3 DEF FailSend, Raise
  <2>2. LockOrder'
    BY <1>3, <2>1, ReleaseStep DEF FailSend
  <2>3. OwnIds' /\ NobodyForgotten'
    BY <1>3, <2>1, MoveStep DEF FailSend, conn
  <2>4. AnswersExecuted' /\ AnswersOwn'
    BY <1>3, AnswersFrame DEF FailSend, conn, env
  <2> QED BY <2>2, <2>3, <2>4
<1>4. CASE Expire(c)
  <2>1. /\ UNCHANGED <<next_id, pending, lock, pc, cur, working, executed, to_proxy>>
        /\ future' = [future EXCEPT ![cur[c]] = NoMessage("expired")]
    BY <1>4 DEF Expire, callers, env
  <2>2. LockOrder'
    BY <2>1 DEF LockOrder
  <2>3. OwnIds' /\ NobodyForgotten'
    <3>1. \A d \in Callers : InRequest(d)' => InRequest(d) /\ cur'[d] = cur[d]
      BY <2>1 DEF InRequest
    <3>2. \A d \in Callers : pc'[d] = "awaiting" => cur'[d] # NoId
      BY <2>1 DEF OwnIds
    <3>3. \A i \in Ids : future'[i].kind = "waiting" => future[i].kind = "waiting"
      BY <2>1 DEF TypeOK, NoMessage
    <3>4. \A d \in Callers : InRequest(d) => cur[d] \in Ids
      BY DEF InRequest, TypeOK
    <3> QED BY <2>1, <3>1, <3>2, <3>3, <3>4, ShrinkStep
  <2>4. AnswersExecuted'
    BY <2>1 DEF AnswersExecuted
  <2>5. AnswersOwn'
    <3>1. ASSUME NEW i \in Ids PROVE future'[i] \in {future[i], NoMessage("expired")}
      BY <2>1 DEF TypeOK
    <3>2. NoMessage("expired").kind \notin MessageKind
      BY DEF NoMessage, MessageKind
    <3>3. NoMessage("expired").kind # "response"
      BY DEF NoMessage
    <3> QED BY <2>1, <3>1, <3>2, <3>3 DEF AnswersOwn
  <2> QED BY <2>2, <2>3, <2>4, <2>5
<1>5. CASE Return(c) \/ FinishHandshake(c)
  <2>1. /\ UNCHANGED <<next_id, pending, future, lock, cur, working, executed, to_proxy>>
        /\ pc[c] = "awaiting"
    BY <1>5 DEF Return, FinishHandshake, conn, env
  <2>2. PICK p \in {"idle", "gone"} : pc' = [pc EXCEPT ![c] = p]
    BY <1>5 DEF Return, FinishHandshake, Succeed, Raise
  <2>3. LockOrder'
    BY <2>1, <2>2, QuietStep
  <2>4. OwnIds' /\ NobodyForgotten'
    BY <2>1, <2>2, MoveStep
  <2>5. AnswersExecuted' /\ AnswersOwn'
    BY <2>1, AnswersFrame
  <2> QED BY <2>3, <2>4, <2>5
<1>6. CASE Reraise(c)
  <2>1. /\ UNCHANGED <<next_id, future, lock, cur, working, executed, to_proxy>>
        /\ pending' = pending \ {cur[c]}
        /\ pc[c] = "awaiting" /\ cur[c] # NoId
    BY <1>6 DEF Reraise, OwnIds, env
  <2>2. PICK p \in {"idle", "gone"} : pc' = [pc EXCEPT ![c] = p]
    BY <1>6 DEF Reraise, Raise
  <2>3. LockOrder'
    BY <2>1, <2>2, QuietStep
  <2>4. OwnIds' /\ NobodyForgotten'
    <3>1. pc'[c] = p /\ \A d \in Callers : d # c => pc'[d] = pc[d]
      BY <2>2 DEF TypeOK
    <3>2. \A d \in Callers : InRequest(d)' => d # c /\ InRequest(d) /\ cur'[d] = cur[d]
      BY <2>1, <3>1 DEF InRequest
    <3>3. \A d \in Callers : pc'[d] = "awaiting" => cur'[d] # NoId
      BY <2>1, <3>1 DEF OwnIds
    <3>4. \A d \in Callers : InRequest(d)' => cur[d] # cur[c]
      BY <2>1, <3>2 DEF OwnIds, InRequest
    <3> QED BY <2>1, <3>2, <3>3, <3>4, ShrinkStep
  <2>5. AnswersExecuted' /\ AnswersOwn'
    BY <2>1, AnswersFrame
  <2> QED BY <2>3, <2>4, <2>5
<1> QED BY <1>1, <1>2, <1>3, <1>4, <1>5, <1>6 DEF CallerStep

(* The end of the read loop, alone or with the end of the connection.       *)
LEMMA DemuxStop ==
  ASSUME TypeOK, Demux, StopReader, UNCHANGED <<cur, working, executed, to_proxy>>,
         \/ UNCHANGED <<lock, pc>>
         \/ \A c \in Callers : pc'[c] = "gone" \/ (pc'[c] = "awaiting" /\ pc[c] = "awaiting")
  PROVE  Demux'
<1> USE DEF Demux
<1>1. /\ next_id' = next_id /\ pending' = {}
      /\ \A i \in Ids : future'[i] \in {future[i], NoMessage("closed")}
      /\ \A i \in pending : future'[i].kind # "waiting"
  BY DEF StopReader, TypeOK, NoMessage
<1>2. LockOrder'
  BY DEF LockOrder
<1>3. OwnIds' /\ NobodyForgotten'
  <2>1. \A c \in Callers : InRequest(c)' => InRequest(c) /\ cur'[c] = cur[c]
    BY DEF InRequest
  <2>2. \A c \in Callers : pc'[c] = "awaiting" => cur'[c] # NoId
    BY DEF OwnIds
  <2>3. ASSUME NEW c \in Callers, InRequest(c)', future'[cur[c]].kind = "waiting" PROVE FALSE
    <3>1. InRequest(c) /\ cur[c] \in Ids
      BY <2>1, <2>3 DEF InRequest, TypeOK
    <3>2. future[cur[c]].kind = "waiting"
      BY <1>1, <2>3, <3>1 DEF NoMessage
    <3> QED BY <1>1, <2>3, <3>1, <3>2 DEF NobodyForgotten
  <2> QED BY <1>1, <2>1, <2>2, <2>3, ShrinkStep
<1>4. AnswersExecuted'
  BY DEF AnswersExecuted
<1>5. AnswersOwn'
  <2>1. NoMessage("closed").kind \notin MessageKind /\ NoMessage("closed").kind # "response"
    BY DEF NoMessage, MessageKind
  <2> QED BY <1>1, <2>1 DEF AnswersOwn
<1> QED BY <1>2, <1>3, <1>4, <1>5

LEMMA DemuxReaderStep ==
  ASSUME TypeOK, Demux, ReaderStep
  PROVE  Demux'
<1> USE DEF Demux
<1>1. ASSUME NEW m \in Message, to_proxy # <<>>, m = Head(to_proxy)
      PROVE  /\ to_proxy' = Tail(to_proxy) /\ UNCHANGED <<working, executed>> => AnswersExecuted'
             /\ m.kind = "response" => m.id \in Ids /\ executed[m.id] > 0
  <2>1. 1 \in 1..Len(to_proxy) /\ to_proxy[1] = m
    BY <1>1 DEF TypeOK
  <2>2. /\ Len(Tail(to_proxy)) = Len(to_proxy) - 1
        /\ \A k \in 1..Len(Tail(to_proxy)) : Tail(to_proxy)[k] = to_proxy[k + 1]
    BY <1>1 DEF TypeOK
  <2>3. \A k \in 1..Len(Tail(to_proxy)) : k + 1 \in 1..Len(to_proxy)
    BY <2>2 DEF TypeOK
  <2> QED BY <2>1, <2>2, <2>3 DEF AnswersExecuted
<1>2. CASE Resolve
  <2> DEFINE m == Head(to_proxy)
  <2>1. /\ m \in Message /\ m.id \in pending /\ pending' = pending \ {m.id}
        /\ future' = IF future[m.id].kind = "waiting" THEN [future EXCEPT ![m.id] = m] ELSE future
        /\ to_proxy # <<>> /\ to_proxy' = Tail(to_proxy)
        /\ UNCHANGED <<next_id, lock, pc, cur, working, executed>>
    BY <1>2 DEF Resolve, TypeOK, callers
  <2> HIDE DEF m
  <2>2. AnswersExecuted' /\ (m.kind = "response" => executed[m.id] > 0)
    BY <1>1, <2>1 DEF m
  <2>3. \A i \in Ids : future'[i] = future[i] \/ (i = m.id /\ future'[i] = m)
    BY <2>1 DEF TypeOK
  <2>4. LockOrder'
    BY <2>1 DEF LockOrder
  <2>5. AnswersOwn'
    BY <2>1, <2>2, <2>3 DEF AnswersOwn
  <2>6. OwnIds' /\ NobodyForgotten'
    <3>1. \A c \in Callers : InRequest(c)' => InRequest(c) /\ cur'[c] = cur[c]
      BY <2>1 DEF InRequest
    <3>2. \A c \in Callers : pc'[c] = "awaiting" => cur'[c] # NoId
      BY <2>1 DEF OwnIds
    <3>3. m.kind # "waiting"
      BY <2>1 DEF Message, MessageKind
    <3>4. future'[m.id].kind # "waiting"
      BY <2>1, <3>3 DEF TypeOK
    <3>5. ASSUME NEW c \in Callers, InRequest(c)', future'[cur[c]].kind = "waiting"
          PROVE  future[cur[c]].kind = "waiting" /\ cur[c] # m.id
      <4>1. cur[c] \in Ids
        BY <3>1, <3>5 DEF InRequest, TypeOK
      <4> QED BY <2>3, <3>4, <3>5, <4>1
    <3> QED BY <2>1, <3>1, <3>2, <3>5, ShrinkStep
  <2> QED BY <2>2, <2>4, <2>5, <2>6
<1>3. CASE Deliver
  <2>1. /\ to_proxy # <<>> /\ Head(to_proxy) \in Message /\ to_proxy' = Tail(to_proxy)
        /\ UNCHANGED <<next_id, pending, future, lock, pc, cur, working, executed>>
    BY <1>3 DEF Deliver, TypeOK, callers
  <2>2. LockOrder' /\ OwnIds' /\ NobodyForgotten' /\ AnswersOwn'
    BY <2>1 DEF LockOrder, OwnIds, NobodyForgotten, InRequest, AnswersOwn
  <2> QED BY <1>1, <2>1, <2>2
<1>4. CASE Delivered
  BY <1>4 DEF Delivered, callers, env, LockOrder, OwnIds, NobodyForgotten, InRequest,
              AnswersOwn, AnswersExecuted
<1>5. CASE EndReader
  BY <1>5, DemuxStop DEF EndReader, callers, env
<1> QED BY <1>2, <1>3, <1>4, <1>5 DEF ReaderStep

LEMMA DemuxNext == TypeOK /\ Demux /\ [Next]_vars => Demux'
<1> SUFFICES ASSUME TypeOK, Demux, [Next]_vars PROVE Demux'
  OBVIOUS
<1> USE CallersAssumption DEF Demux
<1>1. CASE StartHandshake \/ StartRequest
  BY <1>1, RegisterStep DEF StartHandshake, StartRequest
<1>2. ASSUME NEW c \in Pingers, StartPing(c) PROVE Demux'
  BY <1>2, RegisterStep DEF StartPing, Pingers
<1>3. CASE Admit
  <2>1. LockOrder'
    BY <1>3, QuietStep DEF Admit
  <2>2. OwnIds' /\ NobodyForgotten'
    BY <1>3, MoveStep DEF Admit, conn
  <2>3. AnswersExecuted' /\ AnswersOwn'
    BY <1>3, AnswersFrame DEF Admit, conn, env
  <2> QED BY <2>1, <2>2, <2>3
<1>4. CASE StartRelay
  <2>1. /\ cur' = [cur EXCEPT ![RouteLoop] = NoId]
        /\ lock' = Append(lock, RouteLoop)
        /\ pc' = [pc EXCEPT ![RouteLoop] = "locking"]
        /\ UNCHANGED <<next_id, pending, future, working, executed, to_proxy>>
    BY <1>4 DEF StartRelay, conn, env
  <2>2. LockOrder'
    <3> SUFFICES ASSUME NEW d \in Callers, pc'[d] = "sending"
                 PROVE  lock' # <<>> /\ Head(lock') = d
      BY DEF LockOrder
    <3>1. pc[d] = "sending"
      BY <2>1 DEF TypeOK
    <3>2. lock # <<>> /\ Head(lock) = d /\ lock \in Seq(Callers)
      BY <3>1 DEF LockOrder, TypeOK
    <3> QED BY <2>1, <3>2, AppendProperties
  <2>3. OwnIds' /\ NobodyForgotten'
    <3>1. \A d \in Callers : InRequest(d)' => InRequest(d) /\ cur'[d] = cur[d]
      BY <2>1 DEF InRequest, TypeOK
    <3>2. \A d \in Callers : pc'[d] = "awaiting" => cur'[d] # NoId
      BY <2>1 DEF OwnIds, TypeOK
    <3> QED BY <2>1, <3>1, <3>2, ShrinkStep
  <2>4. AnswersExecuted' /\ AnswersOwn'
    BY <2>1, AnswersFrame
  <2> QED BY <2>2, <2>3, <2>4
<1>5. ASSUME NEW c \in Callers, CallerStep(c) PROVE Demux'
  BY <1>5, DemuxCallerStep
<1>6. CASE ReaderStep
  BY <1>6, DemuxReaderStep
<1>7. CASE Close
  <2>1. \A c \in Callers : pc'[c] = "gone" \/ (pc'[c] = "awaiting" /\ pc[c] = "awaiting")
    BY <1>7 DEF Close, Survives
  <2> QED BY <1>7, <2>1, DemuxStop DEF Close, env
<1>8. CASE Tick
  BY <1>8 DEF Tick, conn, callers, env, LockOrder, OwnIds, NobodyForgotten, InRequest,
              AnswersOwn, AnswersExecuted
<1>9. ASSUME UNCHANGED <<conn, callers>>, AnswersExecuted',
             \A i \in Ids : executed[i] > 0 => executed'[i] > 0
      PROVE  Demux'
  <2>1. LockOrder' /\ OwnIds' /\ NobodyForgotten'
    BY <1>9 DEF conn, callers, LockOrder, OwnIds, NobodyForgotten, InRequest
  <2>2. AnswersOwn'
    BY <1>9 DEF conn, AnswersOwn
  <2> QED BY <1>9, <2>1, <2>2
<1>10. CASE Serve
  <2>1. \A i \in Ids : executed[i] > 0 => executed'[i] > 0
    <3>1. \/ executed' = executed
          \/ executed' = [executed EXCEPT ![Head(to_backend)] = executed[Head(to_backend)] + 1]
      BY <1>10 DEF Serve
    <3>2. executed \in [Ids -> Nat]
      BY DEF TypeOK
    <3>3. ASSUME NEW i \in Ids PROVE executed'[i] \in {executed[i], executed[i] + 1}
      BY <3>1, <3>2, <3>3
    <3>4. \A i \in Ids : executed[i] \in Nat
      BY <3>2
    <3> QED BY <3>3, <3>4
  <2>2. \A i \in working' : executed'[i] > 0
    <3>1. CASE Head(to_backend) = NoId
      BY <1>10, <3>1 DEF Serve, AnswersExecuted
    <3>2. CASE Head(to_backend) # NoId
      <4>1. Head(to_backend) \in Ids
        BY <1>10, <3>2 DEF Serve, TypeOK
      <4>2. executed' = [executed EXCEPT ![Head(to_backend)] = executed[Head(to_backend)] + 1]
        BY <1>10, <3>2 DEF Serve
      <4>3. executed'[Head(to_backend)] > 0
        BY <4>1, <4>2 DEF TypeOK
      <4> QED BY <1>10, <2>1, <3>2, <4>3 DEF Serve, AnswersExecuted, TypeOK
    <3> QED BY <3>1, <3>2
  <2>3. AnswersExecuted'
    BY <1>10, <2>1, <2>2 DEF Serve, AnswersExecuted
  <2> QED BY <1>9, <1>10, <2>1, <2>3 DEF Serve
<1>11. ASSUME NEW m \in Message, to_proxy' = Append(to_proxy, m),
              m.kind = "response" => m.id \in Ids /\ executed[m.id] > 0,
              working' \subseteq working, UNCHANGED <<conn, callers, executed>>
       PROVE  Demux'
  <2>1. to_proxy \in Seq(Message)
    BY DEF TypeOK
  <2>2. ASSUME NEW k \in 1..Len(to_proxy')
        PROVE  to_proxy'[k] = m \/ (k \in 1..Len(to_proxy) /\ to_proxy'[k] = to_proxy[k])
    BY <1>11, <2>1, <2>2, AppendProperties
  <2>3. AnswersExecuted'
    BY <1>11, <2>2 DEF AnswersExecuted
  <2> QED BY <1>9, <1>11, <2>3
<1>12. CASE Speak
  <2>1. PICK m \in {NoMessage("notification")}
              \cup [kind : {"request"}, id : ServerIds]
              \cup (IF "garbage" \in Faults THEN {NoMessage("garbage")} ELSE {}) :
        to_proxy' = Append(to_proxy, m)
    BY <1>12 DEF Speak
  <2>2. m.kind # "response"
    BY <2>1 DEF NoMessage
  <2>3. TypeOK'
    BY <1>12, TypeNext DEF Next
  <2>4. m \in Message
    <3>1. Len(to_proxy') = Len(to_proxy) + 1 /\ to_proxy'[Len(to_proxy) + 1] = m
      BY <2>1 DEF TypeOK
    <3>2. Len(to_proxy) \in Nat /\ to_proxy' \in Seq(Message)
      BY <2>3 DEF TypeOK
    <3> QED BY <3>1, <3>2
  <2> QED BY <1>11, <1>12, <2>1, <2>2, <2>4 DEF Speak
<1>13. CASE Crash
  BY <1>9, <1>13 DEF Crash, AnswersExecuted
<1>14. ASSUME NEW i \in Ids, Answer(i) PROVE Demux'
  <2>1. [kind |-> "response", id |-> i] \in Message
    BY DEF Message, MessageKind
  <2>2. executed[i] > 0
    BY <1>14 DEF Answer, AnswersExecuted
  <2> QED BY <1>11, <1>14, <2>1, <2>2 DEF Answer
<1>15. CASE UNCHANGED vars
  BY <1>15 DEF vars, conn, callers, env, LockOrder, OwnIds, NobodyForgotten, InRequest,
               AnswersOwn, AnswersExecuted
<1> QED BY <1>1, <1>2, <1>3, <1>4, <1>5, <1>6, <1>7, <1>8, <1>10, <1>12, <1>13, <1>14, <1>15
           DEF Next

-----------------------------------------------------------------------------
(* The breaker's invariants are preserved by every step.                    *)
BreakerPart == BreakerCoherent /\ HandshakeAlone /\ FailuresCounted

(* What one recorded failure adds.                                          *)
LEMMA FailureAddsOne ==
  ASSUME NEW b \in Breaker, NEW t \in Nat, Coherent(b, t)
  PROVE  RecordFailure(b, t).failures <= b.failures + 1
<1>1. CASE State(b, t) = "half_open" \/ b.failures + 1 >= Threshold
  <2>1. RecordFailure(b, t).failures = Threshold
    BY <1>1 DEF RecordFailure, Trip
  <2>2. b.failures \in Nat /\ (b.state # "closed" => b.failures = Threshold)
    BY BreakerAssumption DEF Coherent, Breaker
  <2>3. State(b, t) = "half_open" => b.state # "closed"
    BY DEF State
  <2> QED BY <1>1, <2>1, <2>2, <2>3, BreakerAssumption
<1>2. CASE ~(State(b, t) = "half_open" \/ b.failures + 1 >= Threshold)
  BY <1>2 DEF RecordFailure, Breaker
<1> QED BY <1>1, <1>2

(* The same of the operators that request() and _handshake use.             *)
LEMMA FailedBreaker ==
  ASSUME NEW b \in Breaker, now \in Nat, Coherent(b, now)
  PROVE  /\ Failed(b) \in Breaker
         /\ Coherent(Failed(b), now)
         /\ Failed(b).failures <= b.failures + 1
<1>1. b.failures \in Nat /\ b.failures <= b.failures + 1
  BY DEF Breaker
<1> QED BY <1>1, BreakerTypes, BreakerStaysCoherent, FailureAddsOne DEF Failed

LEMMA SucceededBreaker ==
  ASSUME NEW b \in Breaker, now \in Nat, Coherent(b, now)
  PROVE  /\ Succeeded(b) \in Breaker
         /\ Coherent(Succeeded(b), now)
         /\ Succeeded(b).failures <= b.failures
         /\ HasBreaker => Succeeded(b).failures = 0
<1>1. b.failures \in Nat
  BY DEF Breaker
<1>2. RecordSuccess(b).failures = 0
  BY DEF RecordSuccess, Breaker
<1> QED BY <1>1, <1>2, BreakerTypes, BreakerStaysCoherent DEF Succeeded

(* A step that leaves the connection's life and the failures alone.         *)
LEMMA BreakerFrame ==
  ASSUME TypeOK, BreakerPart, UNCHANGED <<breaker, life, streak>>, now' \in {now, now + 1},
         \A c \in Pingers : pc[c] = "idle" /\ phase = "handshaking" => pc'[c] = "idle"
  PROVE  BreakerPart'
<1>1. BreakerCoherent'
  BY DEF BreakerPart, BreakerCoherent, Coherent, TypeOK, Breaker
<1>2. HandshakeAlone'
  BY DEF BreakerPart, HandshakeAlone, life
<1>3. FailuresCounted'
  BY DEF BreakerPart, FailuresCounted, life
<1> QED BY <1>1, <1>2, <1>3 DEF BreakerPart

(* Raising adds one failure to the streak, and in the handshake records one *)
(* more than the streak shows.                                              *)
LEMMA BreakerRaise ==
  ASSUME TypeOK, BreakerPart, NEW c \in Callers, pc[c] # "idle",
         NEW b \in Breaker, Coherent(b, now), b.failures <= breaker.failures + 1,
         ~HasBreaker => b = breaker,
         Raise(c, b), now' = now
  PROVE  BreakerPart'
<1>1. /\ b \in Breaker /\ Failed(b) \in Breaker /\ now \in Nat
      /\ Coherent(Failed(b), now)
      /\ Failed(b).failures <= b.failures + 1
  BY FailedBreaker DEF TypeOK
<1>2. BreakerCoherent'
  BY <1>1 DEF Raise, BreakerCoherent
<1>3. phase = "handshaking" => c = RouteLoop
  BY DEF BreakerPart, HandshakeAlone, Pingers
<1>4. phase' # "handshaking"  \/ (phase' = phase /\ c # RouteLoop)
  BY DEF Raise
<1>5. phase' # "handshaking"
  BY <1>3, <1>4
<1>6. ~HasBreaker => breaker'.failures = 0
  BY DEF Raise, Failed, BreakerPart, FailuresCounted
<1>7. FailuresCounted'
  <2>1. joined' = joined /\ streak' = streak + 1 /\ streak \in Nat
    BY DEF Raise, TypeOK
  <2>2. breaker.failures \in Nat /\ b.failures \in Nat /\ Failed(b).failures \in Nat
    BY <1>1 DEF TypeOK, Breaker
  <2>3. CASE phase = "handshaking"
    <3>1. ~joined /\ breaker.failures <= streak /\ breaker' = Failed(b)
      BY <2>1, <2>2, <2>3 DEF BreakerPart, HandshakeAlone, FailuresCounted, Raise
    <3>2. (IF joined' \/ phase' = "handshaking" THEN 0 ELSE 1) = 1
      BY <1>5, <2>1, <3>1
    <3>3. breaker'.failures <= streak + 2 /\ breaker'.failures \in Nat
      BY <1>1, <2>1, <2>2, <3>1
    <3> QED BY <1>6, <2>1, <3>2, <3>3 DEF FailuresCounted
  <2>4. CASE phase # "handshaking"
    <3>1. breaker' = b
      BY <2>4 DEF Raise
    <3>2. breaker.failures <= streak + (IF joined THEN 0 ELSE 1)
      BY <2>4 DEF BreakerPart, FailuresCounted
    <3> QED BY <1>5, <1>6, <2>1, <2>2, <3>1, <3>2 DEF FailuresCounted
  <2> QED BY <2>3, <2>4
<1> QED BY <1>2, <1>5, <1>7 DEF BreakerPart, HandshakeAlone
LEMMA BreakerCallerStep ==
  ASSUME TypeOK, BreakerPart, NEW c \in Callers, CallerStep(c)
  PROVE  BreakerPart'
<1>1. breaker \in Breaker /\ now \in Nat /\ Coherent(breaker, now)
  BY DEF TypeOK, BreakerPart, BreakerCoherent
<1>2. breaker.failures \in Nat
  BY <1>1 DEF Breaker
<1>3. phase = "handshaking" /\ pc[c] # "idle" => c = RouteLoop
  BY DEF BreakerPart, HandshakeAlone, Pingers
<1>4. ASSUME pc[c] # "idle", NEW p, pc' = [pc EXCEPT ![c] = p],
             UNCHANGED <<breaker, life, streak, now>>
      PROVE  BreakerPart'
  <2>1. \A d \in Pingers : pc[d] = "idle" /\ phase = "handshaking" => pc'[d] = "idle"
    BY <1>4 DEF TypeOK, Pingers
  <2> QED BY <1>4, <2>1, BreakerFrame
<1>5. CASE BeginSend(c)
  BY <1>4, <1>5 DEF BeginSend, history
<1>6. CASE EndSend(c)
  BY <1>4, <1>6 DEF EndSend, history
<1>7. CASE FailSend(c)
  <2>1. CASE cur[c] = NoId
    BY <1>4, <1>7, <2>1 DEF FailSend, history
  <2>2. CASE cur[c] # NoId
    BY <1>1, <1>2, <1>7, <2>2, BreakerRaise DEF FailSend
  <2> QED BY <2>1, <2>2
<1>8. CASE Expire(c)
  BY <1>8, BreakerFrame DEF Expire, callers, history
<1>9. ASSUME Succeed(c), now' = now, phase' # "handshaking", pc[c] # "idle"
      PROVE  BreakerPart'
  <2>1. /\ breaker' = Succeeded(breaker) /\ streak' = 0
        /\ Coherent(Succeeded(breaker), now)
    BY <1>1, <1>9, SucceededBreaker DEF Succeed
  <2>2. Succeeded(breaker).failures = 0
    BY <1>1, <2>1, SucceededBreaker DEF Succeeded, BreakerPart, FailuresCounted
  <2>3. BreakerCoherent' /\ HandshakeAlone'
    BY <1>9, <2>1 DEF BreakerCoherent, HandshakeAlone
  <2>4. FailuresCounted'
    BY <2>1, <2>2 DEF FailuresCounted
  <2> QED BY <2>3, <2>4 DEF BreakerPart
<1>10. CASE Return(c)
  BY <1>9, <1>10 DEF Return, life
<1>11. CASE FinishHandshake(c)
  <2>1. ASSUME Raise(c, Succeeded(breaker)) PROVE BreakerPart'
    <3>1. /\ Succeeded(breaker) \in Breaker
          /\ Coherent(Succeeded(breaker), now)
          /\ Succeeded(breaker).failures <= breaker.failures
          /\ ~HasBreaker => Succeeded(breaker) = breaker
      BY <1>1, SucceededBreaker DEF Succeeded
    <3>2. Succeeded(breaker).failures <= breaker.failures + 1
      BY <1>2, <3>1 DEF Breaker
    <3> QED BY <1>11, <2>1, <3>1, <3>2, BreakerRaise DEF FinishHandshake
  <2> QED BY <1>9, <1>11, <2>1 DEF FinishHandshake
<1>12. CASE Reraise(c)
  <2>1. /\ Failed(breaker) \in Breaker
        /\ Coherent(Failed(breaker), now)
        /\ Failed(breaker).failures <= breaker.failures + 1
        /\ ~HasBreaker => Failed(breaker) = breaker
    BY <1>1, FailedBreaker DEF Failed
  <2> QED BY <1>12, <2>1, BreakerRaise DEF Reraise
<1> QED BY <1>5, <1>6, <1>7, <1>8, <1>10, <1>11, <1>12 DEF CallerStep

LEMMA BreakerNext == TypeOK /\ BreakerPart /\ [Next]_vars => BreakerPart'
<1> SUFFICES ASSUME TypeOK, BreakerPart, [Next]_vars PROVE BreakerPart'
  OBVIOUS
<1> USE CallersAssumption
<1>1. ASSUME NEW c \in Callers, phase = "handshaking" => c = RouteLoop,
             Register(c), UNCHANGED breaker
      PROVE  BreakerPart'
  <2>1. \A d \in Pingers : pc[d] = "idle" /\ phase = "handshaking" => pc'[d] = "idle"
    BY <1>1 DEF Register, TypeOK, Pingers
  <2> QED BY <1>1, <2>1, BreakerFrame DEF Register, history
<1>2. CASE StartHandshake \/ StartRequest
  BY <1>1, <1>2 DEF StartHandshake, StartRequest
<1>3. ASSUME NEW c \in Pingers, StartPing(c) PROVE BreakerPart'
  BY <1>1, <1>3 DEF StartPing, Pingers
<1>4. CASE Admit
  <2>1. /\ breaker' = Refresh(breaker, now) /\ phase' = "serving" /\ phase = "serving"
        /\ UNCHANGED <<now, joined, streak>>
    BY <1>4 DEF Admit, life, history
  <2>2. breaker \in Breaker /\ now \in Nat /\ Coherent(breaker, now)
    BY DEF TypeOK, BreakerPart, BreakerCoherent
  <2>3. Refresh(breaker, now).failures = breaker.failures
    BY <2>2 DEF Refresh, Breaker
  <2>4. BreakerCoherent' /\ HandshakeAlone'
    BY <2>1, <2>2, BreakerStaysCoherent DEF BreakerCoherent, HandshakeAlone
  <2>5. FailuresCounted'
    BY <2>1, <2>3 DEF FailuresCounted, BreakerPart
  <2> QED BY <2>4, <2>5 DEF BreakerPart
<1>5. CASE StartRelay
  <2>1. \A d \in Pingers : pc[d] = "idle" /\ phase = "handshaking" => pc'[d] = "idle"
    BY <1>5 DEF StartRelay
  <2> QED BY <1>5, <2>1, BreakerFrame DEF StartRelay, history
<1>6. ASSUME NEW c \in Callers, CallerStep(c) PROVE BreakerPart'
  BY <1>6, BreakerCallerStep
<1>7. CASE ReaderStep
  BY <1>7, BreakerFrame
     DEF ReaderStep, Resolve, Deliver, Delivered, EndReader, callers, history
<1>8. CASE Close
  <2>1. /\ UNCHANGED <<now, breaker, joined, streak>>
        /\ phase = "serving" /\ phase' = "closed"
    BY <1>8 DEF Close, history
  <2> QED BY <2>1 DEF BreakerPart, BreakerCoherent, HandshakeAlone, FailuresCounted
<1>9. CASE Tick
  BY <1>9, BreakerFrame DEF Tick, callers, history
<1>10. CASE Serve \/ Speak \/ Crash
  BY <1>10, BreakerFrame DEF Serve, Speak, Crash, callers, history
<1>11. ASSUME NEW i \in Ids, Answer(i) PROVE BreakerPart'
  BY <1>11, BreakerFrame DEF Answer, callers, history
<1>12. CASE UNCHANGED vars
  BY <1>12, BreakerFrame DEF vars, callers, history
<1> QED BY <1>2, <1>3, <1>4, <1>5, <1>6, <1>7, <1>8, <1>9, <1>10, <1>11, <1>12 DEF Next

-----------------------------------------------------------------------------
LEMMA IndInvInit == Init => IndInv
<1> SUFFICES ASSUME Init PROVE IndInv
  OBVIOUS
<1> USE BreakerAssumption DEF Init
<1>1. TypeOK
  BY TypeInit
<1>2. LockOrder /\ OwnIds /\ NobodyForgotten
  BY DEF LockOrder, OwnIds, NobodyForgotten, InRequest
<1>3. AnswersExecuted
  BY DEF AnswersExecuted
<1>4. AnswersOwn
  BY DEF AnswersOwn, NoMessage, MessageKind
<1>5. BreakerCoherent /\ HandshakeAlone /\ FailuresCounted
  BY DEF BreakerCoherent, Coherent, NewBreaker, HandshakeAlone, FailuresCounted, Pingers
<1> QED BY <1>1, <1>2, <1>3, <1>4, <1>5 DEF IndInv

LEMMA IndInvNext == IndInv /\ [Next]_vars => IndInv'
BY TypeNext, DemuxNext, BreakerNext DEF IndInv, Demux, BreakerPart

(* The inductive invariant of the connection: whatever the callers, the     *)
(* backend, its failures and the timers do, in any number.                  *)
THEOREM Invariance == Spec => []IndInv
BY IndInvInit, IndInvNext, PTL DEF Spec

(* Every variable of the connection keeps its type.                         *)
THEOREM TypeCorrect == Spec => []TypeOK
<1>1. IndInv => TypeOK
  BY DEF IndInv
<1> QED BY <1>1, Invariance, PTL

(* The send lock excludes: any number of pings, routed calls and relayed    *)
(* messages never write to the backend at once, even after a failed send.   *)
THEOREM SendLockExcludes == Spec => []WritesExclusive
<1>1. IndInv => WritesExclusive
  BY DEF IndInv, LockOrder, WritesExclusive
<1> QED BY <1>1, Invariance, PTL

(* No request under way loses its registration while its future is          *)
(* unresolved, however many run at once and however they end.               *)
THEOREM NoRequestForgotten == Spec => []NobodyForgotten
<1>1. IndInv => NobodyForgotten
  BY DEF IndInv
<1> QED BY <1>1, Invariance, PTL

(* The demultiplexer gives each request the backend's answer to that        *)
(* request, and only after the backend executed it.                         *)
THEOREM NoCrossedAnswers == Spec => []AnswersOwn
<1>1. IndInv => AnswersOwn
  BY DEF IndInv
<1> QED BY <1>1, Invariance, PTL

(* The breaker's fields agree in every interleaving of outcomes.            *)
THEOREM CoherentBreaker == Spec => []BreakerCoherent
<1>1. IndInv => BreakerCoherent
  BY DEF IndInv
<1> QED BY <1>1, Invariance, PTL

(* For every threshold, the breaker opens only on that many failures in a   *)
(* row (one fewer for a backend that failed its handshake).                 *)
THEOREM OpensOnEnoughFailures == Spec => []OpensOnConsecutiveFailures
<1>1. IndInv => OpensOnConsecutiveFailures
  <2> SUFFICES ASSUME IndInv, breaker.state = "open"
               PROVE  streak + (IF joined THEN 0 ELSE 1) >= Threshold
    BY DEF OpensOnConsecutiveFailures
  <2>1. breaker.failures \in Nat /\ streak \in Nat
    BY DEF IndInv, TypeOK, Breaker
  <2>2. ~(breaker.failures < Threshold)
    BY DEF IndInv, BreakerCoherent, Coherent
  <2>3. breaker.failures <= streak + (IF joined THEN 0 ELSE 1)
    BY <2>1 DEF IndInv, FailuresCounted
  <2> QED BY <2>1, <2>2, <2>3, BreakerAssumption
<1> QED BY <1>1, Invariance, PTL

-----------------------------------------------------------------------------
(* StopFailsAll: the read loop's end leaves nobody waiting for an answer     *)
(* that will not be read. A caller that waits is registered, and everything  *)
(* registered is failed; a pinger that survives the end of serve has what it *)
(* waited for.                                                               *)
THEOREM StopFailsEveryone == Spec => StopFailsAll
<1> DEFINE NobodyWaits == \A c \in Callers : pc'[c] = "awaiting" => future'[cur'[c]].kind # "waiting"
<1>1. IndInv /\ Next /\ reader # "stopped" /\ reader' = "stopped" => NobodyWaits
  <2> SUFFICES ASSUME IndInv, Next, reader # "stopped", reader' = "stopped",
                      NEW c \in Callers, pc'[c] = "awaiting"
               PROVE  future'[cur'[c]].kind # "waiting"
    OBVIOUS
  <2>1. EndReader \/ Close
    BY DEF Next, StartHandshake, Admit, StartRequest, StartRelay, StartPing, Register,
           CallerStep, BeginSend, EndSend, FailSend, Expire, Return, FinishHandshake, Reraise,
           ReaderStep, Resolve, Deliver, Delivered, Tick, Serve, Speak, Crash, Answer, conn
  <2>2. TypeOK /\ OwnIds /\ NobodyForgotten
    BY DEF IndInv
  <2>3. StopReader /\ UNCHANGED cur
    BY <2>1 DEF EndReader, Close, callers
  <2>4. pc[c] = "awaiting" /\ (future[cur[c]].kind = "waiting" => EndReader)
    BY <2>1 DEF EndReader, Close, Survives, MessageKind, callers
  <2>5. cur[c] \in Ids /\ (future[cur[c]].kind = "waiting" => cur[c] \in pending)
    BY <2>2, <2>4 DEF OwnIds, NobodyForgotten, InRequest, TypeOK
  <2> QED BY <2>3, <2>5 DEF StopReader, NoMessage
<1>2. IndInv /\ [Next]_vars => [reader # "stopped" /\ reader' = "stopped" => NobodyWaits]_vars
  BY <1>1
<1> QED BY <1>2, Invariance, PTL DEF Spec, StopFailsAll

(* During the handshake no outcome has been recorded yet.                    *)
HandshakeFresh == phase = "handshaking" => breaker.state = "closed"

LEMMA FreshBreaker == Spec => []HandshakeFresh
<1>1. Init => HandshakeFresh
  BY DEF Init, HandshakeFresh, NewBreaker
<1>2. IndInv /\ HandshakeFresh /\ [Next]_vars => HandshakeFresh'
  <2> SUFFICES ASSUME IndInv, HandshakeFresh, [Next]_vars, phase' = "handshaking"
               PROVE  breaker'.state = "closed"
    BY DEF HandshakeFresh
  <2>1. ASSUME NEW c \in Callers, CallerStep(c), phase = "handshaking"
        PROVE  UNCHANGED breaker
    <3>1. pc[c] # "idle"
      BY <2>1 DEF CallerStep, BeginSend, EndSend, FailSend, Expire, Return, FinishHandshake, Reraise
    <3>2. c = RouteLoop
      BY <2>1, <3>1 DEF IndInv, HandshakeAlone, Pingers
    <3>3. ASSUME NEW b PROVE ~Raise(c, b)
      BY <3>2 DEF Raise
    <3>4. ~Return(c) /\ ~Reraise(c)
      BY <2>1, <3>3 DEF Return, Reraise
    <3>5. ~FinishHandshake(c)
      <4>1. ~Raise(c, Succeeded(breaker))
        BY <3>3
      <4> QED BY <4>1 DEF FinishHandshake
    <3>6. FailSend(c) => UNCHANGED breaker
      BY <3>3 DEF FailSend
    <3>7. (BeginSend(c) \/ EndSend(c) \/ Expire(c)) => UNCHANGED breaker
      BY DEF BeginSend, EndSend, Expire
    <3> QED BY <2>1, <3>4, <3>5, <3>6, <3>7 DEF CallerStep
  <2>2. phase = "handshaking" /\ UNCHANGED breaker
    <3>1. CASE \E c \in Callers : CallerStep(c)
      <4> PICK c \in Callers : CallerStep(c)
        BY <3>1
      <4>1. phase = "handshaking"
        BY DEF CallerStep, BeginSend, EndSend, FailSend, Expire, Return, FinishHandshake,
               Reraise, Raise, life
      <4> QED BY <2>1, <4>1
    <3>2. CASE UNCHANGED vars
      BY <3>2 DEF vars, life
    <3>3. CASE ~(\E c \in Callers : CallerStep(c)) /\ Next
      BY <3>3 DEF Next, StartHandshake, Admit, StartRequest, StartRelay, StartPing, Register,
             ReaderStep, Resolve, Deliver, Delivered, EndReader, Close, Tick, Serve, Speak,
             Crash, Answer, life
    <3> QED BY <3>1, <3>2, <3>3
  <2> QED BY <2>2 DEF HandshakeFresh
<1> QED BY <1>1, <1>2, Invariance, PTL DEF Spec

(* OpenUntilReset: in every interleaving of pings and routed requests, an    *)
(* open breaker leaves that state only after its reset timeout, or because a *)
(* request that was under way has returned. Another failure, counted once or *)
(* twice, opens it again at most.                                            *)
THEOREM StaysOpenUntilReset == Spec => OpenUntilReset
<1> DEFINE Justified == \/ now - breaker.opened_at >= ResetTimeout
                        \/ \E c \in Callers : InRequest(c) /\ outcome'[cur[c]] = "ok"
<1>1. ASSUME IndInv, HandshakeFresh, Next, breaker.state = "open", breaker'.state # "open"
      PROVE  Justified
  <2>1. TypeOK /\ OwnIds /\ BreakerCoherent
    BY <1>1 DEF IndInv
  <2>2. ASSUME NEW b \in Breaker, b.state = "open", Coherent(b, now)
        PROVE  Failed(b) \in Breaker /\ Failed(b).state = "open" /\ Coherent(Failed(b), now)
    <3>1. RecordFailure(b, now) = Trip(now)
      BY <2>2, BreakerAssumption DEF RecordFailure, Coherent, Breaker
    <3> QED BY <2>1, <2>2, <3>1, BreakerTypes, BreakerStaysCoherent DEF Failed, Trip, TypeOK
  <2>3. phase # "handshaking"
    BY <1>1 DEF HandshakeFresh
  <2>4. ASSUME NEW c \in Callers, CallerStep(c) PROVE Justified
    <3>1. Failed(breaker).state = "open"
      BY <1>1, <2>1, <2>2 DEF TypeOK, BreakerCoherent
    <3>2. ~BeginSend(c) /\ ~EndSend(c) /\ ~Expire(c)
      BY <1>1 DEF BeginSend, EndSend, Expire
    <3>3. ~FailSend(c) /\ ~Reraise(c) /\ ~FinishHandshake(c)
      BY <1>1, <2>3, <3>1 DEF FailSend, Reraise, FinishHandshake, Raise
    <3>4. Return(c)
      BY <2>4, <3>2, <3>3 DEF CallerStep
    <3>5. InRequest(c) /\ cur[c] \in Ids
      BY <2>1, <3>4 DEF Return, InRequest, OwnIds, TypeOK
    <3>6. outcome'[cur[c]] = "ok"
      BY <2>1, <3>4, <3>5 DEF Return, Succeed, TypeOK
    <3> QED BY <3>5, <3>6
  <2>5. CASE Admit
    BY <1>1, <2>1, <2>5 DEF Admit, Refresh, State, TypeOK, Breaker
  <2> QED
    BY <1>1, <2>4, <2>5
       DEF Next, StartHandshake, StartRequest, StartRelay, StartPing, ReaderStep, Resolve,
           Deliver, Delivered, EndReader, Close, Tick, Serve, Speak, Crash, Answer
<1>2. IndInv /\ HandshakeFresh /\ [Next]_vars
        => [breaker.state = "open" /\ breaker'.state # "open" => Justified]_vars
  BY <1>1
<1> QED BY <1>2, Invariance, FreshBreaker, PTL DEF Spec, OpenUntilReset

-----------------------------------------------------------------------------
(* The refinement of RpcContract. An id that was minted is with its caller,  *)
(* in the queue to the backend, or executed, and never two of these; the     *)
(* outcome of a request under way is open.                                   *)
Queued(i) == \E k \in 1..Len(to_backend) : to_backend[k] = i

OncePart ==
  /\ \A i \in Ids : executed[i] = 0 \/ (executed[i] = 1 /\ ~Queued(i))
  /\ \A i \in Ids \ (1..next_id) : executed[i] = 0 /\ outcome[i] = "none" /\ ~Queued(i)
  /\ \A j, k \in 1..Len(to_backend) :
       to_backend[j] = to_backend[k] => j = k \/ to_backend[j] = NoId
  /\ \A c \in Callers : InRequest(c) => outcome[cur[c]] = "none"
  /\ \A c \in Callers : pc[c] = "locking" /\ cur[c] # NoId =>
                          executed[cur[c]] = 0 /\ ~Queued(cur[c])

(* A backend whose own requests bear no id of the proxy's sends nothing but  *)
(* responses under such an id.                                               *)
AnswersOnly ==
  /\ \A k \in 1..Len(to_proxy) : to_proxy[k].id # NoId => to_proxy[k].kind = "response"
  /\ \A i \in Ids : future[i].kind \in MessageKind => future[i].kind = "response"

(* Steps that neither mint, send, execute nor end a request.                 *)
LEMMA OnceFrame ==
  ASSUME OncePart, UNCHANGED <<executed, to_backend, outcome, next_id>>,
         \A c \in Callers : InRequest(c)' => InRequest(c) /\ cur'[c] = cur[c],
         \A c \in Callers : pc'[c] = "locking" /\ cur'[c] # NoId => pc[c] = "locking" /\ cur'[c] = cur[c]
  PROVE  OncePart'
BY DEF OncePart, Queued

LEMMA OnceRegister ==
  ASSUME TypeOK, OncePart, NEW c \in Callers, Register(c)
  PROVE  OncePart'
<1>1. /\ next_id \in Nat /\ next_id' = next_id + 1 /\ next_id' \in Ids
      /\ UNCHANGED <<executed, to_backend, outcome>>
  BY BoundsAssumption DEF TypeOK, Register, env, history
<1>2. /\ executed[next_id'] = 0 /\ outcome[next_id'] = "none" /\ ~Queued(next_id')
  BY <1>1 DEF OncePart
<1>3. \A d \in Callers : InRequest(d)' => cur'[d] = next_id' \/ (InRequest(d) /\ cur'[d] = cur[d])
  BY DEF Register, InRequest, TypeOK
<1>4. \A d \in Callers : pc'[d] = "locking" /\ cur'[d] # NoId =>
        cur'[d] = next_id' \/ (pc[d] = "locking" /\ cur'[d] = cur[d])
  BY DEF Register, TypeOK
<1>5. \A i \in Ids : Queued(i)' <=> Queued(i)
  BY <1>1 DEF Queued
<1>6. \A i \in Ids \ (1..next_id') : executed'[i] = 0 /\ outcome'[i] = "none" /\ ~Queued(i)'
  BY <1>1, <1>5 DEF OncePart
<1>7. \A d \in Callers : InRequest(d)' => outcome'[cur'[d]] = "none"
  BY <1>1, <1>2, <1>3 DEF OncePart
<1>8. \A d \in Callers : pc'[d] = "locking" /\ cur'[d] # NoId => executed'[cur'[d]] = 0 /\ ~Queued(cur[d])'
  <2> SUFFICES ASSUME NEW d \in Callers, pc'[d] = "locking", cur'[d] # NoId
               PROVE  executed[cur'[d]] = 0 /\ \A k \in 1..Len(to_backend) : to_backend[k] # cur'[d]
    BY <1>1 DEF Queued
  <2> QED BY <1>2, <1>4 DEF OncePart, Queued
<1>9. \A i \in Ids : executed'[i] = 0 \/ (executed'[i] = 1 /\ ~Queued(i)')
  BY <1>1, <1>5 DEF OncePart
<1>10. \A j, k \in 1..Len(to_backend') :
         to_backend'[j] = to_backend'[k] => j = k \/ to_backend'[j] = NoId
  BY <1>1 DEF OncePart
<1> QED BY <1>6, <1>7, <1>8, <1>9, <1>10 DEF OncePart

(* The queue grows by a message without an id or by one never queued before. *)
LEMMA QueueGrows ==
  ASSUME TypeOK, NEW i \in Ids \cup {NoId}, to_backend' = Append(to_backend, i)
  PROVE  /\ \A j \in Ids : Queued(j)' <=> Queued(j) \/ j = i
         /\ (i = NoId \/ ~Queued(i)) /\ OncePart =>
              \A j, k \in 1..Len(to_backend') :
                 to_backend'[j] = to_backend'[k] => j = k \/ to_backend'[j] = NoId
<1>1. /\ to_backend \in Seq(Ids \cup {NoId}) /\ Len(to_backend) \in Nat
      /\ Len(to_backend') = Len(to_backend) + 1
      /\ \A k \in 1..Len(to_backend) : to_backend'[k] = to_backend[k]
      /\ to_backend'[Len(to_backend) + 1] = i
  BY DEF TypeOK
<1>2. \A k \in 1..Len(to_backend') : k \in 1..Len(to_backend) \/ k = Len(to_backend) + 1
  BY <1>1
<1>3. \A j \in Ids : Queued(j)' <=> Queued(j) \/ j = i
  <2> TAKE j \in Ids
  <2>1. Queued(j)' => Queued(j) \/ j = i
    BY <1>1, <1>2 DEF Queued
  <2>2. Queued(j) => Queued(j)'
    BY <1>1 DEF Queued
  <2>3. j = i => Queued(j)'
    BY <1>1 DEF Queued
  <2> QED BY <2>1, <2>2, <2>3
<1>4. ASSUME i = NoId \/ ~Queued(i), OncePart,
             NEW j \in 1..Len(to_backend'), NEW k \in 1..Len(to_backend'), to_backend'[j] = to_backend'[k]
      PROVE  j = k \/ to_backend'[j] = NoId
  <2>1. CASE j \in 1..Len(to_backend) /\ k \in 1..Len(to_backend)
    BY <1>1, <1>4, <2>1 DEF OncePart
  <2>2. CASE j = Len(to_backend) + 1 /\ k \in 1..Len(to_backend)
    BY <1>1, <1>4, <2>2 DEF Queued
  <2>3. CASE k = Len(to_backend) + 1 /\ j \in 1..Len(to_backend)
    BY <1>1, <1>4, <2>3 DEF Queued
  <2>4. CASE j = Len(to_backend) + 1 /\ k = Len(to_backend) + 1
    BY <2>4
  <2> QED BY <1>2, <1>4, <2>1, <2>2, <2>3, <2>4
<1> QED BY <1>3, <1>4

LEMMA OnceBeginSend ==
  ASSUME TypeOK, OwnIds, OncePart, NEW c \in Callers, BeginSend(c)
  PROVE  OncePart'
<1>1. /\ pc[c] = "locking" /\ pc' = [pc EXCEPT ![c] = "sending"]
      /\ UNCHANGED <<cur, executed, outcome, next_id>>
      /\ cur[c] \in Ids \cup {NoId}
  BY DEF BeginSend, TypeOK, conn, history
<1>2. /\ \A d \in Callers : InRequest(d)' => InRequest(d)
      /\ \A d \in Callers : pc'[d] = "locking" => d # c /\ pc[d] = "locking"
  BY <1>1 DEF InRequest, TypeOK
<1>3. CASE UNCHANGED to_backend
  BY <1>1, <1>2, <1>3, OnceFrame
<1>4. CASE to_backend' = Append(to_backend, cur[c])
  <2>1. cur[c] # NoId => /\ InRequest(c) /\ ~Queued(cur[c]) /\ executed[cur[c]] = 0
                         /\ cur[c] \in 1..next_id
    BY <1>1 DEF OncePart, InRequest, OwnIds
  <2>2. /\ \A j \in Ids : Queued(j)' <=> Queued(j) \/ j = cur[c]
        /\ \A j, k \in 1..Len(to_backend') :
             to_backend'[j] = to_backend'[k] => j = k \/ to_backend'[j] = NoId
    BY <1>1, <1>4, <2>1, QueueGrows
  <2>3. \A d \in Callers : pc'[d] = "locking" /\ cur[d] # NoId => executed[cur[d]] = 0 /\ ~Queued(cur[d])'
    <3> SUFFICES ASSUME NEW d \in Callers, pc'[d] = "locking", cur[d] # NoId
                 PROVE  executed[cur[d]] = 0 /\ ~Queued(cur[d])'
      OBVIOUS
    <3>1. pc[d] = "locking" /\ d # c /\ InRequest(d) /\ cur[d] \in Ids
      BY <1>2 DEF InRequest, TypeOK
    <3>2. cur[d] # cur[c]
      BY <2>1, <3>1 DEF OwnIds
    <3>3. ~Queued(cur[d])'
      <4>1. Queued(cur[d])' <=> \E k \in 1..Len(to_backend') : to_backend'[k] = cur[d]
        BY <1>1 DEF Queued
      <4> DEFINE j == cur[d]
      <4>2. j \in Ids /\ j # cur[c] /\ ~Queued(j)
        BY <3>1, <3>2 DEF OncePart
      <4>3. ~(\E k \in 1..Len(to_backend') : to_backend'[k] = j)
        <5> HIDE DEF j
        <5> QED BY <2>2, <4>2 DEF Queued
      <4> QED BY <4>1, <4>3
    <3> QED BY <3>1, <3>3 DEF OncePart
  <2>4. \A i \in Ids : executed'[i] = 0 \/ (executed'[i] = 1 /\ ~Queued(i)')
    BY <1>1, <2>1, <2>2 DEF OncePart
  <2>5. \A i \in Ids \ (1..next_id') : executed'[i] = 0 /\ outcome'[i] = "none" /\ ~Queued(i)'
    BY <1>1, <2>1, <2>2 DEF OncePart
  <2>6. \A d \in Callers : InRequest(d)' => outcome'[cur'[d]] = "none"
    BY <1>1, <1>2 DEF OncePart
  <2> QED BY <1>1, <2>2, <2>3, <2>4, <2>5, <2>6 DEF OncePart
<1> QED BY <1>3, <1>4 DEF BeginSend

(* The end of a request: its caller is under way no more, and the queue may  *)
(* have grown by a notification.                                             *)
LEMMA OnceEnds ==
  ASSUME TypeOK, OwnIds, OncePart, NEW c \in Callers, InRequest(c),
         \/ UNCHANGED to_backend
         \/ to_backend' = Append(to_backend, NoId),
         NEW result, outcome' = [outcome EXCEPT ![cur[c]] = result],
         NEW place \in {"idle", "gone"}, pc' = [pc EXCEPT ![c] = place],
         UNCHANGED <<cur, executed, next_id>>
  PROVE  OncePart'
<1>1. /\ \A j \in Ids : Queued(j)' <=> Queued(j)
      /\ \A j, k \in 1..Len(to_backend') :
           to_backend'[j] = to_backend'[k] => j = k \/ to_backend'[j] = NoId
  <2>1. CASE UNCHANGED to_backend
    BY <2>1 DEF Queued, OncePart
  <2>2. CASE to_backend' = Append(to_backend, NoId)
    BY <2>2, QueueGrows
  <2> QED BY <2>1, <2>2
<1>2. \A d \in Callers : InRequest(d)' => d # c /\ InRequest(d)
  BY DEF InRequest, TypeOK
<1>3. cur[c] \in 1..next_id /\ cur[c] \in Ids /\ next_id \in Nat
  BY BoundsAssumption DEF OwnIds, TypeOK
<1>4. \A d \in Callers : InRequest(d)' => outcome'[cur'[d]] = "none"
  BY <1>2, <1>3 DEF OwnIds, OncePart, TypeOK
<1>5. \A d \in Callers : pc'[d] = "locking" /\ cur[d] # NoId => executed[cur[d]] = 0 /\ ~Queued(cur[d])'
  <2> SUFFICES ASSUME NEW d \in Callers, pc'[d] = "locking", cur[d] # NoId
               PROVE  executed[cur[d]] = 0 /\ ~Queued(cur[d])'
    OBVIOUS
  <2>1. pc[d] = "locking"
    BY DEF TypeOK
  <2> DEFINE i == cur[d]
  <2>2. i \in Ids /\ executed[i] = 0 /\ ~Queued(i)
    BY <2>1 DEF OncePart, TypeOK
  <2>3. ~(\E k \in 1..Len(to_backend') : to_backend'[k] = i)
    <3> HIDE DEF i
    <3> QED BY <1>1, <2>2 DEF Queued
  <2> QED BY <2>2, <2>3 DEF Queued
<1>6. \A i \in Ids \ (1..next_id') : executed'[i] = 0 /\ outcome'[i] = "none" /\ ~Queued(i)'
  BY <1>1, <1>3 DEF OncePart, TypeOK
<1>7. \A i \in Ids : executed'[i] = 0 \/ (executed'[i] = 1 /\ ~Queued(i)')
  BY <1>1 DEF OncePart
<1> QED BY <1>1, <1>4, <1>5, <1>6, <1>7 DEF OncePart

LEMMA OnceRaise ==
  ASSUME TypeOK, OwnIds, OncePart, NEW c \in Callers, InRequest(c), NEW b, Raise(c, b),
         UNCHANGED <<to_backend, cur, executed, next_id>>
  PROVE  OncePart'
<1> DEFINE place == IF phase' = "dead" THEN "gone" ELSE "idle"
<1>1. /\ pc' = [pc EXCEPT ![c] = place] /\ place \in {"idle", "gone"}
      /\ outcome' = [outcome EXCEPT ![cur[c]] = "error"]
  BY DEF Raise
<1> HIDE DEF place
<1> QED BY <1>1, OnceEnds

LEMMA OnceCallerStep ==
  ASSUME TypeOK, OwnIds, OncePart, NEW c \in Callers, CallerStep(c)
  PROVE  OncePart'
<1>1. CASE BeginSend(c)
  BY <1>1, OnceBeginSend
<1>2. CASE EndSend(c) \/ Expire(c)
  <2>1. /\ UNCHANGED <<executed, to_backend, outcome, next_id, cur>>
        /\ \A d \in Callers : InRequest(d)' => InRequest(d)
        /\ \A d \in Callers : pc'[d] = "locking" => pc[d] = "locking"
    BY <1>2 DEF EndSend, Expire, InRequest, TypeOK, conn, callers, env, history
  <2> QED BY <2>1, OnceFrame
<1>3. CASE FailSend(c) /\ cur[c] = NoId
  <2>1. /\ UNCHANGED <<executed, to_backend, outcome, next_id, cur>>
        /\ \A d \in Callers : InRequest(d)' => InRequest(d)
        /\ \A d \in Callers : pc'[d] = "locking" => pc[d] = "locking"
    BY <1>3 DEF FailSend, InRequest, TypeOK, conn, env, history
  <2> QED BY <2>1, OnceFrame
<1>4. CASE FailSend(c) /\ cur[c] # NoId
  BY <1>4, OnceRaise DEF FailSend, InRequest, conn, env
<1>5. CASE Return(c)
  <2>1. InRequest(c)
    BY <1>5 DEF Return, InRequest, OwnIds
  <2> QED BY <1>5, <2>1, OnceEnds DEF Return, Succeed, conn, env
<1>6. CASE FinishHandshake(c)
  <2>1. InRequest(c) /\ UNCHANGED <<cur, executed, next_id>>
    BY <1>6 DEF FinishHandshake, InRequest, OwnIds, conn
  <2>2. CASE Succeed(c) /\ to_backend' = IF link = "up" THEN Append(to_backend, NoId) ELSE to_backend
    BY <2>1, <2>2, OnceEnds DEF Succeed
  <2>3. CASE Raise(c, Succeeded(breaker)) /\ UNCHANGED to_backend
    BY <2>1, <2>3, OnceRaise
  <2> QED BY <1>6, <2>2, <2>3 DEF FinishHandshake
<1>7. CASE Reraise(c)
  <2>1. InRequest(c)
    BY <1>7 DEF Reraise, InRequest, OwnIds
  <2> QED BY <1>7, <2>1, OnceRaise DEF Reraise, env
<1> QED BY <1>1, <1>2, <1>3, <1>4, <1>5, <1>6, <1>7 DEF CallerStep

LEMMA OnceServe ==
  ASSUME TypeOK, OncePart, Serve
  PROVE  OncePart'
<1>1. /\ to_backend \in Seq(Ids \cup {NoId}) /\ to_backend # <<>> /\ to_backend' = Tail(to_backend)
      /\ UNCHANGED <<outcome, next_id, pc, cur>>
  BY DEF Serve, TypeOK, conn, callers, history
<1> PICK h \in Ids \cup {NoId} : h = Head(to_backend)
  BY <1>1
<1>2. /\ Len(to_backend) \in Nat /\ Len(to_backend) > 0 /\ Len(to_backend') = Len(to_backend) - 1
      /\ \A k \in 1..Len(to_backend') : to_backend'[k] = to_backend[k + 1] /\ k + 1 \in 1..Len(to_backend)
      /\ h = to_backend[1] /\ 1 \in 1..Len(to_backend) /\ h \in Ids \cup {NoId}
  BY <1>1
<1>3. \A i \in Ids : Queued(i)' => Queued(i)
  BY <1>2 DEF Queued
<1>4. \A j, k \in 1..Len(to_backend') :
        to_backend'[j] = to_backend'[k] => j = k \/ to_backend'[j] = NoId
  <2> SUFFICES ASSUME NEW j \in 1..Len(to_backend'), NEW k \in 1..Len(to_backend'),
                      to_backend'[j] = to_backend'[k]
               PROVE  j = k \/ to_backend'[j] = NoId
    OBVIOUS
  <2>1. j + 1 = k + 1 \/ to_backend[j + 1] = NoId
    BY <1>2 DEF OncePart
  <2> QED BY <1>2, <2>1
<1>5. h # NoId => ~Queued(h)' /\ Queued(h)
  <2> SUFFICES ASSUME h # NoId PROVE ~Queued(h)' /\ Queued(h)
    OBVIOUS
  <2>1. ASSUME NEW k \in 1..Len(to_backend'), to_backend'[k] = h PROVE FALSE
    <3>1. to_backend[k + 1] = to_backend[1] /\ k + 1 # 1
      BY <1>2, <2>1
    <3> QED BY <1>2, <3>1 DEF OncePart
  <2> QED BY <1>2, <2>1 DEF Queued
<1>6. executed' = IF h = NoId THEN executed ELSE [executed EXCEPT ![h] = @ + 1]
  BY DEF Serve
<1>7. \A i \in Ids : executed'[i] = 0 \/ (executed'[i] = 1 /\ ~Queued(i)')
  <2> TAKE i \in Ids
  <2>1. CASE i = h
    <3>1. executed[i] = 0 /\ executed'[i] = 1
      BY <1>5, <1>6, <2>1 DEF OncePart, TypeOK
    <3> QED BY <1>5, <2>1, <3>1
  <2>2. CASE i # h
    BY <1>2, <1>3, <1>6, <2>2 DEF OncePart, TypeOK
  <2> QED BY <2>1, <2>2
<1>8. \A i \in Ids \ (1..next_id') : executed'[i] = 0 /\ outcome'[i] = "none" /\ ~Queued(i)'
  <2> TAKE i \in Ids \ (1..next_id')
  <2>1. executed[i] = 0 /\ outcome[i] = "none" /\ ~Queued(i) /\ i # h
    BY <1>1, <1>5 DEF OncePart
  <2> QED BY <1>1, <1>2, <1>3, <1>6, <2>1 DEF TypeOK
<1>9. \A d \in Callers : InRequest(d)' => outcome'[cur'[d]] = "none"
  BY <1>1 DEF OncePart, InRequest
<1>10. \A d \in Callers : pc'[d] = "locking" /\ cur[d] # NoId => executed'[cur[d]] = 0 /\ ~Queued(cur[d])'
  <2> SUFFICES ASSUME NEW d \in Callers, pc[d] = "locking", cur[d] # NoId
               PROVE  executed'[cur[d]] = 0 /\ ~Queued(cur[d])'
    BY <1>1
  <2> DEFINE i == cur[d]
  <2>1. i \in Ids /\ executed[i] = 0 /\ ~Queued(i) /\ i # h
    BY <1>5 DEF OncePart, TypeOK
  <2>2. executed'[i] = 0 /\ ~(\E k \in 1..Len(to_backend') : to_backend'[k] = i)
    <3> HIDE DEF i
    <3> QED BY <1>2, <1>3, <1>6, <2>1 DEF Queued, TypeOK
  <2> QED BY <1>1, <2>2 DEF Queued
<1> QED BY <1>1, <1>4, <1>7, <1>8, <1>9, <1>10 DEF OncePart

LEMMA OnceNext == TypeOK /\ OwnIds /\ OncePart /\ [Next]_vars => OncePart'
<1> SUFFICES ASSUME TypeOK, OwnIds, OncePart, [Next]_vars PROVE OncePart'
  OBVIOUS
<1>1. CASE StartHandshake \/ StartRequest \/ \E c \in Pingers : StartPing(c)
  BY <1>1, OnceRegister, CallersAssumption DEF StartHandshake, StartRequest, StartPing, Pingers
<1>2. CASE \E c \in Callers : CallerStep(c)
  BY <1>2, OnceCallerStep
<1>3. CASE Admit
  <2>1. /\ UNCHANGED <<executed, to_backend, outcome, next_id, cur>>
        /\ \A d \in Callers : InRequest(d)' => InRequest(d)
        /\ \A d \in Callers : pc'[d] = "locking" => pc[d] = "locking"
    BY <1>3 DEF Admit, InRequest, TypeOK, conn, env, history
  <2> QED BY <2>1, OnceFrame
<1>4. CASE StartRelay
  <2>1. /\ UNCHANGED <<executed, to_backend, outcome, next_id>>
        /\ \A d \in Callers : InRequest(d)' => InRequest(d) /\ cur'[d] = cur[d]
        /\ \A d \in Callers : pc'[d] = "locking" /\ cur'[d] # NoId => pc[d] = "locking" /\ cur'[d] = cur[d]
    BY <1>4 DEF StartRelay, InRequest, TypeOK, conn, env, history
  <2> QED BY <2>1, OnceFrame
<1>5. CASE Close
  <2>1. /\ UNCHANGED <<executed, to_backend, outcome, next_id, cur>>
        /\ \A d \in Callers : pc'[d] # "locking" /\ (InRequest(d)' => InRequest(d))
    BY <1>5 DEF Close, StopReader, Survives, InRequest, env, history
  <2> QED BY <2>1, OnceFrame
<1>6. CASE ReaderStep \/ Tick \/ Speak \/ (\E i \in Ids : Answer(i)) \/ UNCHANGED vars
  <2>1. UNCHANGED <<executed, to_backend, outcome, next_id, pc, cur>>
    BY <1>6 DEF ReaderStep, Resolve, Deliver, Delivered, EndReader, StopReader, Tick, Speak, Answer,
                vars, conn, callers, env, history
  <2> QED BY <2>1, OnceFrame DEF InRequest
<1>7. CASE Serve
  BY <1>7, OnceServe
<1>8. CASE Crash
  <2>1. to_backend' = <<>> /\ UNCHANGED <<executed, outcome, next_id, pc, cur>>
    BY <1>8 DEF Crash, conn, callers, history
  <2>2. \A i : ~Queued(i)'
    BY <2>1 DEF Queued
  <2> QED BY <2>1, <2>2 DEF OncePart, InRequest
<1> QED BY <1>1, <1>2, <1>3, <1>4, <1>5, <1>6, <1>7, <1>8 DEF Next

LEMMA AnswersOnlyNext ==
  ASSUME ServerIds = {}, TypeOK, AnswersOnly, [Next]_vars
  PROVE  AnswersOnly'
<1> DEFINE Wire(m) == m.id # NoId => m.kind = "response"
<1>1. ASSUME NEW m, Wire(m), to_proxy' = Append(to_proxy, m), UNCHANGED future
      PROVE  AnswersOnly'
  <2>1. \A k \in 1..Len(to_proxy') : to_proxy'[k] = m \/ (k \in 1..Len(to_proxy) /\ to_proxy'[k] = to_proxy[k])
    BY <1>1 DEF TypeOK
  <2> QED BY <1>1, <2>1 DEF AnswersOnly
<1>2. ASSUME UNCHANGED to_proxy \/ (to_proxy # <<>> /\ to_proxy' = Tail(to_proxy))
      PROVE  \A k \in 1..Len(to_proxy') : Wire(to_proxy'[k])
  <2>1. CASE to_proxy # <<>> /\ to_proxy' = Tail(to_proxy)
    <3>1. \A k \in 1..Len(to_proxy') : k + 1 \in 1..Len(to_proxy) /\ to_proxy'[k] = to_proxy[k + 1]
      BY <2>1 DEF TypeOK
    <3> QED BY <3>1 DEF AnswersOnly
  <2> QED BY <1>2, <2>1 DEF AnswersOnly
<1>3. ASSUME UNCHANGED to_proxy \/ (to_proxy # <<>> /\ to_proxy' = Tail(to_proxy)),
             \A i \in Ids : future'[i].kind \in MessageKind => future'[i].kind = "response"
      PROVE  AnswersOnly'
  BY <1>2, <1>3 DEF AnswersOnly
<1>4. \A i \in Ids : future[i].kind \in MessageKind => future[i].kind = "response"
  BY DEF AnswersOnly
<1>5. ASSUME NEW c \in Callers, Register(c) \/ Expire(c) PROVE AnswersOnly'
  <2>1. UNCHANGED to_proxy
    BY <1>5 DEF Register, Expire, env
  <2>2. \A i \in Ids : future'[i] = future[i] \/ future'[i] \in {NoMessage("waiting"), NoMessage("expired")}
    BY <1>5 DEF Register, Expire, TypeOK
  <2> QED BY <1>3, <1>4, <2>1, <2>2 DEF MessageKind, NoMessage
<1>6. ASSUME StopReader, UNCHANGED to_proxy PROVE AnswersOnly'
  <2>1. \A i \in Ids : future'[i] = future[i] \/ future'[i] = NoMessage("closed")
    BY <1>6 DEF StopReader
  <2> QED BY <1>3, <1>4, <1>6, <2>1 DEF MessageKind, NoMessage
<1>7. CASE Resolve
  <2>1. to_proxy # <<>> /\ to_proxy' = Tail(to_proxy) /\ Head(to_proxy) = to_proxy[1] /\ 1 \in 1..Len(to_proxy)
    BY <1>7 DEF Resolve, TypeOK
  <2>2. Head(to_proxy).id \in Ids /\ Head(to_proxy).kind = "response"
    <3>1. Head(to_proxy).id \in Ids
      BY <1>7 DEF Resolve, TypeOK
    <3> QED BY <2>1, <3>1, BoundsAssumption DEF AnswersOnly
  <2>3. \A i \in Ids : future'[i] = future[i] \/ future'[i] = Head(to_proxy)
    BY <1>7, <2>2 DEF Resolve, TypeOK
  <2> QED BY <1>3, <1>4, <2>1, <2>2, <2>3
<1>8. CASE Speak
  <2>1. PICK m : to_proxy' = Append(to_proxy, m) /\ m.id = NoId
    <3>1. PICK m \in {NoMessage("notification")} \cup [kind : {"request"}, id : ServerIds]
                      \cup (IF "garbage" \in Faults THEN {NoMessage("garbage")} ELSE {}) :
            to_proxy' = Append(to_proxy, m)
      BY <1>8 DEF Speak
    <3>2. m \in {NoMessage("notification"), NoMessage("garbage")}
      BY <3>1
    <3> QED BY <3>1, <3>2 DEF NoMessage
  <2> QED BY <1>1, <1>8, <2>1 DEF Speak, conn
<1>9. ASSUME NEW i \in Ids, Answer(i) PROVE AnswersOnly'
  BY <1>1, <1>9 DEF Answer, conn
<1>10. CASE Deliver
  BY <1>3, <1>4, <1>10 DEF Deliver
<1>11. CASE EndReader
  BY <1>6, <1>11 DEF EndReader, env
<1>12. CASE Close
  BY <1>6, <1>12 DEF Close, env
<1>13. ASSUME NEW c \in Callers, BeginSend(c) \/ EndSend(c) \/ FailSend(c) \/ Return(c) \/ FinishHandshake(c) \/ Reraise(c)
       PROVE  AnswersOnly'
  <2>1. UNCHANGED <<to_proxy, future>>
    BY <1>13 DEF BeginSend, EndSend, FailSend, Return, FinishHandshake, Reraise, conn, env
  <2> QED BY <1>3, <1>4, <2>1
<1>14. CASE Admit \/ StartRelay \/ Delivered \/ Tick \/ Serve \/ Crash \/ UNCHANGED vars
  <2>1. UNCHANGED <<to_proxy, future>>
    BY <1>14 DEF Admit, StartRelay, Delivered, Tick, Serve, Crash, vars, conn, env
  <2> QED BY <1>3, <1>4, <2>1
<1>15. CASE StartHandshake \/ StartRequest \/ \E c \in Pingers : StartPing(c)
  BY <1>5, <1>15, CallersAssumption DEF StartHandshake, StartRequest, StartPing, Pingers
<1> QED
  BY <1>5, <1>7, <1>8, <1>9, <1>10, <1>11, <1>12, <1>13, <1>14, <1>15
     DEF Next, CallerStep, ReaderStep

-----------------------------------------------------------------------------
(* What a step of the connection is to the contract: the outcome of one      *)
(* request, an execution, an issue or nothing.                               *)
LEMMA StepKeepsContract ==
  ASSUME IndInv, OncePart, AnswersOnly, [Next]_vars
  PROVE  [Contract!Next]_(Contract!vars)
<1> DEFINE issued == 1..next_id
<1>0. TypeOK /\ OwnIds /\ AnswersOwn /\ next_id \in Nat
  BY BoundsAssumption DEF IndInv, TypeOK
<1>1. ASSUME UNCHANGED <<next_id, executed, outcome>>
      PROVE  UNCHANGED Contract!vars
  BY <1>1 DEF Contract!vars
<1>2. ASSUME NEW c \in Callers, Register(c)
      PROVE  Contract!Next
  <2>1. /\ next_id + 1 \in Ids /\ next_id + 1 \notin 1..next_id
        /\ 1..next_id' = (1..next_id) \cup {next_id + 1}
        /\ UNCHANGED <<executed, outcome>>
    BY <1>0, <1>2, BoundsAssumption DEF Register, env, history
  <2> QED BY <2>1 DEF Contract!Next, Contract!Issue
<1>3. ASSUME NEW c \in Callers, InRequest(c), NEW b, Raise(c, b), UNCHANGED <<next_id, executed>>
      PROVE  Contract!Next
  <2>1. cur[c] \in Ids /\ cur[c] \in 1..next_id /\ outcome[cur[c]] = "none"
    BY <1>0, <1>3 DEF OwnIds, OncePart, TypeOK
  <2>2. outcome' = [outcome EXCEPT ![cur[c]] = "error"]
    BY <1>3 DEF Raise
  <2> QED BY <1>3, <2>1, <2>2 DEF Contract!Next, Contract!Fail
<1>4. ASSUME NEW c \in Callers, pc[c] = "awaiting", future[cur[c]].kind \in MessageKind,
             Succeed(c), UNCHANGED <<next_id, executed>>
      PROVE  Contract!Next
  <2>1. InRequest(c) /\ cur[c] \in Ids /\ outcome[cur[c]] = "none"
    BY <1>0, <1>4 DEF OwnIds, InRequest, OncePart, TypeOK
  <2>2. executed[cur[c]] = 1
    <3>1. executed[cur[c]] > 0
      BY <1>0, <1>4, <2>1 DEF AnswersOnly, AnswersOwn
    <3> QED BY <2>1, <3>1 DEF OncePart
  <2>3. outcome' = [outcome EXCEPT ![cur[c]] = "ok"]
    BY <1>4 DEF Succeed
  <2> QED BY <1>4, <2>1, <2>2, <2>3 DEF Contract!Next, Contract!Return
<1>5. ASSUME NEW c \in Callers, CallerStep(c)
      PROVE  [Contract!Next]_(Contract!vars)
  <2>1. CASE BeginSend(c) \/ EndSend(c) \/ Expire(c) \/ (FailSend(c) /\ cur[c] = NoId)
    BY <1>1, <2>1 DEF BeginSend, EndSend, Expire, FailSend, conn, env, history
  <2>2. CASE FailSend(c) /\ cur[c] # NoId
    BY <1>3, <2>2 DEF FailSend, InRequest, conn, env
  <2>3. CASE Return(c)
    BY <1>4, <2>3 DEF Return, conn, env
  <2>4. CASE FinishHandshake(c)
    <3>1. pc[c] = "awaiting" /\ InRequest(c) /\ future[cur[c]].kind \in MessageKind
          /\ UNCHANGED <<next_id, executed>>
      BY <1>0, <2>4 DEF FinishHandshake, InRequest, OwnIds, conn
    <3>2. Succeed(c) \/ Raise(c, Succeeded(breaker))
      BY <2>4 DEF FinishHandshake
    <3> QED BY <1>3, <1>4, <3>1, <3>2
  <2>5. CASE Reraise(c)
    <3>1. InRequest(c)
      BY <1>0, <2>5 DEF Reraise, InRequest, OwnIds
    <3> QED BY <1>3, <2>5, <3>1 DEF Reraise, env
  <2> QED BY <1>5, <2>1, <2>2, <2>3, <2>4, <2>5 DEF CallerStep
<1>6. CASE Serve
  <2>1. CASE Head(to_backend) = NoId
    BY <1>1, <1>6, <2>1 DEF Serve, conn, history
  <2>2. CASE Head(to_backend) # NoId
    <3> DEFINE i == Head(to_backend)
    <3>1. /\ i \in Ids /\ i = to_backend[1] /\ 1 \in 1..Len(to_backend)
          /\ executed' = [executed EXCEPT ![i] = @ + 1]
          /\ UNCHANGED <<next_id, outcome>>
      BY <1>0, <1>6, <2>2 DEF Serve, TypeOK, conn, history
    <3>2. Queued(i)
      BY <3>1 DEF Queued
    <3>3. executed[i] = 0 /\ i \in 1..next_id
      BY <3>1, <3>2 DEF OncePart
    <3>4. executed' = [executed EXCEPT ![i] = 1]
      BY <3>1, <3>3
    <3> HIDE DEF i
    <3> QED BY <3>1, <3>3, <3>4 DEF Contract!Next, Contract!Execute
  <2> QED BY <2>1, <2>2
<1>7. CASE Admit \/ StartRelay \/ ReaderStep \/ Close \/ Tick \/ Speak \/ Crash \/ UNCHANGED vars
  BY <1>1, <1>7
     DEF Admit, StartRelay, ReaderStep, Resolve, Deliver, Delivered, EndReader, StopReader, Close,
         Tick, Speak, Crash, vars, conn, callers, env, history
<1>8. ASSUME NEW i \in Ids, Answer(i) PROVE [Contract!Next]_(Contract!vars)
  BY <1>1, <1>8 DEF Answer, conn, history
<1>9. CASE StartHandshake \/ StartRequest \/ \E c \in Pingers : StartPing(c)
  BY <1>2, <1>9, CallersAssumption DEF StartHandshake, StartRequest, StartPing, Pingers
<1> QED BY <1>5, <1>6, <1>7, <1>8, <1>9 DEF Next

(* KeepsContract: whatever the callers, the timers, the breaker and the      *)
(* backend do, a request is executed at most once, returns only if it was    *)
(* executed, and has one outcome. A backend that uses ids of the proxy's for *)
(* requests of its own is excluded: the read loop would take such a request  *)
(* for the answer.                                                           *)
THEOREM Refinement == ASSUME ServerIds = {} PROVE Spec => KeepsContract
<1>1. Init => Contract!Init
  BY DEF Init, Contract!Init
<1>2. Init => OncePart /\ AnswersOnly
  BY DEF Init, OncePart, Queued, AnswersOnly, InRequest, NoMessage, MessageKind
<1>3. IndInv /\ OncePart /\ AnswersOnly /\ [Next]_vars => OncePart' /\ AnswersOnly'
  BY OnceNext, AnswersOnlyNext DEF IndInv
<1>4. IndInv /\ OncePart /\ AnswersOnly /\ [Next]_vars => [Contract!Next]_(Contract!vars)
  BY StepKeepsContract
<1> QED BY <1>1, <1>2, <1>3, <1>4, Invariance, PTL DEF Spec, KeepsContract, Contract!Spec
=============================================================================
