-------------------------- MODULE LocalWorkProofs --------------------------
(* Theorems about LocalWork for every set of calls and tasks, every cap,    *)
(* deadline and drain window, whatever the handlers and the client do.      *)
EXTENDS LocalWork, FiniteSetTheorems, SequenceTheorems, TLAPS

(* Whoever waits is in the queue, and whoever writes to the client heads it. *)
WaitersQueued ==
  /\ \A c \in Calls : pc[c] = "created" => \E i \in DOMAIN slot_queue : slot_queue[i] = c
  /\ \A c \in Calls : pc[c] = "sending" => \E i \in DOMAIN client_lock : client_lock[i] = c
  /\ loop = "replying" => reply # <<>> /\ \E i \in DOMAIN client_lock : client_lock[i] = Loop

WritersHead ==
  /\ \A c \in Calls : pc[c] = "writing" => client_lock # <<>> /\ client_lock[1] = c
  /\ loop = "writing" => client_lock # <<>> /\ client_lock[1] = Loop

(* A task passes through "created" and "running" only.                       *)
TaskStates == \A t \in Tasks : pc[t] \in {"none", "created", "running", "done"}

(* What the drain waits for is all that was alive when it began, but for the *)
(* tasks that the client cancelled.                                          *)
DrainCovers ==
  loop \in {"draining", "unwinding"} => Live(Work) \subseteq drained \cup (abandoned \cap Tasks)

(* A call has not been answered before its response is being written; one    *)
(* that is given up in a pool without a deadline will unwind.                *)
AnswersCounted ==
  \A c \in Calls :
    /\ responses[c] \in {0, 1}
    /\ pc[c] \notin {"writing", "done"} => responses[c] = 0
    /\ idle = 0 => pc[c] \notin Handling \ {"running"}
    /\ idle = 0 /\ c \in abandoned =>
         responses[c] = 0 /\ (pc[c] = "done" \/ c \in cancelling)

(* What the client was last told of a task, or is about to be told, is final *)
(* only if it is what the store says.                                        *)
ToldIsCurrent ==
  /\ \A t \in Tasks : told[t] \in Terminal => status[t] = told[t]
  /\ loop = "replying" =>
       /\ reply[2] \in Terminal => status[reply[1]] = reply[2]
       /\ told[reply[1]] \in Terminal => reply[2] = told[reply[1]]

IndInv ==
  /\ TypeOK /\ TaskStates /\ WaitersQueued /\ WritersHead
  /\ IsFiniteSet(slots) /\ SlotsAccounted /\ InFlightAgrees
  /\ LiveWorkReachable /\ DrainCovers /\ DrainLeavesNone
  /\ AnswersCounted /\ ToldIsCurrent

-----------------------------------------------------------------------------
(* The steps, by what takes them.                                            *)
CallStep(c) ==
  \/ Spawn(c) \/ CallCancel(c) \/ Progress(c)
  \/ Enter(c) \/ HandlerEnds(c) \/ HandlerStops(c) \/ Wake(c) \/ Expire(c) \/ GiveUp(c) \/ TimesOut(c)
  \/ Write(c) \/ Written(c) \/ Unwind(c)

States == {"created", "sending", "writing"} \cup Handling \cup Ended

USE DEF Handling, Ended, States

TaskStep(t) ==
  \/ Originate(t) \/ TaskGet(t) \/ TaskCancel(t)
  \/ TaskStarts(t) \/ TaskEnds(t) \/ TaskUnwinds(t)

ServeStep == LoopWrites \/ LoopWritten \/ LoopFails \/ Drain \/ WindowEnds \/ Unwound

LEMMA NextSplit ==
  ASSUME [Next]_vars
  PROVE  /\ UNCHANGED config
         /\ \/ \E c \in Calls : CallStep(c)
            \/ \E t \in Tasks : TaskStep(t)
            \/ \E w \in Work : Absorb(w) \/ Reap(w)
            \/ ServeStep \/ Tick \/ UNCHANGED vars
BY DEF Next, Step, LoopStep, ClientActs, CallStep, TaskStep, ServeStep, Tick, vars

(* A call that concludes leaves the registry, and either ends or queues for  *)
(* the client's lock.                                                        *)
LEMMA ConcludeEffect ==
  ASSUME NEW c \in Calls, NEW o, Conclude(c, o)
  PROVE  /\ inflight' = inflight \ {c}
         /\ left' = [left EXCEPT ![c] = 0]
         /\ timer' = [timer EXCEPT ![c] = 0]
         /\ outcome' = [outcome EXCEPT ![c] = "none"]
         /\ \/ /\ pc' = [pc EXCEPT ![c] = "done"] /\ slots' = slots \ {c}
               /\ UNCHANGED client_lock
            \/ /\ pc' = [pc EXCEPT ![c] = "sending"] /\ UNCHANGED slots
               /\ client_lock' = Append(client_lock, c)
         /\ UNCHANGED <<ends, slot_queue, tables, seen>>
BY DEF Conclude

(* The end of a handler concludes its call, or leaves that to wait_for.      *)
LEMMA HandlerEffect ==
  ASSUME NEW c \in Calls, HandlerEnds(c)
  PROVE  /\ pc[c] = "running" /\ UNCHANGED cancelling
         /\ \/ idle = 0 /\ c \notin cancelling /\ \E o : Conclude(c, o)
            \/ /\ idle > 0 /\ pc' = [pc EXCEPT ![c] = "finished"]
               /\ \E o \in {"returned", "raised"} : outcome' = [outcome EXCEPT ![c] = o]
               /\ UNCHANGED <<ends, slot_queue, slots, inflight, left, timer, tables, client_lock, seen>>
BY DEF HandlerEnds, HandlerOutcome

(* A cancelled handler is waited for, and ends, in the slot of its call.     *)
Waits(c) == HandlerStops(c) \/ Expire(c) \/ GiveUp(c)

LEMMA WaitEffect ==
  ASSUME NEW c \in Calls, Waits(c)
  PROVE  /\ pc[c] \in Handling
         /\ UNCHANGED pc \/ (idle > 0 /\ \E s \in {"expiring", "leaving"} : pc' = [pc EXCEPT ![c] = s])
         /\ UNCHANGED outcome \/ \E o \in {"returned", "raised", "cancelled"} : outcome' = [outcome EXCEPT ![c] = o]
         /\ UNCHANGED <<ends, slot_queue, slots, inflight, left, timer, tables, client_lock, seen>>
BY DEF Waits, HandlerStops, Expire, GiveUp, CancelHandler, HandlerOutcome, pool

(* A queue that is left by one of its members, or joined by another, keeps   *)
(* its order.                                                                *)
Sits(queue, w) == \E i \in DOMAIN queue : queue[i] = w

LEMMA LeaveKeeps ==
  ASSUME NEW S, NEW q \in Seq(S), NEW w
  PROVE  /\ Leave(q, w) \in Seq(S)
         /\ \A d : d # w /\ Sits(q, d) => Sits(Leave(q, w), d)
         /\ q # <<>> /\ q[1] # w => Leave(q, w) # <<>> /\ Leave(q, w)[1] = q[1]
<1>1. CASE ~Sits(q, w)
  BY <1>1 DEF Leave, Sits
<1>2. CASE Sits(q, w)
  <2> DEFINE i == CHOOSE i \in DOMAIN q : q[i] = w
             r == Leave(q, w)
  <2>1. i \in 1..Len(q) /\ q[i] = w /\ Len(q) \in Nat
    BY <1>2 DEF Sits
  <2>2. r = SubSeq(q, 1, i - 1) \o SubSeq(q, i + 1, Len(q))
    BY <1>2 DEF Leave, RemoveAt, Sits
  <2>3. /\ SubSeq(q, 1, i - 1) \in Seq(S) /\ Len(SubSeq(q, 1, i - 1)) = i - 1
        /\ \A k \in 1..(i - 1) : SubSeq(q, 1, i - 1)[k] = q[k]
    BY <2>1
  <2>4. /\ SubSeq(q, i + 1, Len(q)) \in Seq(S) /\ Len(SubSeq(q, i + 1, Len(q))) = Len(q) - i
        /\ \A k \in 1..(Len(q) - i) : SubSeq(q, i + 1, Len(q))[k] = q[i + k]
    BY <2>1
  <2> DEFINE before == SubSeq(q, 1, i - 1)
             after == SubSeq(q, i + 1, Len(q))
  <2> HIDE DEF i, r, before, after
  <2>5. /\ r \in Seq(S) /\ Len(r) = Len(q) - 1
        /\ \A k \in 1..(i - 1) : r[k] = q[k]
        /\ \A k \in i..(Len(q) - 1) : r[k] = q[k + 1]
    <3>0. /\ r = before \o after
          /\ before \in Seq(S) /\ Len(before) = i - 1 /\ \A k \in 1..(i - 1) : before[k] = q[k]
          /\ after \in Seq(S) /\ Len(after) = Len(q) - i /\ \A k \in 1..(Len(q) - i) : after[k] = q[i + k]
      BY <2>2, <2>3, <2>4 DEF before, after
    <3>1. /\ r \in Seq(S) /\ Len(r) = Len(q) - 1
          /\ \A k \in 1..Len(r) : r[k] = IF k <= i - 1 THEN before[k] ELSE after[k - (i - 1)]
      <4>1. /\ before \o after \in Seq(S) /\ Len(before \o after) = Len(before) + Len(after)
            /\ \A k \in 1..(Len(before) + Len(after)) :
                 (before \o after)[k] = IF k <= Len(before) THEN before[k] ELSE after[k - Len(before)]
        BY <3>0, ConcatProperties
      <4>2. Len(before) + Len(after) = Len(q) - 1
        BY <2>1, <3>0
      <4> QED BY <3>0, <4>1, <4>2
    <3>2. \A k \in 1..(i - 1) : r[k] = q[k]
      BY <2>1, <3>0, <3>1
    <3>3. ASSUME NEW k \in i..(Len(q) - 1) PROVE r[k] = q[k + 1]
      <4>1. r[k] = after[k - (i - 1)]
        BY <2>1, <3>1
      <4>2. k - (i - 1) \in 1..(Len(q) - i) /\ i + (k - (i - 1)) = k + 1
        BY <2>1
      <4> QED BY <3>0, <4>1, <4>2
    <3> QED BY <3>1, <3>2, <3>3
  <2>6. ASSUME NEW d, d # w, Sits(q, d)
        PROVE  Sits(r, d)
    <3>1. PICK k \in 1..Len(q) : q[k] = d
      BY <2>6 DEF Sits
    <3>2. CASE k < i
      BY <2>1, <2>5, <3>1, <3>2 DEF Sits
    <3>3. CASE k > i
      <4>1. k - 1 \in i..(Len(q) - 1) /\ k - 1 \in 1..Len(r) /\ (k - 1) + 1 = k
        BY <2>1, <2>5, <3>3
      <4>2. r[k - 1] = d
        BY <2>5, <3>1, <4>1
      <4> QED BY <2>5, <4>1, <4>2 DEF Sits
    <3> QED BY <2>1, <2>6, <3>1, <3>2, <3>3
  <2>7. ASSUME q # <<>>, q[1] # w
        PROVE  r # <<>> /\ r[1] = q[1]
    <3>1. i > 1 /\ Len(r) >= 1 /\ 1 \in 1..(i - 1)
      BY <2>1, <2>5, <2>7
    <3> QED BY <2>5, <3>1
  <2> QED BY <2>5, <2>6, <2>7 DEF r
<1> QED BY <1>1, <1>2

LEMMA JoinKeeps ==
  ASSUME NEW S, NEW q \in Seq(S), NEW w \in S
  PROVE  /\ Append(q, w) \in Seq(S) /\ Sits(Append(q, w), w)
         /\ \A d : Sits(q, d) => Sits(Append(q, w), d)
         /\ q # <<>> => Append(q, w) # <<>> /\ Append(q, w)[1] = q[1]
<1> DEFINE r == Append(q, w)
<1>1. /\ r \in Seq(S) /\ Len(r) = Len(q) + 1 /\ Len(q) \in Nat
      /\ r[Len(q) + 1] = w /\ \A k \in 1..Len(q) : r[k] = q[k]
  BY AppendProperties
<1> HIDE DEF r
<1>2. Sits(r, w) /\ \A d : Sits(q, d) => Sits(r, d)
  BY <1>1 DEF Sits
<1>3. q # <<>> => r # <<>> /\ r[1] = q[1]
  BY <1>1
<1> QED BY <1>1, <1>2, <1>3 DEF r

LEMMA TailKeeps ==
  ASSUME NEW S, NEW q \in Seq(S), q # <<>>
  PROVE  /\ Tail(q) \in Seq(S)
         /\ \A d : d # q[1] /\ Sits(q, d) => Sits(Tail(q), d)
<1>1. /\ Tail(q) \in Seq(S) /\ Len(Tail(q)) = Len(q) - 1 /\ Len(q) \in Nat
      /\ \A i \in 1..Len(Tail(q)) : Tail(q)[i] = q[i + 1]
  BY HeadTailProperties
<1>2. ASSUME NEW d, d # q[1], Sits(q, d)
      PROVE  Sits(Tail(q), d)
  <2>1. PICK k \in 1..Len(q) : q[k] = d
    BY <1>2 DEF Sits
  <2>2. k - 1 \in 1..Len(Tail(q)) /\ (k - 1) + 1 = k /\ DOMAIN Tail(q) = 1..Len(Tail(q))
    BY <1>1, <1>2, <2>1
  <2>3. Tail(q)[k - 1] = d
    BY <1>1, <2>1, <2>2
  <2> QED BY <2>2, <2>3 DEF Sits
<1> QED BY <1>1, <1>2

-----------------------------------------------------------------------------
(* Types and the two queues.                                                 *)
LEMMA TypesOfConclude ==
  ASSUME TypeOK, NEW c \in Calls, NEW o, Conclude(c, o), UNCHANGED config, cancelling' \subseteq Work
  PROVE  TypeOK'
<1>1. /\ inflight' \subseteq Calls /\ slots' \subseteq Calls
      /\ left' \in [Calls -> 0..idle] /\ timer' \in [Calls -> 0..idle]
      /\ outcome' \in [Calls -> {"none", "returned", "raised", "cancelled"}]
  <2>1. 0 \in 0..idle
    BY PoolAssumption DEF TypeOK
  <2>2. inflight' \subseteq Calls /\ slots' \subseteq Calls
    BY ConcludeEffect DEF TypeOK
  <2>3. left' \in [Calls -> 0..idle] /\ timer' \in [Calls -> 0..idle]
    <3>1. left' = [left EXCEPT ![c] = 0] /\ timer' = [timer EXCEPT ![c] = 0]
      BY ConcludeEffect
    <3>2. left \in [Calls -> 0..idle] /\ timer \in [Calls -> 0..idle]
      BY DEF TypeOK
    <3> QED BY <2>1, <3>1, <3>2
  <2>4. outcome' \in [Calls -> {"none", "returned", "raised", "cancelled"}]
    BY ConcludeEffect DEF TypeOK
  <2> QED BY <2>2, <2>3, <2>4
<1>2. pc' \in [Work -> States]
  BY ConcludeEffect DEF TypeOK
<1>3. client_lock' \in Seq(Calls \cup {Loop})
  <2>1. Append(client_lock, c) \in Seq(Calls \cup {Loop})
    BY DEF TypeOK
  <2> QED BY <2>1, ConcludeEffect DEF TypeOK
<1> QED BY <1>1, <1>2, <1>3, ConcludeEffect DEF TypeOK, config, ends, tables, seen

LEMMA TypesOfCall ==
  ASSUME TypeOK, WaitersQueued, WritersHead, NEW c \in Calls, CallStep(c), UNCHANGED config
  PROVE  TypeOK'
<1> USE DEF config, ends, pool, tables, seen
<1>0. idle \in Nat /\ 0 \in 0..idle /\ idle \in 0..idle /\ c \in Work
  BY PoolAssumption DEF TypeOK, Work
<1>1. CASE Spawn(c)
  BY <1>0, <1>1 DEF Spawn, TypeOK
<1>2. CASE CallCancel(c)
  BY <1>0, <1>2 DEF CallCancel, Cancelled, TypeOK
<1>3. CASE Progress(c)
  BY <1>0, <1>3 DEF Progress, TypeOK
<1>4. CASE Enter(c)
  <2>1. slot_queue # <<>>
    BY <1>4 DEF Enter, WaitersQueued, TypeOK
  <2>2. Tail(slot_queue) \in Seq(Calls)
    BY <2>1 DEF TypeOK
  <2> QED BY <1>0, <1>4, <2>2 DEF Enter, TypeOK
<1>5. CASE HandlerEnds(c)
  <2>1. CASE \E o : Conclude(c, o)
    BY <1>5, <2>1, HandlerEffect, TypesOfConclude DEF TypeOK
  <2>2. CASE ~(\E o : Conclude(c, o))
    <3>1. /\ pc' = [pc EXCEPT ![c] = "finished"] /\ UNCHANGED cancelling
          /\ \E o \in {"returned", "raised"} : outcome' = [outcome EXCEPT ![c] = o]
          /\ UNCHANGED <<ends, slot_queue, slots, inflight, left, timer, tables, client_lock, seen>>
      BY <1>5, <2>2, HandlerEffect
    <3> QED BY <1>0, <3>1 DEF TypeOK
  <2> QED BY <2>1, <2>2
<1>6. CASE Wake(c)
  BY <1>6, TypesOfConclude DEF Wake, TypeOK
<1>7. CASE TimesOut(c)
  BY <1>7, TypesOfConclude DEF TimesOut, TypeOK
<1>11. CASE Waits(c)
  <2>1. cancelling' \subseteq Work
    BY <1>11 DEF Waits, HandlerStops, Expire, GiveUp, TypeOK
  <2>2. pc' \in [Work -> States]
    <3>1. UNCHANGED pc \/ \E s \in {"expiring", "leaving"} : pc' = [pc EXCEPT ![c] = s]
      BY <1>11, WaitEffect
    <3> QED BY <1>0, <3>1 DEF TypeOK
  <2>3. outcome' \in [Calls -> {"none", "returned", "raised", "cancelled"}]
    <3>1. UNCHANGED outcome \/ \E o \in {"returned", "raised", "cancelled"} : outcome' = [outcome EXCEPT ![c] = o]
      BY <1>11, WaitEffect
    <3> QED BY <3>1 DEF TypeOK
  <2> QED BY <1>11, <2>1, <2>2, <2>3, WaitEffect DEF TypeOK
<1>8. CASE Write(c)
  BY <1>0, <1>8 DEF Write, TypeOK
<1>9. CASE Written(c)
  <2>1. Tail(client_lock) \in Seq(Calls \cup {Loop})
    BY <1>9 DEF Written, WritersHead, TypeOK
  <2> QED BY <1>0, <1>9, <2>1 DEF Written, TypeOK
<1>10. CASE Unwind(c)
  <2>1. Leave(slot_queue, c) \in Seq(Calls) /\ Leave(client_lock, c) \in Seq(Calls \cup {Loop})
    BY LeaveKeeps DEF TypeOK
  <2> QED BY <1>0, <1>10, <2>1 DEF Unwind, TypeOK
<1> QED BY <1>1, <1>2, <1>3, <1>4, <1>5, <1>6, <1>7, <1>8, <1>9, <1>10, <1>11 DEF CallStep, Waits

LEMMA SettleTypes ==
  ASSUME TypeOK, NEW t \in Tasks, NEW s \in Terminal
  PROVE  /\ Settle(t, s) \in [Tasks -> {"none", "working"} \cup Terminal]
         /\ \A u \in Tasks : status[u] # "working" => Settle(t, s)[u] = status[u]
         /\ status[t] # "none" => Settle(t, s)[t] \in Terminal
BY DEF Settle, TypeOK, Terminal

LEMMA TypesOfTask ==
  ASSUME TypeOK, NEW t \in Tasks, TaskStep(t), UNCHANGED config
  PROVE  TypeOK'
<1> USE DEF config, ends, pool, tables, seen
<1>0. /\ t \in Work /\ Append(client_lock, Loop) \in Seq(Calls \cup {Loop})
      /\ {"completed", "failed", "cancelled"} = Terminal
  BY DEF TypeOK, Work, Terminal
<1>1. CASE Originate(t)
  <2>1. reply' \in {<<>>} \cup (Tasks \X ({"working"} \cup Terminal))
    BY <1>1 DEF Originate, Tell
  <2> QED BY <1>0, <1>1, <2>1 DEF Originate, Tell, TypeOK
<1>2. CASE TaskGet(t)
  <2>1. reply' \in {<<>>} \cup (Tasks \X ({"working"} \cup Terminal))
    BY <1>2 DEF TaskGet, Tell, TypeOK
  <2> QED BY <1>0, <1>2, <2>1 DEF TaskGet, Tell, TypeOK
<1>3. CASE TaskCancel(t)
  <2>1. status' \in [Tasks -> {"none", "working"} \cup Terminal] /\ status'[t] \in Terminal
    BY <1>0, <1>3, SettleTypes DEF TaskCancel
  <2>2. reply' \in {<<>>} \cup (Tasks \X ({"working"} \cup Terminal))
    BY <1>3, <2>1 DEF TaskCancel, Tell
  <2>3. cancelling' \subseteq Work
    BY <1>0, <1>3 DEF TaskCancel, Cancelled, TypeOK
  <2> QED BY <1>0, <1>3, <2>1, <2>2, <2>3 DEF TaskCancel, Tell, TypeOK
<1>4. CASE TaskStarts(t)
  BY <1>0, <1>4 DEF TaskStarts, TypeOK
<1>5. CASE TaskEnds(t)
  <2>1. status' \in [Tasks -> {"none", "working"} \cup Terminal]
    BY <1>0, <1>5, SettleTypes DEF TaskEnds
  <2> QED BY <1>0, <1>5, <2>1 DEF TaskEnds, TypeOK
<1>6. CASE TaskUnwinds(t)
  <2>1. status' \in [Tasks -> {"none", "working"} \cup Terminal]
    BY <1>0, <1>6, SettleTypes DEF TaskUnwinds, TypeOK
  <2> QED BY <1>0, <1>6, <2>1 DEF TaskUnwinds, TypeOK
<1> QED BY <1>1, <1>2, <1>3, <1>4, <1>5, <1>6 DEF TaskStep

LEMMA TypeNext ==
  ASSUME TypeOK, WaitersQueued, WritersHead, [Next]_vars
  PROVE  TypeOK'
<1> USE DEF config, ends, pool, tables, seen
<1>0. UNCHANGED config
  BY NextSplit
<1>1. ASSUME NEW w \in Work, Absorb(w) \/ Reap(w) PROVE TypeOK'
  BY <1>0, <1>1 DEF Absorb, Reap, TypeOK
<1>2. CASE ServeStep
  <2>1. CASE LoopWrites
    <3>1. reply[1] \in Tasks /\ reply[2] \in {"working"} \cup Terminal
      BY <2>1 DEF LoopWrites, WaitersQueued, TypeOK
    <3> QED BY <1>0, <2>1, <3>1 DEF LoopWrites, TypeOK
  <2>2. CASE LoopWritten
    <3>1. Tail(client_lock) \in Seq(Calls \cup {Loop})
      BY <2>2 DEF LoopWritten, WritersHead, TypeOK
    <3> QED BY <1>0, <2>2, <3>1 DEF LoopWritten, TypeOK
  <2>3. CASE LoopFails \/ Unwound
    BY <1>0, <2>3 DEF LoopFails, Unwound, TypeOK
  <2>4. CASE Drain
    BY <1>0, <2>4 DEF Drain, Cancelled, TypeOK, Work
  <2>5. CASE WindowEnds
    BY <1>0, <2>5 DEF WindowEnds, Cancelled, Live, TypeOK
  <2> QED BY <1>2, <2>1, <2>2, <2>3, <2>4, <2>5 DEF ServeStep
<1>3. CASE Tick
  <2>1. idle \in Nat
    BY PoolAssumption DEF TypeOK
  <2>2. left' \in [Calls -> 0..idle] /\ timer' \in [Calls -> 0..idle]
    <3>1. \A n \in 0..idle : (IF n > 0 THEN n - 1 ELSE 0) \in 0..idle
      BY <2>1
    <3>2. left \in [Calls -> 0..idle] /\ timer \in [Calls -> 0..idle]
      BY DEF TypeOK
    <3> QED BY <1>3, <3>1, <3>2 DEF Tick
  <2> QED BY <1>0, <1>3, <2>2 DEF Tick, TypeOK
<1>4. CASE UNCHANGED vars
  BY <1>4 DEF vars, TypeOK
<1> QED BY <1>0, <1>1, <1>2, <1>3, <1>4, NextSplit, TypesOfCall, TypesOfTask

(* Steps that leave the queues alone, start no wait and no write.            *)
LEMMA QueueFrame ==
  ASSUME WaitersQueued, WritersHead, UNCHANGED <<slot_queue, client_lock>>,
         \A d \in Calls : pc'[d] = pc[d] \/ pc'[d] \in {"done"} \cup Handling,
         (loop' = loop /\ reply' = reply) \/ loop' \notin {"replying", "writing"}
  PROVE  WaitersQueued' /\ WritersHead'
BY DEF WaitersQueued, WritersHead

LEMMA QueueOfCall ==
  ASSUME TypeOK, WaitersQueued, WritersHead, NEW c \in Calls, CallStep(c)
  PROVE  WaitersQueued' /\ WritersHead'
<1> USE DEF ends, pool, tables, seen
<1>0. /\ \A d \in Calls : d \in Work /\ d # Loop
      /\ slot_queue \in Seq(Calls) /\ client_lock \in Seq(Calls \cup {Loop})
      /\ c \in Calls \cup {Loop}
  BY WorkAssumption DEF Work, TypeOK
<1>1. /\ \A d \in Calls : pc[d] = "created" => Sits(slot_queue, d)
      /\ \A d \in Calls : pc[d] = "sending" => Sits(client_lock, d)
      /\ loop = "replying" => reply # <<>> /\ Sits(client_lock, Loop)
  BY DEF WaitersQueued, Sits
<1>2. ASSUME /\ \A d \in Calls : pc'[d] = "created" => Sits(slot_queue', d)
             /\ \A d \in Calls : pc'[d] = "sending" => Sits(client_lock', d)
             /\ loop = "replying" => Sits(client_lock', Loop)
             /\ UNCHANGED <<loop, reply>>
      PROVE  WaitersQueued'
  BY <1>1, <1>2 DEF WaitersQueued, Sits
<1>3. CASE Spawn(c)
  <2>1. /\ Sits(slot_queue', c) /\ \A d \in Calls : Sits(slot_queue, d) => Sits(slot_queue', d)
    BY <1>0, <1>3, JoinKeeps DEF Spawn
  <2>2. WaitersQueued'
    BY <1>0, <1>1, <1>2, <1>3, <2>1 DEF Spawn, TypeOK
  <2> QED BY <1>0, <1>3, <2>2 DEF Spawn, WritersHead, TypeOK
<1>4. CASE CallCancel(c) \/ Progress(c)
  BY <1>4, QueueFrame DEF CallCancel, Progress
<1>5. CASE Enter(c)
  <2>1. slot_queue # <<>> /\ slot_queue[1] = c
    BY <1>0, <1>1, <1>5 DEF Enter, Sits
  <2>2. \A d \in Calls : d # c /\ Sits(slot_queue, d) => Sits(slot_queue', d)
    BY <1>0, <1>5, <2>1, TailKeeps DEF Enter
  <2>3. WaitersQueued'
    BY <1>0, <1>1, <1>2, <1>5, <2>2 DEF Enter, TypeOK
  <2> QED BY <1>0, <1>5, <2>3 DEF Enter, WritersHead, TypeOK
<1>6. ASSUME NEW o, Conclude(c, o), pc[c] \in Handling
      PROVE  WaitersQueued' /\ WritersHead'
  <2>1. CASE pc' = [pc EXCEPT ![c] = "done"] /\ UNCHANGED client_lock
    BY <1>0, <1>6, <2>1, ConcludeEffect, QueueFrame DEF TypeOK
  <2>2. CASE pc' = [pc EXCEPT ![c] = "sending"] /\ client_lock' = Append(client_lock, c)
    <3>1. /\ Sits(client_lock', c) /\ \A d : Sits(client_lock, d) => Sits(client_lock', d)
          /\ client_lock # <<>> => client_lock' # <<>> /\ client_lock'[1] = client_lock[1]
      BY <1>0, <2>2, JoinKeeps
    <3>2. UNCHANGED <<loop, reply, slot_queue>>
      BY <1>6, ConcludeEffect
    <3>3. WaitersQueued'
      BY <1>0, <1>1, <1>2, <2>2, <3>1, <3>2 DEF TypeOK
    <3> QED BY <1>0, <2>2, <3>1, <3>2, <3>3 DEF WritersHead, TypeOK
  <2> QED BY <1>6, <2>1, <2>2, ConcludeEffect
<1>7. CASE HandlerEnds(c)
  <2>1. CASE \E o : Conclude(c, o)
    BY <1>6, <1>7, <2>1, HandlerEffect
  <2>2. CASE ~(\E o : Conclude(c, o))
    BY <1>0, <1>7, <2>2, HandlerEffect, QueueFrame DEF TypeOK
  <2> QED BY <2>1, <2>2
<1>8. CASE Wake(c) \/ TimesOut(c)
  BY <1>6, <1>8 DEF Wake, TimesOut
<1>12. CASE Waits(c)
  BY <1>0, <1>12, WaitEffect, QueueFrame DEF TypeOK
<1>9. CASE Write(c)
  <2>1. client_lock # <<>> /\ client_lock[1] = c
    BY <1>0, <1>1, <1>9 DEF Write, Sits
  <2>2. WaitersQueued'
    BY <1>0, <1>1, <1>2, <1>9 DEF Write, TypeOK
  <2> QED BY <1>0, <1>9, <2>1, <2>2 DEF Write, WritersHead, TypeOK
<1>10. CASE Written(c)
  <2>1. client_lock # <<>> /\ client_lock[1] = c
    BY <1>10 DEF Written, WritersHead
  <2>2. \A d : d # c /\ Sits(client_lock, d) => Sits(client_lock', d)
    BY <1>0, <1>10, <2>1, TailKeeps DEF Written
  <2>3. WaitersQueued'
    BY <1>0, <1>1, <1>2, <1>10, <2>2 DEF Written, TypeOK
  <2>4. loop # "writing" /\ \A d \in Calls : pc[d] = "writing" => d = c
    BY <1>0, <2>1 DEF WritersHead
  <2> QED BY <1>0, <1>10, <2>3, <2>4 DEF Written, WritersHead, TypeOK
<1>11. CASE Unwind(c)
  <2>1. /\ \A d : d # c /\ Sits(slot_queue, d) => Sits(slot_queue', d)
        /\ \A d : d # c /\ Sits(client_lock, d) => Sits(client_lock', d)
        /\ client_lock # <<>> /\ client_lock[1] # c =>
             client_lock' # <<>> /\ client_lock'[1] = client_lock[1]
    BY <1>0, <1>11, LeaveKeeps DEF Unwind
  <2>2. WaitersQueued'
    BY <1>0, <1>1, <1>2, <1>11, <2>1 DEF Unwind, TypeOK
  <2> QED BY <1>0, <1>11, <2>1, <2>2 DEF Unwind, WritersHead, TypeOK
<1> QED BY <1>3, <1>4, <1>5, <1>7, <1>8, <1>9, <1>10, <1>11, <1>12 DEF CallStep, Waits

LEMMA QueueNext ==
  ASSUME TypeOK, WaitersQueued, WritersHead, [Next]_vars
  PROVE  WaitersQueued' /\ WritersHead'
<1> USE DEF ends, pool, tables, seen
<1>0. /\ \A d \in Calls : d \in Work /\ d # Loop /\ d \notin Tasks
      /\ client_lock \in Seq(Calls \cup {Loop})
  BY WorkAssumption DEF Work, TypeOK
<1>1. ASSUME NEW t \in Tasks, NEW s, Tell(t, s), UNCHANGED slot_queue, loop = "reading",
             \A d \in Calls : pc'[d] = pc[d]
      PROVE  WaitersQueued' /\ WritersHead'
  <2>1. /\ Sits(client_lock', Loop) /\ \A d : Sits(client_lock, d) => Sits(client_lock', d)
        /\ client_lock # <<>> => client_lock' # <<>> /\ client_lock'[1] = client_lock[1]
    BY <1>0, <1>1, JoinKeeps DEF Tell
  <2>2. loop' = "replying" /\ reply' # <<>>
    BY <1>1 DEF Tell
  <2>3. WaitersQueued'
    BY <1>1, <2>1, <2>2 DEF WaitersQueued, Sits
  <2> QED BY <1>1, <2>1, <2>2, <2>3 DEF WritersHead
<1>2. ASSUME NEW t \in Tasks, TaskStep(t) PROVE WaitersQueued' /\ WritersHead'
  <2>1. CASE Originate(t) \/ TaskGet(t) \/ TaskCancel(t)
    <3>1. /\ UNCHANGED slot_queue /\ loop = "reading" /\ \A d \in Calls : pc'[d] = pc[d]
      BY <1>0, <2>1 DEF Originate, TaskGet, TaskCancel, TypeOK
    <3>2. \E s : Tell(t, s)
      BY <2>1 DEF Originate, TaskGet, TaskCancel
    <3> QED BY <1>1, <3>1, <3>2
  <2>2. CASE TaskStarts(t) \/ TaskEnds(t) \/ TaskUnwinds(t)
    <3>1. UNCHANGED <<slot_queue, client_lock, loop, reply>> /\ \A d \in Calls : pc'[d] = pc[d]
      BY <1>0, <2>2 DEF TaskStarts, TaskEnds, TaskUnwinds, TypeOK
    <3> QED BY <3>1, QueueFrame
  <2> QED BY <1>2, <2>1, <2>2 DEF TaskStep
<1>3. CASE LoopWrites
  <2>1. client_lock # <<>> /\ client_lock[1] = Loop
    BY <1>0, <1>3 DEF LoopWrites, WaitersQueued
  <2> QED BY <1>3, <2>1 DEF LoopWrites, WaitersQueued, WritersHead
<1>4. CASE LoopWritten
  <2>1. client_lock # <<>> /\ client_lock[1] = Loop
    BY <1>4 DEF LoopWritten, WritersHead
  <2>2. \A d : d # Loop /\ Sits(client_lock, d) => Sits(client_lock', d)
    BY <1>0, <1>4, <2>1, TailKeeps DEF LoopWritten
  <2>3. WaitersQueued'
    BY <1>0, <1>4, <2>2 DEF LoopWritten, WaitersQueued, Sits
  <2> QED BY <1>0, <1>4, <2>1, <2>3 DEF LoopWritten, WritersHead
<1>5. CASE LoopFails \/ Drain \/ WindowEnds \/ Unwound
  <2>1. UNCHANGED <<slot_queue, client_lock, pc>> /\ loop' \notin {"replying", "writing"}
    BY <1>5 DEF LoopFails, Drain, WindowEnds, Unwound
  <2> QED BY <2>1, QueueFrame
<1>6. CASE Tick \/ UNCHANGED vars \/ \E w \in Work : Absorb(w) \/ Reap(w)
  BY <1>6, QueueFrame DEF Tick, Absorb, Reap, vars
<1> QED BY <1>2, <1>3, <1>4, <1>5, <1>6, NextSplit, QueueOfCall DEF ServeStep

-----------------------------------------------------------------------------
(* The books: slots and registry agree with where each call stands.          *)
Books == IsFiniteSet(slots) /\ SlotsAccounted /\ InFlightAgrees

(* A step that frees a slot at most.                                         *)
LEMMA BooksFrame ==
  ASSUME TypeOK, Books, slots' \subseteq slots,
         slots' = {d \in Calls : pc'[d] \in Handling \cup {"sending", "writing"}},
         inflight' = {d \in Calls : pc'[d] \in Handling}
  PROVE  Books'
<1>1. IsFiniteSet(slots') /\ Cardinality(slots') <= Cardinality(slots)
      /\ Cardinality(slots) \in Nat /\ Cardinality(slots') \in Nat
  BY FS_Subset, FS_CardinalityType DEF Books
<1> QED BY <1>1, PoolAssumption DEF Books, SlotsAccounted, InFlightAgrees

LEMMA BooksNext ==
  ASSUME TypeOK, Books, [Next]_vars
  PROVE  Books'
<1> USE DEF ends, pool, tables, seen
<1>0. /\ \A d \in Calls : d \in Work /\ d \notin Tasks
      /\ slots = {d \in Calls : pc[d] \in Handling \cup {"sending", "writing"}}
      /\ inflight = {d \in Calls : pc[d] \in Handling}
      /\ pc \in [Work -> States]
  BY WorkAssumption DEF Work, Books, SlotsAccounted, InFlightAgrees, TypeOK
<1>1. ASSUME UNCHANGED <<slots, inflight>>, \A d \in Calls : pc'[d] = pc[d]
      PROVE  Books'
  BY <1>0, <1>1, BooksFrame
<1>2. ASSUME NEW c \in Calls, NEW o, Conclude(c, o), pc[c] \in Handling
      PROVE  Books'
  <2>1. CASE pc' = [pc EXCEPT ![c] = "done"] /\ slots' = slots \ {c}
    BY <1>0, <1>2, <2>1, ConcludeEffect, BooksFrame
  <2>2. CASE pc' = [pc EXCEPT ![c] = "sending"] /\ UNCHANGED slots
    BY <1>0, <1>2, <2>2, ConcludeEffect, BooksFrame
  <2> QED BY <1>2, <2>1, <2>2, ConcludeEffect
<1>3. ASSUME NEW c \in Calls, CallStep(c) PROVE Books'
  <2>1. CASE Spawn(c)
    BY <1>0, <2>1, BooksFrame DEF Spawn
  <2>2. CASE CallCancel(c) \/ Progress(c)
    BY <1>1, <2>2 DEF CallCancel, Progress
  <2>3. CASE Enter(c)
    <3>1. /\ slots' = slots \cup {c} /\ inflight' = inflight \cup {c}
          /\ pc' = [pc EXCEPT ![c] = "running"] /\ pc[c] = "created"
          /\ Cap = 0 \/ Cardinality(slots) < Cap
      BY <2>3 DEF Enter, Admits
    <3>2. /\ c \notin slots /\ IsFiniteSet(slots) /\ Cardinality(slots) \in Nat
          /\ IsFiniteSet(slots') /\ Cardinality(slots') = Cardinality(slots) + 1
      BY <1>0, <3>1, FS_AddElement, FS_CardinalityType DEF Books
    <3>3. /\ slots' = {d \in Calls : pc'[d] \in Handling \cup {"sending", "writing"}}
          /\ inflight' = {d \in Calls : pc'[d] \in Handling}
      BY <1>0, <3>1
    <3>4. Cap > 0 => Cardinality(slots') <= Cap
      BY <3>1, <3>2, PoolAssumption
    <3> QED BY <3>2, <3>3, <3>4 DEF Books, SlotsAccounted, InFlightAgrees
  <2>4. CASE HandlerEnds(c)
    <3>1. CASE \E o : Conclude(c, o)
      BY <1>2, <2>4, <3>1, HandlerEffect
    <3>2. CASE ~(\E o : Conclude(c, o))
      <4>1. /\ pc[c] = "running" /\ pc' = [pc EXCEPT ![c] = "finished"]
            /\ UNCHANGED <<slots, inflight>>
        BY <2>4, <3>2, HandlerEffect
      <4> QED BY <1>0, <4>1, BooksFrame
    <3> QED BY <3>1, <3>2
  <2>5. CASE Wake(c) \/ TimesOut(c)
    BY <1>2, <2>5 DEF Wake, TimesOut
  <2>9. CASE Waits(c)
    BY <1>0, <2>9, WaitEffect, BooksFrame
  <2>6. CASE Write(c)
    BY <1>0, <2>6, BooksFrame DEF Write
  <2>7. CASE Written(c)
    BY <1>0, <2>7, BooksFrame DEF Written
  <2>8. CASE Unwind(c)
    BY <1>0, <2>8, BooksFrame DEF Unwind
  <2> QED BY <1>3, <2>1, <2>2, <2>3, <2>4, <2>5, <2>6, <2>7, <2>8, <2>9 DEF CallStep, Waits
<1>4. ASSUME NEW t \in Tasks, TaskStep(t) PROVE Books'
  BY <1>0, <1>1, <1>4
     DEF TaskStep, Originate, TaskGet, TaskCancel, TaskStarts, TaskEnds, TaskUnwinds
<1>5. CASE ServeStep
  BY <1>1, <1>5 DEF ServeStep, LoopWrites, LoopWritten, LoopFails, Drain, WindowEnds, Unwound
<1>6. CASE Tick \/ UNCHANGED vars \/ \E w \in Work : Absorb(w) \/ Reap(w)
  BY <1>1, <1>6 DEF Tick, Absorb, Reap, vars
<1> QED BY <1>3, <1>4, <1>5, <1>6, NextSplit

-----------------------------------------------------------------------------
(* What is alive can be reached, by a cancellation and by the drain.         *)
Reach == LiveWorkReachable /\ DrainCovers /\ DrainLeavesNone

(* Outside of the loop's reading nothing comes to life; elsewhere only what  *)
(* the tables hold does.                                                     *)
LEMMA ReachFrame ==
  ASSUME TypeOK, Reach, Live(Work)' \subseteq Live(Work),
         pool_tasks \cup handles \subseteq pool_tasks' \cup handles' \cup (Work \ Live(Work)'),
         abandoned \cap Tasks \subseteq abandoned',
         UNCHANGED <<loop, drained>>
  PROVE  Reach'
BY DEF Reach, LiveWorkReachable, DrainCovers, DrainLeavesNone

LEMMA ReachNext ==
  ASSUME TypeOK, TaskStates, Reach, [Next]_vars
  PROVE  Reach'
<1> USE DEF ends, pool, tables, seen
<1>0. /\ \A d \in Calls : d \in Work /\ d \notin Tasks
      /\ \A t \in Tasks : t \in Work /\ t \notin Calls
      /\ pc \in [Work -> States]
      /\ pool_tasks \subseteq Calls /\ handles \subseteq Tasks
      /\ Work = Calls \cup Tasks
  BY WorkAssumption DEF Work, TypeOK
<1>1. ASSUME \A w \in Work : pc'[w] = pc[w] \/ pc[w] \notin Ended \/ pc'[w] \in Ended
      PROVE  Live(Work)' \subseteq Live(Work)
  BY <1>1 DEF Live
<1>2. ASSUME NEW w \in Work, NEW s, pc' = [pc EXCEPT ![w] = s], pc[w] \notin Ended,
             UNCHANGED <<pool_tasks, handles, loop, drained, abandoned>>
      PROVE  Reach'
  BY <1>0, <1>1, <1>2, ReachFrame
<1>3. ASSUME NEW c \in Calls, CallStep(c) PROVE Reach'
  <2>1. CASE Spawn(c)
    <3>1. Live(Work)' \subseteq Live(Work) \cup {c} /\ loop = "reading"
      BY <1>0, <2>1 DEF Spawn, Live
    <3> QED BY <1>0, <2>1, <3>1 DEF Spawn, Reach, LiveWorkReachable, DrainCovers, DrainLeavesNone
  <2>2. CASE CallCancel(c) \/ Progress(c)
    <3>1. UNCHANGED <<pc, pool_tasks, handles, loop, drained>> /\ abandoned \subseteq abandoned'
      BY <2>2 DEF CallCancel, Progress
    <3> QED BY <1>1, <3>1, ReachFrame
  <2>3. CASE Enter(c) \/ Write(c) \/ Written(c) \/ Unwind(c)
    <3>1. /\ pc[c] \notin Ended /\ UNCHANGED <<pool_tasks, handles, loop, drained, abandoned>>
          /\ \E s : pc' = [pc EXCEPT ![c] = s]
      BY <2>3 DEF Enter, Write, Written, Unwind, Ended
    <3> QED BY <1>0, <1>2, <3>1
  <2>4. CASE HandlerEnds(c) \/ Wake(c) \/ TimesOut(c)
    <3>1. /\ pc[c] \notin Ended /\ UNCHANGED <<pool_tasks, handles, loop, drained, abandoned>>
          /\ \E s : pc' = [pc EXCEPT ![c] = s]
      <4>1. pc[c] \notin Ended
        BY <2>4, HandlerEffect DEF Wake, TimesOut
      <4>2. CASE \E o : Conclude(c, o)
        BY <4>1, <4>2, ConcludeEffect
      <4>3. CASE ~(\E o : Conclude(c, o))
        BY <2>4, <4>1, <4>3, HandlerEffect DEF Wake, TimesOut
      <4> QED BY <4>2, <4>3
    <3> QED BY <1>0, <1>2, <3>1
  <2>5. CASE Waits(c)
    <3>1. CASE UNCHANGED pc
      BY <1>1, <2>5, <3>1, WaitEffect, ReachFrame
    <3>2. CASE ~UNCHANGED pc
      BY <1>0, <1>2, <2>5, <3>2, WaitEffect
    <3> QED BY <3>1, <3>2
  <2> QED BY <1>3, <2>1, <2>2, <2>3, <2>4, <2>5 DEF CallStep, Waits
<1>4. ASSUME NEW t \in Tasks, TaskStep(t) PROVE Reach'
  <2>1. CASE Originate(t)
    <3>1. Live(Work)' \subseteq Live(Work) \cup {t} /\ loop' = "replying"
      BY <1>0, <2>1 DEF Originate, Tell, Live
    <3> QED BY <1>0, <2>1, <3>1 DEF Originate, Tell, Reach, LiveWorkReachable, DrainCovers, DrainLeavesNone
  <2>2. CASE TaskGet(t)
    <3>1. Live(Work)' = Live(Work) /\ loop' = "replying"
      BY <2>2 DEF TaskGet, Tell, Live
    <3> QED BY <2>2, <3>1 DEF TaskGet, Reach, LiveWorkReachable, DrainCovers, DrainLeavesNone
  <2>3. CASE TaskCancel(t)
    <3>1. Live(Work)' = Live(Work) /\ loop' = "replying"
      BY <2>3 DEF TaskCancel, Tell, Live
    <3> QED BY <2>3, <3>1 DEF TaskCancel, Reach, LiveWorkReachable, DrainCovers, DrainLeavesNone
  <2>4. CASE TaskStarts(t) \/ TaskEnds(t) \/ TaskUnwinds(t)
    <3>1. /\ pc[t] \notin Ended /\ UNCHANGED <<pool_tasks, handles, loop, drained, abandoned>>
          /\ \E s : pc' = [pc EXCEPT ![t] = s]
      BY <2>4 DEF TaskStarts, TaskEnds, TaskUnwinds, Ended
    <3> QED BY <1>0, <1>2, <3>1
  <2> QED BY <1>4, <2>1, <2>2, <2>3, <2>4 DEF TaskStep
<1>5. CASE ServeStep
  <2>0. UNCHANGED <<pc, pool_tasks, handles, abandoned>> /\ Live(Work)' = Live(Work)
    BY <1>5 DEF ServeStep, LoopWrites, LoopWritten, LoopFails, Drain, WindowEnds, Unwound, Live
  <2>1. CASE LoopWrites \/ LoopWritten \/ LoopFails
    BY <2>0, <2>1 DEF LoopWrites, LoopWritten, LoopFails, Reach, LiveWorkReachable, DrainCovers, DrainLeavesNone
  <2>2. CASE Drain
    BY <2>0, <2>2 DEF Drain, Reach, LiveWorkReachable, DrainCovers, DrainLeavesNone
  <2>3. CASE WindowEnds
    <3>1. Live(Work) \subseteq drained \cup (abandoned \cap Tasks)
      BY <2>3 DEF WindowEnds, Reach, DrainCovers
    <3>2. Live(Work) \subseteq drained' \cup (abandoned \cap Tasks)
      BY <2>3, <3>1 DEF WindowEnds, Live
    <3> QED BY <2>0, <2>3, <3>2 DEF WindowEnds, Reach, LiveWorkReachable, DrainCovers, DrainLeavesNone
  <2>4. CASE Unwound
    <3>1. Live(Work) \subseteq abandoned \cap Tasks
      BY <2>4 DEF Unwound, Live, Reach, DrainCovers
    <3> QED BY <2>0, <2>4, <3>1 DEF Unwound, Reach, LiveWorkReachable, DrainCovers, DrainLeavesNone
  <2> QED BY <1>5, <2>1, <2>2, <2>3, <2>4 DEF ServeStep
<1>6. ASSUME NEW w \in Work, Absorb(w) \/ Reap(w) PROVE Reach'
  <2>1. CASE Absorb(w)
    <3>1. UNCHANGED <<pc, pool_tasks, handles, loop, drained>> /\ abandoned \cap Tasks \subseteq abandoned'
      BY <1>0, <2>1 DEF Absorb
    <3> QED BY <1>1, <3>1, ReachFrame
  <2>2. CASE Reap(w)
    <3>1. w \in Work \ Live(Work)' /\ UNCHANGED <<pc, loop, drained, abandoned>>
      BY <2>2 DEF Reap, Live, Ended
    <3> QED BY <1>1, <2>2, <3>1, ReachFrame DEF Reap
  <2> QED BY <1>6, <2>1, <2>2
<1>7. CASE Tick \/ UNCHANGED vars
  <2>1. UNCHANGED <<pc, pool_tasks, handles, loop, drained, abandoned>>
    BY <1>7 DEF Tick, vars
  <2> QED BY <1>1, <2>1, ReachFrame
<1> QED BY <1>3, <1>4, <1>5, <1>6, <1>7, NextSplit

-----------------------------------------------------------------------------
(* What has been said: one response to a call, and final words on a task.    *)
LEMMA TaskStatesNext ==
  ASSUME TypeOK, TaskStates, [Next]_vars
  PROVE  TaskStates'
<1>0. /\ \A d \in Calls : d \in Work /\ d \notin Tasks
      /\ \A t \in Tasks : t \in Work /\ t \notin Calls
      /\ pc \in [Work -> States]
  BY WorkAssumption DEF Work, TypeOK
<1>1. ASSUME NEW c \in Calls, CallStep(c) PROVE TaskStates'
  <2>1. UNCHANGED pc \/ \E s : pc' = [pc EXCEPT ![c] = s]
    <3>1. CASE HandlerEnds(c) \/ Wake(c) \/ TimesOut(c)
      <4>1. (\E o : Conclude(c, o)) \/ pc' = [pc EXCEPT ![c] = "finished"]
        BY <3>1, HandlerEffect DEF Wake, TimesOut
      <4> QED BY <4>1, ConcludeEffect
    <3>3. CASE Waits(c)
      BY <3>3, WaitEffect
    <3>2. CASE ~(HandlerEnds(c) \/ Wake(c) \/ TimesOut(c) \/ Waits(c))
      BY <1>1, <3>2 DEF CallStep, Waits, Spawn, CallCancel, Progress, Enter, Write, Written, Unwind
    <3> QED BY <3>1, <3>2, <3>3
  <2> QED BY <1>0, <2>1 DEF TaskStates
<1>2. ASSUME NEW t \in Tasks, TaskStep(t) PROVE TaskStates'
  BY <1>0, <1>2
     DEF TaskStep, Originate, TaskGet, TaskCancel, TaskStarts, TaskEnds, TaskUnwinds, TaskStates
<1>3. CASE ServeStep
  BY <1>3 DEF ServeStep, LoopWrites, LoopWritten, LoopFails, Drain, WindowEnds, Unwound, TaskStates
<1>4. CASE Tick \/ UNCHANGED vars \/ \E w \in Work : Absorb(w) \/ Reap(w)
  BY <1>4 DEF Tick, Absorb, Reap, vars, TaskStates
<1> QED BY <1>1, <1>2, <1>3, <1>4, NextSplit

(* A step that writes no response and gives up no call.                      *)
LEMMA AnswersFrame ==
  ASSUME AnswersCounted, UNCHANGED <<responses, idle>>,
         \A d \in Calls :
           /\ pc'[d] = pc[d]
           /\ d \in abandoned' => d \in abandoned /\ (d \in cancelling => d \in cancelling')
  PROVE  AnswersCounted'
BY DEF AnswersCounted

LEMMA AnswersNext ==
  ASSUME TypeOK, AnswersCounted, [Next]_vars
  PROVE  AnswersCounted'
<1> USE DEF ends, pool, tables, seen, config
<1>0. /\ \A d \in Calls : d \in Work /\ d \notin Tasks
      /\ \A t \in Tasks : t \in Work /\ t \notin Calls
      /\ pc \in [Work -> States]
      /\ responses \in [Calls -> Nat]
      /\ UNCHANGED idle /\ idle \in Nat
  BY WorkAssumption, NextSplit, PoolAssumption DEF Work, TypeOK
<1>1. ASSUME NEW c \in Calls, NEW o, Conclude(c, o), pc[c] \in Handling,
             cancelling' = cancelling \/ cancelling' = cancelling \ {c},
             idle = 0 => c \notin cancelling
      PROVE  AnswersCounted'
  <2>1. /\ UNCHANGED <<responses, abandoned>>
        /\ pc' = [pc EXCEPT ![c] = "done"] \/ pc' = [pc EXCEPT ![c] = "sending"]
    BY <1>1, ConcludeEffect
  <2>2. responses[c] = 0 /\ (idle = 0 => c \notin abandoned)
    BY <1>1 DEF AnswersCounted
  <2> QED BY <1>0, <1>1, <2>1, <2>2 DEF AnswersCounted
<1>2. ASSUME NEW c \in Calls, CallStep(c) PROVE AnswersCounted'
  <2>1. CASE Spawn(c)
    BY <1>0, <2>1 DEF Spawn, AnswersCounted
  <2>2. CASE CallCancel(c)
    <3>1. /\ UNCHANGED <<pc, responses>> /\ cancelling \subseteq cancelling'
          /\ abandoned' # abandoned =>
               /\ abandoned' = abandoned \cup {c} /\ c \in cancelling'
               /\ pc[c] \notin {"writing", "done"}
      BY <1>0, <2>2 DEF CallCancel, Cancelled, Ended
    <3> QED BY <1>0, <3>1 DEF AnswersCounted
  <2>3. CASE Progress(c)
    BY <1>0, <2>3, AnswersFrame DEF Progress
  <2>4. CASE Enter(c)
    BY <1>0, <2>4 DEF Enter, AnswersCounted
  <2>5. CASE HandlerEnds(c)
    <3>1. CASE \E o : Conclude(c, o)
      <4>1. CASE idle = 0 /\ c \notin cancelling
        BY <1>1, <2>5, <3>1, <4>1, HandlerEffect
      <4>2. CASE idle > 0
        BY <1>0, <1>1, <2>5, <3>1, <4>2, HandlerEffect
      <4> QED BY <2>5, <4>1, <4>2, HandlerEffect
    <3>2. CASE ~(\E o : Conclude(c, o))
      <4>1. /\ idle > 0 /\ pc[c] = "running" /\ pc' = [pc EXCEPT ![c] = "finished"]
            /\ UNCHANGED <<responses, abandoned, cancelling>>
        BY <2>5, <3>2, HandlerEffect
      <4> QED BY <1>0, <4>1 DEF AnswersCounted
    <3> QED BY <3>1, <3>2
  <2>6. CASE Wake(c)
    <3>1. idle # 0
      BY <2>6 DEF Wake, AnswersCounted
    <3> QED BY <1>1, <2>6, <3>1 DEF Wake
  <2>7. CASE TimesOut(c)
    <3>1. idle # 0
      BY <2>7 DEF TimesOut, AnswersCounted
    <3> QED BY <1>1, <2>7, <3>1 DEF TimesOut
  <2>11. CASE Waits(c)
    <3>1. pc[c] \in Handling /\ UNCHANGED <<responses, abandoned>>
      BY <2>11, WaitEffect
    <3>2. CASE UNCHANGED pc
      <4>1. UNCHANGED cancelling \/ idle > 0
        BY <2>11 DEF Waits, HandlerStops, Expire, GiveUp, CancelHandler
      <4> QED BY <1>0, <3>1, <3>2, <4>1 DEF AnswersCounted
    <3>3. CASE ~UNCHANGED pc
      BY <1>0, <2>11, <3>1, <3>3, WaitEffect DEF AnswersCounted
    <3> QED BY <3>2, <3>3
  <2>8. CASE Write(c)
    <3>1. responses[c] = 0 /\ (idle = 0 => c \notin abandoned)
      BY <2>8 DEF Write, AnswersCounted
    <3> QED BY <1>0, <2>8, <3>1 DEF Write, AnswersCounted
  <2>9. CASE Written(c)
    BY <1>0, <2>9 DEF Written, AnswersCounted
  <2>10. CASE Unwind(c)
    BY <1>0, <2>10 DEF Unwind, AnswersCounted
  <2> QED BY <1>2, <2>1, <2>2, <2>3, <2>4, <2>5, <2>6, <2>7, <2>8, <2>9, <2>10, <2>11 DEF CallStep, Waits
<1>3. ASSUME NEW t \in Tasks, TaskStep(t) PROVE AnswersCounted'
  <2>1. CASE Originate(t) \/ TaskGet(t) \/ TaskStarts(t) \/ TaskEnds(t)
    BY <1>0, <2>1, AnswersFrame DEF Originate, TaskGet, TaskStarts, TaskEnds
  <2>2. CASE TaskCancel(t)
    BY <1>0, <2>2, AnswersFrame DEF TaskCancel, Cancelled
  <2>3. CASE TaskUnwinds(t)
    BY <1>0, <2>3, AnswersFrame DEF TaskUnwinds
  <2> QED BY <1>3, <2>1, <2>2, <2>3 DEF TaskStep
<1>4. CASE ServeStep
  BY <1>0, <1>4, AnswersFrame
     DEF ServeStep, LoopWrites, LoopWritten, LoopFails, Drain, WindowEnds, Unwound, Cancelled
<1>5. ASSUME NEW w \in Work, Absorb(w) \/ Reap(w) PROVE AnswersCounted'
  BY <1>0, <1>5, AnswersFrame DEF Absorb, Reap
<1>6. CASE Tick \/ UNCHANGED vars
  BY <1>0, <1>6, AnswersFrame DEF Tick, vars
<1> QED BY <1>2, <1>3, <1>4, <1>5, <1>6, NextSplit

(* The store's last word stands.                                             *)
LEMMA FinalStays ==
  ASSUME TypeOK, NEW t \in Tasks, status[t] \in Terminal, [Next]_vars
  PROVE  status'[t] = status[t]
<1> USE DEF ends, pool, tables, seen
<1>0. status[t] \notin {"none", "working"}
  BY DEF Terminal
<1>1. ASSUME NEW c \in Calls, CallStep(c) PROVE UNCHANGED status
  <2>1. CASE HandlerEnds(c) \/ Wake(c) \/ TimesOut(c)
    <3>1. CASE \E o : Conclude(c, o)
      BY <3>1, ConcludeEffect
    <3>2. CASE ~(\E o : Conclude(c, o))
      BY <2>1, <3>2, HandlerEffect DEF Wake, TimesOut
    <3> QED BY <3>1, <3>2
  <2>2. CASE Waits(c)
    BY <2>2, WaitEffect
  <2>3. CASE ~(HandlerEnds(c) \/ Wake(c) \/ TimesOut(c) \/ Waits(c))
    BY <1>1, <2>3 DEF CallStep, Waits, Spawn, CallCancel, Progress, Enter, Write, Written, Unwind
  <2> QED BY <2>1, <2>2, <2>3
<1>2. ASSUME NEW u \in Tasks, TaskStep(u) PROVE status'[t] = status[t]
  <2>1. CASE Originate(u)
    BY <1>0, <2>1 DEF Originate, TypeOK
  <2>2. CASE TaskGet(u) \/ TaskStarts(u)
    BY <2>2 DEF TaskGet, TaskStarts
  <2>3. CASE TaskCancel(u) \/ TaskEnds(u) \/ TaskUnwinds(u)
    <3>1. UNCHANGED status \/ \E s \in Terminal : status' = Settle(u, s)
      BY <2>3 DEF TaskCancel, TaskEnds, TaskUnwinds, Terminal
    <3> QED BY <1>0, <3>1, SettleTypes
  <2> QED BY <1>2, <2>1, <2>2, <2>3 DEF TaskStep
<1>3. CASE ServeStep
  BY <1>3 DEF ServeStep, LoopWrites, LoopWritten, LoopFails, Drain, WindowEnds, Unwound
<1>4. CASE Tick \/ UNCHANGED vars \/ \E w \in Work : Absorb(w) \/ Reap(w)
  BY <1>4 DEF Tick, Absorb, Reap, vars
<1> QED BY <1>1, <1>2, <1>3, <1>4, NextSplit

(* What the loop does to its reply and to what the client has been told.     *)
LEMMA ToldEffect ==
  ASSUME TypeOK, [Next]_vars
  PROVE  \/ loop = "replying" /\ loop' = "writing" /\ UNCHANGED status
            /\ told' = [told EXCEPT ![reply[1]] = reply[2]]
         \/ /\ UNCHANGED told
            /\ \/ loop' # "replying"
               \/ UNCHANGED <<loop, reply>>
               \/ /\ loop = "reading"
                  /\ \E t \in Tasks : /\ reply' = <<t, status'[t]>>
                                      /\ status'[t] # "none"
                                      /\ status[t] \in Terminal => status'[t] = status[t]
<1> USE DEF ends, pool, tables, seen
<1> DEFINE Quiet == UNCHANGED told /\ UNCHANGED <<loop, reply>>
<1>1. ASSUME NEW c \in Calls, CallStep(c) PROVE Quiet
  <2>1. CASE HandlerEnds(c) \/ Wake(c) \/ TimesOut(c)
    <3>1. CASE \E o : Conclude(c, o)
      BY <3>1, ConcludeEffect
    <3>2. CASE ~(\E o : Conclude(c, o))
      BY <2>1, <3>2, HandlerEffect DEF Wake, TimesOut
    <3> QED BY <3>1, <3>2
  <2>2. CASE Waits(c)
    BY <2>2, WaitEffect
  <2>3. CASE ~(HandlerEnds(c) \/ Wake(c) \/ TimesOut(c) \/ Waits(c))
    BY <1>1, <2>3 DEF CallStep, Waits, Spawn, CallCancel, Progress, Enter, Write, Written, Unwind
  <2> QED BY <2>1, <2>2, <2>3
<1>2. ASSUME NEW t \in Tasks, Originate(t) \/ TaskGet(t) \/ TaskCancel(t)
      PROVE  /\ UNCHANGED told /\ loop = "reading" /\ reply' = <<t, status'[t]>>
             /\ status'[t] # "none" /\ (status[t] \in Terminal => status'[t] = status[t])
  <2>1. UNCHANGED told /\ loop = "reading"
    BY <1>2 DEF Originate, TaskGet, TaskCancel
  <2>2. status[t] \in Terminal => status'[t] = status[t]
    BY FinalStays
  <2>3. reply' = <<t, status'[t]>> /\ status'[t] # "none"
    <3>1. CASE Originate(t)
      <4>1. status'[t] = "working"
        BY <3>1 DEF Originate, TypeOK
      <4> QED BY <3>1, <4>1 DEF Originate, Tell
    <3>2. CASE TaskGet(t)
      BY <3>2 DEF TaskGet, Tell
    <3>3. CASE TaskCancel(t)
      <4>1. status' = Settle(t, "cancelled") /\ status[t] # "none" /\ Tell(t, status'[t])
        BY <3>3 DEF TaskCancel
      <4>2. status'[t] \in Terminal
        BY <4>1, SettleTypes DEF Terminal
      <4> QED BY <4>1, <4>2 DEF Tell, Terminal
    <3> QED BY <1>2, <3>1, <3>2, <3>3
  <2> QED BY <2>1, <2>2, <2>3
<1>3. ASSUME NEW t \in Tasks, TaskStarts(t) \/ TaskEnds(t) \/ TaskUnwinds(t) PROVE Quiet
  BY <1>3 DEF TaskStarts, TaskEnds, TaskUnwinds
<1>4. CASE LoopWrites
  BY <1>4 DEF LoopWrites
<1>5. CASE LoopWritten \/ LoopFails \/ Drain \/ WindowEnds \/ Unwound
  BY <1>5 DEF LoopWritten, LoopFails, Drain, WindowEnds, Unwound
<1>6. CASE Tick \/ UNCHANGED vars \/ \E w \in Work : Absorb(w) \/ Reap(w)
  BY <1>6 DEF Tick, Absorb, Reap, vars
<1> QED BY <1>1, <1>2, <1>3, <1>4, <1>5, <1>6, NextSplit DEF TaskStep, ServeStep

LEMMA ToldNext ==
  ASSUME TypeOK, WaitersQueued, ToldIsCurrent, [Next]_vars
  PROVE  ToldIsCurrent' /\ \A t \in Tasks : told[t] \in Terminal => told'[t] = told[t]
<1>0. \A t \in Tasks : status[t] \in Terminal => status'[t] = status[t]
  BY FinalStays
<1>1. CASE /\ loop = "replying" /\ loop' = "writing" /\ UNCHANGED status
           /\ told' = [told EXCEPT ![reply[1]] = reply[2]]
  <2>1. reply[1] \in Tasks /\ told \in [Tasks -> {"none", "working"} \cup Terminal]
    BY <1>1 DEF WaitersQueued, TypeOK
  <2> QED BY <1>0, <1>1, <2>1 DEF ToldIsCurrent
<1>2. CASE UNCHANGED told /\ loop' # "replying"
  BY <1>0, <1>2 DEF ToldIsCurrent
<1>3. CASE UNCHANGED told /\ UNCHANGED <<loop, reply>>
  <2>1. loop = "replying" => reply[1] \in Tasks
    BY DEF WaitersQueued, TypeOK
  <2> QED BY <1>0, <1>3, <2>1 DEF ToldIsCurrent
<1>4. ASSUME UNCHANGED told,
             NEW t \in Tasks, reply' = <<t, status'[t]>>,
             status[t] \in Terminal => status'[t] = status[t]
      PROVE  ToldIsCurrent' /\ \A u \in Tasks : told[u] \in Terminal => told'[u] = told[u]
  BY <1>0, <1>4 DEF ToldIsCurrent
<1> QED BY <1>1, <1>2, <1>3, <1>4, ToldEffect

-----------------------------------------------------------------------------
LEMMA InitInv == Init => IndInv
<1> SUFFICES ASSUME Init PROVE IndInv
  OBVIOUS
<1>0. idle \in Nat /\ 0 \in 0..idle /\ Loop \notin Calls /\ <<>> \in Seq(Calls) /\ <<>> \in Seq(Calls \cup {Loop})
  BY WorkAssumption, PoolAssumption DEF Init
<1>1. TypeOK /\ TaskStates /\ WaitersQueued /\ WritersHead
  BY <1>0 DEF Init, TypeOK, TaskStates, WaitersQueued, WritersHead, Work
<1>2. IsFiniteSet(slots) /\ SlotsAccounted /\ InFlightAgrees
  <2>1. slots = {} /\ IsFiniteSet({}) /\ Cardinality({}) = 0
    BY FS_EmptySet DEF Init
  <2> QED BY <2>1, PoolAssumption DEF Init, SlotsAccounted, InFlightAgrees, Work
<1>3. LiveWorkReachable /\ DrainCovers /\ DrainLeavesNone
  BY DEF Init, LiveWorkReachable, DrainCovers, DrainLeavesNone, Live, Ended
<1>4. AnswersCounted /\ ToldIsCurrent
  BY DEF Init, AnswersCounted, ToldIsCurrent, Work, Terminal
<1> QED BY <1>1, <1>2, <1>3, <1>4 DEF IndInv

LEMMA NextInv == IndInv /\ [Next]_vars => IndInv'
<1> SUFFICES ASSUME IndInv, [Next]_vars PROVE IndInv'
  OBVIOUS
<1>1. TypeOK' /\ TaskStates' /\ WaitersQueued' /\ WritersHead'
  BY TypeNext, TaskStatesNext, QueueNext DEF IndInv
<1>2. Books'
  BY BooksNext DEF IndInv, Books
<1>3. Reach'
  BY ReachNext DEF IndInv, Reach
<1>4. AnswersCounted' /\ ToldIsCurrent'
  BY AnswersNext, ToldNext DEF IndInv
<1> QED BY <1>1, <1>2, <1>3, <1>4 DEF IndInv, Books, Reach

(* The invariant that carries the others.                                    *)
THEOREM Invariance == Spec => []IndInv
BY InitInv, NextInv, PTL DEF Spec

(* Every variable holds a value of its kind.                                 *)
THEOREM TypeCorrect == Spec => []TypeOK
<1>1. IndInv => TypeOK
  BY DEF IndInv
<1> QED BY <1>1, Invariance, PTL

(* The pool is never over its cap, whatever is cancelled, expires or raises, *)
(* and slots and registry agree with where each call stands                  *)
(* (_run_pooled_call, InFlight).                                             *)
THEOREM PoolAccounted == Spec => [](SlotsAccounted /\ InFlightAgrees)
<1>1. IndInv => SlotsAccounted /\ InFlightAgrees
  BY DEF IndInv
<1> QED BY <1>1, Invariance, PTL

(* Of the route loop and the calls at most one writes to the client          *)
(* (_client_lock).                                                           *)
THEOREM WritesExclusive == Spec => []ClientWritesExclusive
<1>1. IndInv => ClientWritesExclusive
  <2> SUFFICES ASSUME IndInv PROVE ClientWritesExclusive
    OBVIOUS
  <2> DEFINE W == {c \in Calls : pc[c] = "writing"}
  <2>1. Cardinality({}) = 0
    BY FS_EmptySet
  <2>2. CASE W = {}
    BY <2>1, <2>2 DEF ClientWritesExclusive
  <2>3. CASE W # {}
    <3>1. PICK c : c \in W
      BY <2>3
    <3>2. client_lock[1] = c /\ \A d \in Calls : pc[d] = "writing" => client_lock[1] = d
      BY <3>1 DEF IndInv, WritersHead
    <3>3. W = {c}
      BY <3>1, <3>2
    <3>4. loop # "writing"
      BY <3>1, <3>2, WorkAssumption DEF IndInv, WritersHead
    <3>5. Cardinality({c}) = 1
      BY FS_Singleton
    <3> QED BY <3>3, <3>4, <3>5 DEF ClientWritesExclusive
  <2> QED BY <2>2, <2>3
<1> QED BY <1>1, Invariance, PTL

(* A call is answered at most once, and not at all when it was given up in   *)
(* time in a pool without a deadline (_run_pooled_call).                     *)
THEOREM AnsweredAtMostOnce == Spec => []AnsweredOnce
<1>1. IndInv => AnsweredOnce
  BY DEF IndInv, AnswersCounted, AnsweredOnce
<1> QED BY <1>1, Invariance, PTL

(* Whatever has not ended can be found by a cancellation and by the drain    *)
(* (_pool_tasks, _task_handles).                                             *)
THEOREM LiveWorkFound == Spec => []LiveWorkReachable
<1>1. IndInv => LiveWorkReachable
  BY DEF IndInv
<1> QED BY <1>1, Invariance, PTL

(* When serve returns, the drain has left nothing behind that the client had *)
(* not cancelled itself (_drain).                                            *)
THEOREM DrainComplete == Spec => []DrainLeavesNone
<1>1. IndInv => DrainLeavesNone
  BY DEF IndInv
<1> QED BY <1>1, Invariance, PTL

(* A client that was told of the end of a task is told nothing else of it    *)
(* (ServerTasks: terminal states are final).                                 *)
THEOREM FinalWordStands == Spec => StatusNeverRegresses
<1>1. IndInv /\ [Next]_vars =>
        [\A t \in Tasks : told[t] \in Terminal => told'[t] = told[t]]_vars
  BY ToldNext DEF IndInv
<1> QED BY <1>1, Invariance, PTL DEF Spec, StatusNeverRegresses
=============================================================================
