----------------------------- MODULE LocalWork -----------------------------
(* The work a ForwardRouter (yamp/router.py) does itself, for calls to its  *)
(* local handlers: the bounded pool of calls with their idle deadlines      *)
(* (pool.py), the background tasks and their store (tasks.py), their        *)
(* cancellation by the client, the lock they share with the route loop to   *)
(* write to the client, and the drain at the end of serve.                  *)
EXTENDS Naturals, FiniteSets, SequencesExt

CONSTANTS Calls,   \* request ids of pooled tools/call requests
          Tasks,   \* ids that ServerTasks.create gives out
          Loop,    \* the route loop
          Cap,     \* set_worker_pool(cap): 0 is unbounded
          Idles,   \* values of set_worker_pool(idle_ms), in ticks: 0 is no deadline
          Windows, \* values of set_drain_timeout(...) > 0
          FaultSets \* sets of faults that may happen together

ASSUME WorkAssumption == Calls \cap Tasks = {} /\ Loop \notin Calls \cup Tasks
ASSUME PoolAssumption == Cap \in Nat /\ Idles \subseteq Nat /\ Windows \subseteq BOOLEAN
ASSUME LocalFaultsAssumption == FaultSets \subseteq SUBSET {"raise", "deaf", "loop"}

Work == Calls \cup Tasks

VARIABLES
  idle,        \* the idle deadline and
  window,      \* the drain window, set before serve
  faults,      \* "raise": a handler raises; "deaf": it absorbs a cancellation;
               \* "loop": the route loop raises
  loop,        \* serve: reading, replying, writing, draining, unwinding, closed, failed
  reply,       \* what the loop is to tell of a task: its id and status
  pc,          \* where each asyncio task stands
  outcome,     \* how a handler ended that wait_for has not yet passed on
  slot_queue,  \* calls waiting for the semaphore, in order
  slots,       \* calls that hold it
  inflight,    \* the keys of InFlight._deadlines
  left,        \* the time left until each of those deadlines
  timer,       \* the time left on each call's wait_for
  pool_tasks,  \* the keys of _pool_tasks
  handles,     \* the keys of _task_handles
  status,      \* the store's status of each task
  cancelling,  \* cancelled asyncio tasks that have not unwound
  drained,     \* what _drain waits for
  client_lock, \* _client_lock: its holder, then its waiters in order
  responses,   \* history: responses written for each call
  told,        \* history: the status the client was last told of each task
  abandoned    \* history: tasks the client cancelled, calls it cancelled
               \* whose handler did not go on all the same

pool   == <<slot_queue, slots, inflight, left, timer, outcome>>
tables == <<pool_tasks, handles, status>>
ends   == <<loop, reply, drained>>
config == <<idle, window, faults>>
seen   == <<responses, told, abandoned>>
vars   == <<config, ends, pc, pool, tables, cancelling, client_lock, seen>>

Terminal == {"completed", "failed", "cancelled"}
Ended == {"none", "done"}
Handling == {"running", "finished", "expiring", "leaving"}   \* in the inner try

Init ==
  /\ idle \in Idles
  /\ window \in Windows
  /\ faults \in FaultSets
  /\ loop = "reading"
  /\ reply = <<>>
  /\ pc = [w \in Work |-> "none"]
  /\ outcome = [c \in Calls |-> "none"]
  /\ slot_queue = <<>>
  /\ slots = {}
  /\ inflight = {}
  /\ left = [c \in Calls |-> 0]
  /\ timer = [c \in Calls |-> 0]
  /\ pool_tasks = {}
  /\ handles = {}
  /\ status = [t \in Tasks |-> "none"]
  /\ cancelling = {}
  /\ drained = {}
  /\ client_lock = <<>>
  /\ responses = [c \in Calls |-> 0]
  /\ told = [t \in Tasks |-> "none"]
  /\ abandoned = {}

-----------------------------------------------------------------------------
(* Operations of the tables.                                                *)

(* The semaphore of _run_pooled_call; a cap of zero is a nullcontext.       *)
Admits(in_flight) == Cap = 0 \/ in_flight < Cap

(* Task.cancel: the task unwinds at its next turn; none that has ended.     *)
Cancelled(S) == cancelling \cup {w \in S : pc[w] \notin Ended}

(* A cancelled task leaves the queue of a lock or of the semaphore.         *)
Leave(queue, w) ==
  IF \E i \in DOMAIN queue : queue[i] = w
    THEN RemoveAt(queue, CHOOSE i \in DOMAIN queue : queue[i] = w)
    ELSE queue

Settle_Overwrites(t, s) == [status EXCEPT ![t] = s]   \* mutant: none is final

(* ServerTasks.complete, fail and cancel: terminal states are final.        *)
Settle(t, s) == IF status[t] = "working" THEN [status EXCEPT ![t] = s] ELSE status

-----------------------------------------------------------------------------
(* The route loop.                                                          *)

(* _spawn_pooled_call: the loop reads on at once.                           *)
Spawn(c) ==
  /\ loop = "reading" /\ pc[c] = "none"
  /\ pc' = [pc EXCEPT ![c] = "created"]
  /\ pool_tasks' = pool_tasks \cup {c}
  /\ slot_queue' = Append(slot_queue, c)
  /\ UNCHANGED <<ends, slots, inflight, left, timer, outcome, handles, status,
                 cancelling, client_lock, seen>>

(* The loop queues for the client's lock with what it knows of task t.      *)
Tell(t, s) ==
  /\ loop' = "replying"
  /\ reply' = <<t, s>>
  /\ client_lock' = Append(client_lock, Loop)
  /\ UNCHANGED drained

(* _originate_task: answered with the working handle.                       *)
Originate(t) ==
  /\ loop = "reading" /\ status[t] = "none"
  /\ status' = [status EXCEPT ![t] = "working"]
  /\ pc' = [pc EXCEPT ![t] = "created"]
  /\ handles' = handles \cup {t}
  /\ Tell(t, "working")
  /\ UNCHANGED <<pool, pool_tasks, cancelling, seen>>

(* _serve_local_task for tasks/get (and tasks/result).                      *)
TaskGet(t) ==
  /\ loop = "reading" /\ status[t] # "none"
  /\ Tell(t, status[t])
  /\ UNCHANGED <<pc, pool, tables, cancelling, seen>>

(* _serve_local_task for tasks/cancel: the handle is forgotten at once.     *)
TaskCancel(t) ==
  /\ loop = "reading" /\ status[t] # "none"
  /\ handles' = handles \ {t}
  /\ cancelling' = Cancelled({t} \cap handles)
  /\ status' = Settle(t, "cancelled")
  /\ Tell(t, status'[t])
  /\ abandoned' = abandoned \cup {t}
  /\ UNCHANGED <<pc, pool, pool_tasks, responses, told>>

(* _route_client_cancellation of a pooled call.                             *)
CallCancel(c) ==
  /\ loop = "reading" /\ c \in pool_tasks
  /\ cancelling' = Cancelled({c})
  /\ abandoned' = IF pc[c] \in Handling \cup {"created", "sending"}
                    THEN abandoned \cup {c}
                    ELSE abandoned
  /\ UNCHANGED <<ends, pc, pool, tables, client_lock, responses, told>>

Progress_Adds(c) ==   \* mutant: the deadline is extended, not reset
  /\ loop = "reading" /\ c \in inflight
  /\ left' = [left EXCEPT ![c] = @ + idle]
  /\ UNCHANGED <<ends, pc, slot_queue, slots, inflight, timer, outcome, tables,
                 cancelling, client_lock, seen>>

(* _touch_progress: InFlight.touch moves the deadline of a call in flight.  *)
Progress(c) ==
  /\ loop = "reading" /\ c \in inflight
  /\ left' = [left EXCEPT ![c] = idle]
  /\ UNCHANGED <<ends, pc, slot_queue, slots, inflight, timer, outcome, tables,
                 cancelling, client_lock, seen>>

(* _send_client, once the lock is the loop's.                               *)
LoopWrites ==
  /\ loop = "replying" /\ Head(client_lock) = Loop
  /\ loop' = "writing"
  /\ told' = [told EXCEPT ![reply[1]] = reply[2]]
  /\ UNCHANGED <<reply, drained, pc, pool, tables, cancelling, client_lock, responses, abandoned>>

LoopWritten ==
  /\ loop = "writing"
  /\ loop' = "reading"
  /\ reply' = <<>>
  /\ client_lock' = Tail(client_lock)
  /\ UNCHANGED <<drained, pc, pool, tables, cancelling, seen>>

(* The loop raises (a line that does not decode, a strict-mode failure):    *)
(* serve ends there.                                                        *)
LoopFails ==
  /\ "loop" \in faults /\ loop = "reading"
  /\ loop' = "failed"
  /\ UNCHANGED <<reply, drained, pc, pool, tables, cancelling, client_lock, seen>>

-----------------------------------------------------------------------------
(* The asyncio tasks.                                                       *)

(* _run_pooled_call enters the semaphore and registers the call; the clock  *)
(* of its wait_for starts with its deadline.                                *)
Enter(c) ==
  /\ pc[c] = "created" /\ c \notin cancelling
  /\ Head(slot_queue) = c /\ Admits(Cardinality(slots))
  /\ slot_queue' = Tail(slot_queue)
  /\ slots' = slots \cup {c}
  /\ inflight' = inflight \cup {c}
  /\ left' = [left EXCEPT ![c] = idle]
  /\ timer' = [timer EXCEPT ![c] = idle]
  /\ pc' = [pc EXCEPT ![c] = "running"]
  /\ UNCHANGED <<ends, outcome, tables, cancelling, client_lock, seen>>

(* The end of the inner try: the call leaves the registry and queues for    *)
(* the client's lock, still in its slot; a handler's exception ends it.     *)
Conclude(c, o) ==
  /\ inflight' = inflight \ {c}
  /\ left' = [left EXCEPT ![c] = 0]
  /\ timer' = [timer EXCEPT ![c] = 0]
  /\ outcome' = [outcome EXCEPT ![c] = "none"]
  /\ IF o = "raised"
       THEN /\ pc' = [pc EXCEPT ![c] = "done"]
            /\ slots' = slots \ {c}
            /\ UNCHANGED client_lock
       ELSE /\ pc' = [pc EXCEPT ![c] = "sending"]
            /\ client_lock' = Append(client_lock, c)
            /\ UNCHANGED slots
  /\ UNCHANGED <<ends, slot_queue, tables, seen>>

HandlerOutcome == IF "raise" \in faults THEN {"returned", "raised"} ELSE {"returned"}

(* The handler ends by itself. Under a deadline it is a task of its own     *)
(* (wait_for, as of Python 3.11), whose outcome reaches the call at a later *)
(* turn; the cancellation of the call until then is swallowed.              *)
HandlerEnds(c) ==
  /\ pc[c] = "running"
  /\ \E o \in HandlerOutcome :
        \/ /\ idle = 0 /\ c \notin cancelling
           /\ Conclude(c, o)
        \/ /\ idle > 0
           /\ pc' = [pc EXCEPT ![c] = "finished"]
           /\ outcome' = [outcome EXCEPT ![c] = o]
           /\ UNCHANGED <<ends, slot_queue, slots, inflight, left, timer, tables,
                          client_lock, seen>>
  /\ UNCHANGED cancelling

Wake(c) ==
  /\ pc[c] = "finished"
  /\ Conclude(c, outcome[c])
  /\ cancelling' = cancelling \ {c}

(* wait_for's timer, or the cancellation of the call inside it: the handler *)
(* is cancelled and waited for, in its slot and in the registry.            *)
CancelHandler(c, why) ==
  /\ idle > 0 /\ pc[c] = "running"
  /\ pc' = [pc EXCEPT ![c] = why]
  /\ UNCHANGED <<ends, pool, tables, client_lock, seen>>

Expire(c) ==
  /\ timer[c] = 0 /\ c \notin cancelling
  /\ CancelHandler(c, "expiring")
  /\ UNCHANGED cancelling

GiveUp(c) ==
  /\ c \in cancelling
  /\ CancelHandler(c, "leaving")
  /\ cancelling' = cancelling \ {c}

(* A cancelled handler ends; it returns only if it absorbs the cancellation. *)
HandlerStops(c) ==
  /\ pc[c] \in {"expiring", "leaving"} /\ outcome[c] = "none"
  /\ \E o \in {"cancelled"} \cup {r \in HandlerOutcome : r = "returned" => "deaf" \in faults} :
        outcome' = [outcome EXCEPT ![c] = o]
  /\ UNCHANGED <<ends, pc, slot_queue, slots, inflight, left, timer, tables, cancelling,
                 client_lock, seen>>

TimesOut_KeepsSlot(c) ==   \* mutant: a call that timed out keeps its slot, unanswered
  /\ pc[c] = "expiring" /\ outcome[c] # "none" /\ c \notin cancelling
  /\ inflight' = inflight \ {c}
  /\ pc' = [pc EXCEPT ![c] = "done"]
  /\ UNCHANGED <<ends, slot_queue, slots, left, timer, outcome, tables, cancelling, client_lock, seen>>

(* The handler of an expired call has ended: TimeoutError if it was         *)
(* cancelled, and otherwise what it gave all the same.                      *)
TimesOut(c) ==
  /\ pc[c] = "expiring" /\ outcome[c] # "none" /\ c \notin cancelling
  /\ Conclude(c, IF outcome[c] = "cancelled" THEN "error" ELSE outcome[c])
  /\ UNCHANGED cancelling

Write_NoLock(c) ==   \* mutant: responses are written without the client's lock
  /\ pc[c] = "sending" /\ c \notin cancelling
  /\ pc' = [pc EXCEPT ![c] = "writing"]
  /\ responses' = [responses EXCEPT ![c] = @ + 1]
  /\ UNCHANGED <<ends, pool, tables, cancelling, client_lock, told, abandoned>>

Write(c) ==
  /\ pc[c] = "sending" /\ c \notin cancelling /\ Head(client_lock) = c
  /\ pc' = [pc EXCEPT ![c] = "writing"]
  /\ responses' = [responses EXCEPT ![c] = @ + 1]
  /\ UNCHANGED <<ends, pool, tables, cancelling, client_lock, told, abandoned>>

Written(c) ==
  /\ pc[c] = "writing" /\ c \notin cancelling
  /\ pc' = [pc EXCEPT ![c] = "done"]
  /\ slots' = slots \ {c}
  /\ client_lock' = Tail(client_lock)
  /\ UNCHANGED <<ends, slot_queue, inflight, left, timer, outcome, tables, cancelling, seen>>

Unwind_Answers(c) ==   \* mutant: a cancellation is answered like a timeout
  /\ c \in cancelling /\ pc[c] = "running"
  /\ cancelling' = cancelling \ {c}
  /\ Conclude(c, "error")

(* CancelledError in _run_pooled_call: the slot, the registration and the   *)
(* lock (or the place in their queues) are given up. wait_for raises it     *)
(* once the handler has ended, or at a second cancellation, which leaves    *)
(* the handler to itself.                                                   *)
Unwind(c) ==
  /\ \/ c \in cancelling /\ pc[c] \in {"created", "expiring", "leaving", "sending", "writing"}
     \/ c \in cancelling /\ pc[c] = "running" /\ idle = 0
     \/ pc[c] = "leaving" /\ outcome[c] # "none"
  /\ cancelling' = cancelling \ {c}
  /\ pc' = [pc EXCEPT ![c] = "done"]
  /\ slot_queue' = Leave(slot_queue, c)
  /\ slots' = slots \ {c}
  /\ inflight' = inflight \ {c}
  /\ left' = [left EXCEPT ![c] = 0]
  /\ timer' = [timer EXCEPT ![c] = 0]
  /\ outcome' = [outcome EXCEPT ![c] = "none"]
  /\ client_lock' = Leave(client_lock, c)
  /\ UNCHANGED <<ends, tables, seen>>

(* _run_task, and its end by the handler's result, error or exception.      *)
TaskStarts(t) ==
  /\ pc[t] = "created" /\ t \notin cancelling
  /\ pc' = [pc EXCEPT ![t] = "running"]
  /\ UNCHANGED <<ends, pool, tables, cancelling, client_lock, seen>>

TaskEnds(t) ==
  /\ pc[t] = "running" /\ t \notin cancelling
  /\ pc' = [pc EXCEPT ![t] = "done"]
  /\ \E s \in {"completed", "failed"} : status' = Settle(t, s)
  /\ UNCHANGED <<ends, pool, pool_tasks, handles, cancelling, client_lock, seen>>

(* CancelledError in _run_task; a coroutine that never started records      *)
(* nothing.                                                                 *)
TaskUnwinds(t) ==
  /\ t \in cancelling /\ pc[t] \notin Ended
  /\ cancelling' = cancelling \ {t}
  /\ status' = IF pc[t] = "running" THEN Settle(t, "cancelled") ELSE status
  /\ pc' = [pc EXCEPT ![t] = "done"]
  /\ UNCHANGED <<ends, pool, pool_tasks, handles, client_lock, seen>>

(* A handler that its call or task awaits itself catches CancelledError and *)
(* goes on: its call is not given up.                                       *)
Absorb(w) ==
  /\ "deaf" \in faults /\ w \in cancelling /\ pc[w] = "running"
  /\ w \in Calls => idle = 0
  /\ cancelling' = cancelling \ {w}
  /\ abandoned' = abandoned \ ({w} \cap Calls)
  /\ UNCHANGED <<ends, pc, pool, tables, client_lock, responses, told>>

Reap_Early(w) ==   \* mutant: a call leaves the table when it leaves the registry
  /\ pc[w] \in {"done", "sending"} /\ w \in pool_tasks \cup handles
  /\ pool_tasks' = pool_tasks \ {w}
  /\ handles' = handles \ {w}
  /\ UNCHANGED <<ends, pc, pool, status, cancelling, client_lock, seen>>

(* The done callbacks.                                                      *)
Reap(w) ==
  /\ pc[w] = "done" /\ w \in pool_tasks \cup handles
  /\ pool_tasks' = pool_tasks \ {w}
  /\ handles' = handles \ {w}
  /\ UNCHANGED <<ends, pc, pool, status, cancelling, client_lock, seen>>

(* One tick of the clock for every deadline and timer that runs.            *)
Tick ==
  LET Less(f) == [c \in Calls |-> IF f[c] > 0 THEN f[c] - 1 ELSE 0] IN
  /\ \E c \in Calls : timer[c] > 0 \/ left[c] > 0
  /\ left' = Less(left)
  /\ timer' = Less(timer)
  /\ UNCHANGED <<config, ends, pc, slot_queue, slots, inflight, outcome, tables, cancelling,
                 client_lock, seen>>

-----------------------------------------------------------------------------
(* The end of serve: the client has closed its end, and _drain runs.        *)

Live(S) == {w \in S : pc[w] \notin Ended}

Drain_PoolOnly ==   \* mutant: the background tasks are not drained
  /\ loop = "reading"
  /\ drained' = pool_tasks
  /\ loop' = IF drained' = {} THEN "closed" ELSE IF window THEN "draining" ELSE "unwinding"
  /\ cancelling' = IF window THEN cancelling ELSE Cancelled(drained')
  /\ UNCHANGED <<reply, pc, pool, tables, client_lock, seen>>

Drain ==
  /\ loop = "reading"
  /\ drained' = pool_tasks \cup handles
  /\ loop' = IF drained' = {} THEN "closed" ELSE IF window THEN "draining" ELSE "unwinding"
  /\ cancelling' = IF window THEN cancelling ELSE Cancelled(drained')
  /\ UNCHANGED <<reply, pc, pool, tables, client_lock, seen>>

WindowEnds_NoCancel ==   \* mutant: what outlives the window is only awaited
  /\ loop = "draining"
  /\ drained' = Live(drained)
  /\ loop' = IF drained' = {} THEN "closed" ELSE "unwinding"
  /\ UNCHANGED <<reply, pc, pool, tables, cancelling, client_lock, seen>>

(* The window ends, at the latest when nothing is left: what is left is     *)
(* cancelled.                                                               *)
WindowEnds ==
  /\ loop = "draining"
  /\ drained' = Live(drained)
  /\ loop' = IF drained' = {} THEN "closed" ELSE "unwinding"
  /\ cancelling' = Cancelled(drained')
  /\ UNCHANGED <<reply, pc, pool, tables, client_lock, seen>>

(* gather: the unwinding has been awaited.                                  *)
Unwound ==
  /\ loop = "unwinding" /\ Live(drained) = {}
  /\ loop' = "closed"
  /\ UNCHANGED <<reply, drained, pc, pool, tables, cancelling, client_lock, seen>>

-----------------------------------------------------------------------------
(* What the event loop owes a piece of work; HandlerEnds, HandlerStops and  *)
(* TaskEnds are the handler's own business.                                 *)
Step(w) ==
  /\ \/ w \in Calls /\ \/ Enter(w) \/ Wake(w) \/ Expire(w) \/ GiveUp(w) \/ TimesOut(w)
                       \/ Write(w) \/ Written(w) \/ Unwind(w)
     \/ w \in Tasks /\ (TaskStarts(w) \/ TaskUnwinds(w))
  /\ UNCHANGED config

LoopStep == (LoopWrites \/ LoopWritten \/ WindowEnds \/ Unwound) /\ UNCHANGED config

ClientActs ==
  \/ \E c \in Calls : Spawn(c) \/ CallCancel(c) \/ Progress(c)
  \/ \E t \in Tasks : Originate(t) \/ TaskGet(t) \/ TaskCancel(t)
  \/ Drain

Next ==
  \/ LoopStep
  \/ \E w \in Work : Step(w)
  \/ Tick
  \/ /\ \/ ClientActs \/ LoopFails
        \/ \E w \in Work : Absorb(w) \/ Reap(w)
        \/ \E c \in Calls : HandlerEnds(c) \/ HandlerStops(c)
        \/ \E t \in Tasks : TaskEnds(t)
     /\ UNCHANGED config

Spec == Init /\ [][Next]_vars

(* A handler that does not absorb its cancellation ends by it.              *)
Fairness == /\ \A w \in Work : WF_vars(Step(w))
            /\ \A c \in Calls :
                 WF_vars("deaf" \notin faults /\ HandlerStops(c) /\ UNCHANGED config)
            /\ WF_vars(LoopStep)
            /\ WF_vars(Tick)

FairSpec == Spec /\ Fairness

-----------------------------------------------------------------------------
(* Every variable holds a value of its kind.                                *)
TypeOK ==
  /\ idle \in Idles /\ window \in Windows /\ faults \in FaultSets
  /\ loop \in {"reading", "replying", "writing", "draining", "unwinding", "closed", "failed"}
  /\ reply \in {<<>>} \cup (Tasks \X ({"working"} \cup Terminal))
  /\ pc \in [Work -> {"created", "sending", "writing"} \cup Handling \cup Ended]
  /\ outcome \in [Calls -> {"none", "returned", "raised", "cancelled"}]
  /\ slot_queue \in Seq(Calls)
  /\ slots \subseteq Calls
  /\ inflight \subseteq Calls
  /\ left \in [Calls -> 0..idle]
  /\ timer \in [Calls -> 0..idle]
  /\ pool_tasks \subseteq Calls
  /\ handles \subseteq Tasks
  /\ status \in [Tasks -> {"none", "working"} \cup Terminal]
  /\ cancelling \subseteq Work
  /\ drained \subseteq Work
  /\ client_lock \in Seq(Calls \cup {Loop})
  /\ responses \in [Calls -> Nat]
  /\ told \in [Tasks -> {"none", "working"} \cup Terminal]
  /\ abandoned \subseteq Work

(* The pool is never over its cap, and a slot is held exactly by the calls  *)
(* that have entered and not ended: none leaks when a call is cancelled,    *)
(* expires or raises at whatever point (async with in _run_pooled_call).    *)
SlotsAccounted ==
  /\ Cap > 0 => Cardinality(slots) <= Cap
  /\ slots = {c \in Calls : pc[c] \in Handling \cup {"sending", "writing"}}

(* "the bookkeeping they agree on" (InFlight): the registry holds exactly   *)
(* the calls whose handler runs, is waited for or has just ended.           *)
InFlightAgrees == inflight = {c \in Calls : pc[c] \in Handling}

(* Whatever has not ended can be found by a cancellation and by the drain:  *)
(* calls in _pool_tasks until they have been answered, tasks in             *)
(* _task_handles until they end or the client cancels them.                 *)
LiveWorkReachable ==
  \A w \in Live(Work) : w \in pool_tasks \cup handles \cup (abandoned \cap Tasks)

(* At most one of the route loop and the calls writes to the client, so     *)
(* that responses are not interleaved (_client_lock).                       *)
ClientWritesExclusive ==
  Cardinality({c \in Calls : pc[c] = "writing"}) + (IF loop = "writing" THEN 1 ELSE 0) <= 1

(* A call is answered at most once, and, in a pool without an idle deadline,*)
(* not at all when the client gave it up before its response was being      *)
(* written (_run_pooled_call: "unwinds here and sends nothing").            *)
AnsweredOnce ==
  \A c \in Calls : responses[c] <= (IF c \in abandoned /\ idle = 0 THEN 0 ELSE 1)

(* A client that has been told that a task completed, failed or was         *)
(* cancelled is never told anything else of it, whichever of completion     *)
(* and cancellation comes first (ServerTasks).                              *)
StatusNeverRegresses ==
  [][\A t \in Tasks : told[t] \in Terminal => told'[t] = told[t]]_vars

(* When serve returns, the drain has left no call and no task behind, but   *)
(* for a task that the client had cancelled itself.                         *)
DrainLeavesNone == loop = "closed" => Live(Work) \subseteq abandoned \cap Tasks

(* A call in an idle-bounded pool ends, and so gives up its slot to the     *)
(* next, though no handler returns before it is cancelled; wait_for waits   *)
(* for one that absorbs its cancellation as long as that takes.             *)
CallsEnd ==
  \A c \in Calls : pc[c] = "created" /\ idle > 0 /\ "deaf" \notin faults ~> pc[c] = "done"

(* The drain comes to an end though no handler ever returns.                *)
DrainEnds ==
  loop \in {"draining", "unwinding"} /\ "deaf" \notin faults ~> loop = "closed"

-----------------------------------------------------------------------------
(* What the comments of the code say and the code does not do; each has a   *)
(* configuration that shows the counterexample (README.md).                 *)

(* "Per MCP the receiver stops and sends no response"                       *)
(* (_route_client_cancellation), in a pool with an idle deadline.           *)
CancelledSilent == \A c \in abandoned \cap Calls : responses[c] = 0

(* "The task sends its own response" (_route_loop, of a pooled call): one   *)
(* that ends uncancelled has been answered.                                 *)
EveryCallAnswered ==
  \A c \in Calls :
    pc[c] = "done" /\ loop \in {"reading", "replying", "writing"} /\ c \notin abandoned =>
      responses[c] = 1

(* "A progress notification for a pooled call resets that call's idle       *)
(* deadline" (_forward_client_notification): no call is ended by a timer    *)
(* before its deadline has passed.                                          *)
IdleDeadlineHonoured ==
  [][\A c \in Calls : pc[c] = "running" /\ pc'[c] = "expiring" => left[c] = 0]_vars

(* "the unwinding is awaited so nothing is left dangling" (_drain).         *)
NothingDangling == loop = "closed" => Live(Work) = {}
=============================================================================
