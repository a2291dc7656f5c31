------------------------------ MODULE EventLoop ------------------------------
(****************************************************************************)
(* The browser's JavaScript event loop (browser/src/engine/javascript/      *)
(* EventLoop.ts): timers, microtasks, render and idle tasks, processed when *)
(* a caller asks for it. A started loop hangs on its own animation frames:  *)
(* an iteration is a render task that queues the next one.                  *)
(*                                                                          *)
(* Everything runs on one thread. A callback is an interval of time in      *)
(* which the script may make any calls of the loop's interface and then     *)
(* returns or throws, which is the same to the loop. What a script does not *)
(* do here: process tasks from inside a callback, or guess the id of the    *)
(* loop's own frame.                                                        *)
(*                                                                          *)
(* Tasks are their ids, which grow. An array is the set of ids in it, since *)
(* each is sorted stably, or in order of arrival, before it is taken from.  *)
(****************************************************************************)
EXTENDS Integers, FiniteSets

CONSTANTS
  MaxTasks,         \* bound: tasks created
  MaxDepth,         \* bound: iterations nested in each other's render batch
  MaxTime,          \* bound: the clock
  Delays,           \* delays of setTimeout, and intervals of setInterval but 0
  Priorities,       \* priorities setTimeout and setInterval are given
  maxMicrotasksPerCycle

ASSUME LoopAssumption ==
  /\ MaxTasks \in Nat /\ MaxDepth \in Nat \ {0} /\ MaxTime \in Nat
  /\ Delays \subseteq Nat /\ Priorities \subseteq Nat
  /\ maxMicrotasksPerCycle \in Nat

Ids == 1..MaxTasks
Depths == 1..MaxDepth

VARIABLES
  now,              \* performance.now()
  nextTaskId,
  kind,             \* kind[t]: what task t is, "none" while t is not in use
  priority, delay, executeAt,   \* of a timer or an interval, 0 of the others
  pushed,           \* pushed[t]: rank of t's last push onto taskQueue
  pushes,           \* pushes onto taskQueue
  cancelled,        \* tasks whose cancelled flag is set
  cleared,          \* those a script has asked to cancel as they waited or ran
                    \* (not in the code)
  taskQueue, microtaskQueue, renderTasks, idleTasks,
  running, animationFrameId,
  depth,            \* 0, 1 in a processing call, more in nested iterations
  at,               \* where the innermost of these is
  task,             \* the task whose callback is running, or 0
  executed,         \* microtasks executed in the current run of them
  entered, began,   \* "now" of processPendingTasks and of executeNextMacrotask
  batch             \* batch[d]: render tasks level d has still to execute

taskVars == <<nextTaskId, kind, priority, delay, executeAt>>
pushVars == <<pushed, pushes>>
clearVars == <<cancelled, cleared>>
queueVars == <<taskQueue, microtaskQueue, renderTasks, idleTasks>>
loopVars == <<running, animationFrameId>>
callVars == <<depth, at, task, executed, entered, began, batch>>
vars == <<now, taskVars, pushVars, clearVars, queueVars, loopVars, callVars>>

\* The head of an array that is emptied in order of arrival.
First(S) == {t \in S : \A u \in S : t <= u}

InBatches == UNION {batch[d] : d \in Depths}
Queued == taskQueue \cup microtaskQueue \cup renderTasks \cup idleTasks

Init ==
  /\ now = 0
  /\ nextTaskId = 1
  /\ kind = [t \in Ids |-> "none"]
  /\ priority = [t \in Ids |-> 0] /\ delay = [t \in Ids |-> 0]
  /\ executeAt = [t \in Ids |-> 0]
  /\ pushed = [t \in Ids |-> 0] /\ pushes = 0
  /\ cancelled = {} /\ cleared = {}
  /\ taskQueue = {} /\ microtaskQueue = {} /\ renderTasks = {} /\ idleTasks = {}
  /\ running = FALSE /\ animationFrameId = 0
  /\ depth = 0 /\ at = "outside" /\ task = 0
  /\ executed = 0 /\ entered = 0 /\ began = 0
  /\ batch = [d \in Depths |-> {}]

-----------------------------------------------------------------------------
(* The calls of a script, outside of the loop or in a callback.             *)

Script == depth = 0 \/ task # 0

\* A new task of kind k, with the fields its array is sorted by.
Create(k, p, d, e) ==
  /\ nextTaskId \in Ids
  /\ nextTaskId' = nextTaskId + 1
  /\ kind' = [kind EXCEPT ![nextTaskId] = k]
  /\ priority' = [priority EXCEPT ![nextTaskId] = p]
  /\ delay' = [delay EXCEPT ![nextTaskId] = d]
  /\ executeAt' = [executeAt EXCEPT ![nextTaskId] = e]

\* setTimeout, setInterval.
setTimer(k, p, d) ==
  /\ Script
  /\ Create(k, p, d, now + d)
  /\ taskQueue' = taskQueue \cup {nextTaskId}
  /\ pushes' = pushes + 1
  /\ pushed' = [pushed EXCEPT ![nextTaskId] = pushes + 1]
  /\ UNCHANGED <<now, clearVars, microtaskQueue, renderTasks, idleTasks, loopVars,
                 callVars>>

queueMicrotask ==
  /\ Script
  /\ Create("microtask", 0, 0, 0)
  /\ microtaskQueue' = microtaskQueue \cup {nextTaskId}
  /\ UNCHANGED <<now, pushVars, clearVars, taskQueue, renderTasks, idleTasks, loopVars,
                 callVars>>

requestIdleCallback ==
  /\ Script
  /\ Create("idle", 0, 0, 0)
  /\ idleTasks' = idleTasks \cup {nextTaskId}
  /\ UNCHANGED <<now, pushVars, clearVars, taskQueue, microtaskQueue, renderTasks,
                 loopVars, callVars>>

\* A render task, the script's or the loop's.
Frame(k) ==
  /\ Create(k, 0, 0, 0)
  /\ renderTasks' = renderTasks \cup {nextTaskId}

requestAnimationFrame ==
  /\ Script
  /\ Frame("frame")
  /\ UNCHANGED <<now, pushVars, clearVars, taskQueue, microtaskQueue, idleTasks,
                 loopVars, callVars>>

\* clearTimeout and the like: the task is looked for in the four arrays only.
Cancel(t) == cancelled' = cancelled \cup ({t} \cap Queued)

cancelTask(t) ==
  /\ Script
  /\ t < nextTaskId /\ kind[t] # "loop"
  /\ Cancel(t)
  /\ cleared' = cleared \cup ({t} \cap (Queued \cup InBatches \cup {task}))
  /\ UNCHANGED <<now, taskVars, pushVars, queueVars, loopVars, callVars>>

clearAllQueues ==
  /\ Script
  /\ taskQueue' = {} /\ microtaskQueue' = {} /\ renderTasks' = {} /\ idleTasks' = {}
  /\ UNCHANGED <<now, taskVars, pushVars, clearVars, loopVars, callVars>>

start ==
  /\ Script
  /\ ~running
  /\ running' = TRUE
  /\ Frame("loop")
  /\ animationFrameId' = nextTaskId
  /\ UNCHANGED <<now, pushVars, clearVars, taskQueue, microtaskQueue, idleTasks, callVars>>

stop ==
  /\ Script
  /\ running' = FALSE
  /\ Cancel(animationFrameId)
  /\ animationFrameId' = 0
  /\ UNCHANGED <<now, taskVars, pushVars, cleared, queueVars, callVars>>

-----------------------------------------------------------------------------
(* Processing. Between two of these steps only the clock moves.             *)

processPendingTasks ==
  /\ depth = 0
  /\ depth' = 1 /\ at' = "micro" /\ executed' = 0
  /\ entered' = now
  /\ taskQueue' = taskQueue \ cancelled
  /\ UNCHANGED <<now, taskVars, pushVars, clearVars, microtaskQueue, renderTasks,
                 idleTasks, loopVars, task, began, batch>>

drainMicrotaskQueue ==
  /\ depth = 0
  /\ depth' = 1 /\ at' = "drain" /\ executed' = 0
  /\ UNCHANGED <<now, taskVars, pushVars, clearVars, queueVars, loopVars, task,
                 entered, began, batch>>

\* Mutant: whether it was cancelled is not looked at.
RunAnyway(t) == task' = t

\* A task taken from its array is run, unless it was cancelled meanwhile.
Run(t) == task' = IF t \in cancelled THEN 0 ELSE t

NextMicrotask ==
  /\ task = 0
  /\ at \in {"micro", "last", "drain"}
  /\ at # "drain" => executed < maxMicrotasksPerCycle
  /\ \E t \in First(microtaskQueue) :
       /\ microtaskQueue' = microtaskQueue \ {t}
       /\ Run(t)
       /\ executed' = IF at = "drain" \/ t \in cancelled THEN executed ELSE executed + 1
  /\ UNCHANGED <<now, taskVars, pushVars, clearVars, taskQueue, renderTasks, idleTasks,
                 loopVars, depth, at, entered, began, batch>>

MicrotasksDone ==
  /\ task = 0
  /\ at \in {"micro", "last"}
  /\ microtaskQueue = {} \/ executed >= maxMicrotasksPerCycle
  /\ at' = IF at = "micro" THEN "macro" ELSE "render"
  /\ UNCHANGED <<now, taskVars, pushVars, clearVars, queueVars, loopVars, depth, task,
                 executed, entered, began, batch>>

DrainDone ==
  /\ task = 0
  /\ at = "drain" /\ microtaskQueue = {}
  /\ depth' = 0 /\ at' = "outside"
  /\ UNCHANGED <<now, taskVars, pushVars, clearVars, queueVars, loopVars, task,
                 executed, entered, began, batch>>

\* Mutant: the sort is not stable.
BeforeUnstable(t, u) ==
  \/ priority[t] < priority[u]
  \/ /\ priority[t] = priority[u]
     /\ \/ executeAt[t] < executeAt[u]
        \/ executeAt[t] = executeAt[u] /\ pushed[t] > pushed[u]

\* The order in which taskQueue is sorted, stably.
Before(t, u) ==
  \/ priority[t] < priority[u]
  \/ /\ priority[t] = priority[u]
     /\ \/ executeAt[t] < executeAt[u]
        \/ executeAt[t] = executeAt[u] /\ pushed[t] < pushed[u]

\* Mutant: the loop of macrotasks goes on at once.
AfterMacrotaskAtOnce == IF at = "macro" THEN "macro" ELSE "last"

\* What follows the macrotask where the innermost call is.
AfterMacrotask == IF at = "macro" THEN "micro" ELSE "last"

executeNextMacrotask ==
  LET live == taskQueue \ cancelled
      ready == {t \in live : executeAt[t] <= now}
  IN
  \/ /\ ready = {}
     /\ taskQueue' = live
     /\ at' = AfterMacrotask
     /\ executed' = 0
     /\ UNCHANGED <<task, began>>
  \/ \E t \in ready :
       /\ \A u \in ready \ {t} : Before(t, u)
       /\ taskQueue' = live \ {t}
       /\ task' = t
       /\ began' = now
       /\ UNCHANGED <<at, executed>>

Due == {t \in taskQueue : executeAt[t] <= entered}

NextMacrotask ==
  /\ task = 0
  /\ at = "first" \/ (at = "macro" /\ Due # {})
  /\ executeNextMacrotask
  /\ UNCHANGED <<now, taskVars, pushVars, clearVars, microtaskQueue, renderTasks,
                 idleTasks, loopVars, depth, entered, batch>>

MacrotasksDone ==
  /\ task = 0
  /\ at = "macro" /\ Due = {}
  /\ at' = "last" /\ executed' = 0 /\ entered' = 0
  /\ UNCHANGED <<now, taskVars, pushVars, clearVars, queueVars, loopVars, depth, task,
                 began, batch>>

\* Mutant: the array is copied but not emptied.
CopyRenderTasks ==
  /\ batch' = [batch EXCEPT ![depth] = renderTasks]
  /\ UNCHANGED renderTasks

\* Mutant: the array is emptied before it is copied.
LoseRenderTasks ==
  /\ batch' = [batch EXCEPT ![depth] = {}]
  /\ renderTasks' = {}

\* executeRenderTasks works on the tasks it finds.
TakeRenderTasks ==
  /\ batch' = [batch EXCEPT ![depth] = renderTasks]
  /\ renderTasks' = {}

\* An iteration renders only when a frame is due, by clocks that are not kept.
Render ==
  /\ at = "render"
  /\ \/ at' = "batch" /\ TakeRenderTasks
     \/ depth > 1 /\ at' = "idle" /\ UNCHANGED <<batch, renderTasks>>
  /\ UNCHANGED <<now, taskVars, pushVars, clearVars, taskQueue, microtaskQueue,
                 idleTasks, loopVars, depth, task, executed, entered, began>>

\* The callback of the loop's own task starts an iteration.
NextRenderTask ==
  /\ task = 0
  /\ at = "batch"
  /\ \E t \in First(batch[depth]) :
       /\ batch' = [batch EXCEPT ![depth] = @ \ {t}]
       /\ IF kind[t] = "loop" /\ t \notin cancelled
          THEN depth < MaxDepth /\ depth' = depth + 1 /\ at' = "first" /\ UNCHANGED task
          ELSE Run(t) /\ UNCHANGED <<depth, at>>
  /\ UNCHANGED <<now, taskVars, pushVars, clearVars, queueVars, loopVars, executed,
                 entered, began>>

RenderDone ==
  /\ task = 0
  /\ at = "batch" /\ batch[depth] = {}
  /\ IF depth = 1 THEN depth' = 0 /\ at' = "outside"
     ELSE at' = "idle" /\ UNCHANGED depth
  /\ executed' = 0
  /\ UNCHANGED <<now, taskVars, pushVars, clearVars, queueVars, loopVars, task, entered,
                 began, batch>>

NextIdleTask ==
  /\ task = 0
  /\ at = "idle"
  /\ \E t \in First(idleTasks) : idleTasks' = idleTasks \ {t} /\ Run(t)
  /\ UNCHANGED <<now, taskVars, pushVars, clearVars, taskQueue, microtaskQueue,
                 renderTasks, loopVars, depth, at, executed, entered, began, batch>>

\* Mutant: one frame at a time, but the id of the last one is still there.
scheduleUnlessFramed ==
  IF running /\ animationFrameId = 0
  THEN Frame("loop") /\ animationFrameId' = nextTaskId
  ELSE UNCHANGED <<taskVars, renderTasks, animationFrameId>>

scheduleNextIteration ==
  IF running
  THEN Frame("loop") /\ animationFrameId' = nextTaskId
  ELSE UNCHANGED <<taskVars, renderTasks, animationFrameId>>

\* Out of time, or of idle tasks: runIteration returns to the loop's callback,
\* and that to the batch its task was in.
IterationEnds ==
  /\ task = 0
  /\ at = "idle"
  /\ depth' = depth - 1 /\ at' = "batch"
  /\ scheduleNextIteration
  /\ UNCHANGED <<now, pushVars, clearVars, taskQueue, microtaskQueue, idleTasks, running,
                 task, executed, entered, began, batch>>

\* A callback returns, or throws. An interval is queued again, whatever became
\* of the queues in its callback.
TaskEnds ==
  /\ task # 0
  /\ task' = 0
  /\ IF at \in {"macro", "first"}
     THEN at' = AfterMacrotask /\ executed' = 0
     ELSE UNCHANGED <<at, executed>>
  /\ IF kind[task] = "interval" /\ task \notin cancelled
     THEN /\ executeAt' = [executeAt EXCEPT ![task] = began + delay[task]]
          /\ taskQueue' = taskQueue \cup {task}
          /\ pushes' = pushes + 1
          /\ pushed' = [pushed EXCEPT ![task] = pushes + 1]
     ELSE UNCHANGED <<executeAt, taskQueue, pushVars>>
  /\ began' = 0
  /\ UNCHANGED <<now, nextTaskId, kind, priority, delay, clearVars, microtaskQueue,
                 renderTasks, idleTasks, loopVars, depth, entered, batch>>

Tick ==
  /\ now < MaxTime
  /\ now' = now + 1
  /\ UNCHANGED <<taskVars, pushVars, clearVars, queueVars, loopVars, callVars>>

-----------------------------------------------------------------------------
Calls ==
  \/ \E p \in Priorities, d \in Delays :
       setTimer("timer", p, d) \/ (d > 0 /\ setTimer("interval", p, d))
  \/ queueMicrotask \/ requestIdleCallback \/ requestAnimationFrame
  \/ \E t \in Ids : cancelTask(t)
  \/ clearAllQueues \/ start \/ stop

Processing ==
  \/ processPendingTasks \/ drainMicrotaskQueue
  \/ NextMicrotask \/ MicrotasksDone \/ DrainDone
  \/ NextMacrotask \/ MacrotasksDone
  \/ Render \/ NextRenderTask \/ RenderDone
  \/ NextIdleTask \/ IterationEnds \/ TaskEnds

Next == Calls \/ Processing \/ Tick

Spec == Init /\ [][Next]_vars

-----------------------------------------------------------------------------
(* Properties.                                                              *)

\* Every variable has its type.
TypeOK ==
  /\ now \in Nat /\ nextTaskId \in 1..(MaxTasks + 1)
  /\ kind \in [Ids -> {"none", "timer", "interval", "microtask", "frame", "idle", "loop"}]
  /\ priority \in [Ids -> Nat] /\ delay \in [Ids -> Nat] /\ executeAt \in [Ids -> Nat]
  /\ pushed \in [Ids -> Nat] /\ pushes \in Nat
  /\ cancelled \subseteq Ids /\ cleared \subseteq Ids
  /\ taskQueue \subseteq Ids /\ microtaskQueue \subseteq Ids
  /\ renderTasks \subseteq Ids /\ idleTasks \subseteq Ids
  /\ running \in BOOLEAN /\ animationFrameId \in Ids \cup {0}
  /\ depth \in 0..MaxDepth
  /\ at \in {"outside", "drain", "micro", "macro", "last", "first", "render", "batch",
             "idle"}
  /\ task \in Ids \cup {0}
  /\ executed \in Nat /\ entered \in Nat /\ began \in Nat
  /\ batch \in [Depths -> SUBSET Ids]

Starts(t) == task' = t /\ task # t

\* Whatever callbacks add, clear and restart, a task waits in one array or one
\* batch only, and in none while it runs: no render task is run twice, and no
\* interval overlaps itself.
NoTaskTwice ==
  /\ task \notin Queued
  /\ \A d \in Depths :
       /\ task \notin batch[d]
       /\ batch[d] \cap Queued = {}
       /\ \A e \in Depths \ {d} : batch[d] \cap batch[e] = {}

\* Of two timers of one priority, the one that was set first and for no longer
\* starts first, at any distance of the two calls, and whatever is cancelled,
\* repeated and sorted between them.
FirstSetFirstRun ==
  [][\A t \in Ids : Starts(t) =>
       ~\E u \in taskQueue \ cancelled :
          /\ kind[t] = "timer" /\ kind[u] = "timer"
          /\ u < t /\ priority[u] = priority[t] /\ delay[u] <= delay[t]]_vars

\* "microtasks execute before next macrotask" (EventLoop.test.ts): as long as
\* tasks are processed no timer starts while microtasks wait, unless their
\* limit was used up. An iteration run as a render task makes no such promise.
MicrotasksFirst ==
  [][\A t \in Ids :
       Starts(t) /\ depth = 1 /\ kind[t] \in {"timer", "interval"}
         => microtaskQueue = {} \/ executed >= maxMicrotasksPerCycle]_vars

Lifecycle ==
  INSTANCE TaskLifecycle WITH
    Task <- Ids, NoTask <- 0, NoKind <- "none",
    Kind <- {"timer", "interval", "microtask", "frame", "idle", "loop"},
    Repeating <- {"interval"}, Own <- {"loop"},
    queued <- Queued, taken <- InBatches, withdrawn <- cancelled, active <- task

\* The loop implements the abstract life of a task: whatever callbacks, batches
\* and nested iterations do between its being set and its turn, a task is run
\* once for every time it was queued, comes back only if it is an interval, and
\* is lost only to a call that cancels it or clears the queues.
TaskContract == Lifecycle!Spec

\* A task that was cleared while it waited does not start. Excepted are the
\* tasks cancelTask cannot find: an interval from inside its callback, a frame
\* whose batch has begun.
ClearedStaysOut ==
  [][\A t \in cleared :
       kind[t] \in {"timer", "microtask", "idle"} => ~Starts(t)]_vars

\* A loop that is running has its next iteration before it, or is in one.
Alive ==
  \/ depth > 1
  \/ \E t \in (renderTasks \cup InBatches) \ cancelled : kind[t] = "loop"

\* No stop and start, in callbacks, batches and iterations, lets a running
\* loop run dry. Only clearAllQueues does: it takes the loop's frame along.
LoopKeepsFrame ==
  [][(running => Alive) /\ ~clearAllQueues => (running => Alive)']_vars

\* What "Cancel interval" says of clearInterval: the interval does not start
\* again. False in the callback of the interval itself, when it is in no array.
ClearIntervalCancels ==
  [][\A t \in cleared : kind[t] = "interval" => ~Starts(t)]_vars
=============================================================================
