-------------------------- MODULE EventLoopProofs --------------------------
(****************************************************************************)
(* Proofs about EventLoop for any tasks, delays, priorities and limits.     *)
(****************************************************************************)
EXTENDS EventLoop, TLAPS

Timed == {"timer", "interval"}

(* Every array holds tasks of its kind, all created.                        *)
Sorted ==
  /\ \A t \in Ids : kind[t] = "none" <=> t >= nextTaskId
  /\ \A t \in taskQueue : kind[t] \in Timed
  /\ \A t \in microtaskQueue : kind[t] = "microtask"
  /\ \A t \in renderTasks : kind[t] \in {"frame", "loop"}
  /\ \A t \in idleTasks : kind[t] = "idle"
  /\ \A d \in Depths : \A t \in batch[d] : kind[t] \in {"frame", "loop"}

(* Where a callback runs says what kind of task it is, and how deep.        *)
Located ==
  /\ at = "outside" <=> depth = 0
  /\ depth = 0 => task = 0
  /\ at \in {"first", "idle"} => depth > 1
  /\ at \in {"macro", "micro", "drain"} => depth = 1
  /\ at = "render" => task = 0
  /\ task # 0 =>
       /\ at \in {"macro", "first"} => kind[task] \in Timed
       /\ at \in {"micro", "last", "drain"} => kind[task] = "microtask"
       /\ at = "batch" => kind[task] = "frame"
       /\ at = "idle" => kind[task] = "idle"

(* Microtasks are done when the next macrotask is looked for.               *)
Calm ==
  at = "macro" /\ task = 0 => microtaskQueue = {} \/ executed >= maxMicrotasksPerCycle

(* Timers are due in the order of the calls that set them, delays apart.    *)
Dated ==
  /\ \A t \in taskQueue : pushed[t] <= pushes
  /\ \A t \in Ids : kind[t] = "timer" => executeAt[t] <= now + delay[t]
  /\ \A t, u \in Ids :
       kind[t] = "timer" /\ kind[u] = "timer" /\ u < t
         => executeAt[u] + delay[t] <= executeAt[t] + delay[u]
  /\ \A t, u \in taskQueue :
       kind[t] = "timer" /\ kind[u] = "timer" /\ u < t => pushed[u] < pushed[t]

(* What was cleared was cancelled, or had left its array.                   *)
Out ==
  \A t \in cleared :
    /\ t < nextTaskId
    /\ kind[t] \in {"timer", "microtask", "idle"} => t \in cancelled \/ t \notin Queued

(* Only tasks that were created are cancelled.                              *)
Marked == \A t \in cancelled : t < nextTaskId

(* A batch is empty but while its level, or one nested in it, is rendered.  *)
Emptied ==
  \A d \in Depths : d > depth \/ (d = depth /\ at # "batch") => batch[d] = {}

IInv ==
  /\ TypeOK
  /\ Emptied
  /\ Marked
  /\ Sorted
  /\ Located
  /\ Calm
  /\ Dated
  /\ Out
  /\ NoTaskTwice

-----------------------------------------------------------------------------
\* A macrotask that starts was in the queue, not cancelled, due, and first.
LEMMA Macrotask ==
  ASSUME executeNextMacrotask
  PROVE  \/ /\ taskQueue' = taskQueue \ cancelled
            /\ at' = AfterMacrotask /\ executed' = 0 /\ task' = task /\ began' = began
         \/ \E t \in taskQueue \ cancelled :
              /\ \A u \in taskQueue \ cancelled :
                   executeAt[u] <= now /\ u # t => Before(t, u)
              /\ taskQueue' = (taskQueue \ cancelled) \ {t}
              /\ task' = t /\ began' = now /\ at' = at /\ executed' = executed
BY Zenon DEF executeNextMacrotask

\* What an interval's end pushes.
LEMMA Pushing ==
  ASSUME TypeOK, TaskEnds
  PROVE  /\ task \in Ids
         /\ \/ /\ kind[task] = "interval" /\ task \notin cancelled
               /\ executeAt' = [executeAt EXCEPT ![task] = began + delay[task]]
               /\ taskQueue' = taskQueue \cup {task}
               /\ pushes' = pushes + 1
               /\ pushed' = [pushed EXCEPT ![task] = pushes + 1]
            \/ UNCHANGED <<executeAt, taskQueue, pushed, pushes>>
BY DEF TypeOK, TaskEnds, pushVars

\* Every variable keeps its type.
LEMMA TypeStep == ASSUME IInv, [Next]_vars PROVE TypeOK'
<1>0. TypeOK /\ Located
  BY DEF IInv
<1>a. /\ Ids \subseteq Nat /\ Depths \subseteq Nat /\ 0 \notin Ids
      /\ 1 \in 0..MaxDepth /\ 0 \in 0..MaxDepth
      /\ Priorities \subseteq Nat /\ Delays \subseteq Nat
      /\ nextTaskId \in Ids => nextTaskId + 1 \in 1..(MaxTasks + 1)
      /\ \A d \in 0..MaxDepth : d < MaxDepth => d + 1 \in 0..MaxDepth
      /\ \A d \in 1..MaxDepth : d \in Depths /\ d \in 0..MaxDepth
      /\ \A d \in 0..MaxDepth : d # 0 => d \in Depths /\ d - 1 \in 0..MaxDepth
  BY LoopAssumption DEF Ids, Depths
<1> USE <1>a
<1>1. ASSUME NEW k \in {"timer", "interval"}, NEW p \in Priorities, NEW d \in Delays,
             setTimer(k, p, d)
      PROVE  TypeOK'
  BY <1>0, <1>1 DEF TypeOK, setTimer, Create, clearVars, loopVars, callVars
<1>2. CASE queueMicrotask
  BY <1>0, <1>2 DEF TypeOK, queueMicrotask, Create, pushVars, clearVars, loopVars, callVars
<1>2a. CASE requestIdleCallback
  BY <1>0, <1>2a DEF TypeOK, requestIdleCallback, Create, pushVars, clearVars, loopVars,
     callVars
<1>2b. CASE requestAnimationFrame
  BY <1>0, <1>2b DEF TypeOK, requestAnimationFrame, Frame, Create, pushVars, clearVars,
     loopVars, callVars
<1>3. ASSUME NEW t \in Ids, cancelTask(t) PROVE TypeOK'
  BY <1>0, <1>3 DEF TypeOK, cancelTask, Cancel, taskVars, pushVars, queueVars, loopVars,
     callVars
<1>4. CASE clearAllQueues
  BY <1>0, <1>4 DEF TypeOK, clearAllQueues, taskVars, pushVars, clearVars, loopVars, callVars
<1>5. CASE start
  BY <1>0, <1>5 DEF TypeOK, start, Frame, Create, pushVars, clearVars, callVars
<1>6. CASE stop
  BY <1>0, <1>6 DEF TypeOK, stop, Cancel, Queued, taskVars, pushVars, queueVars, callVars
<1>7. CASE processPendingTasks
  BY <1>0, <1>7 DEF TypeOK, processPendingTasks, taskVars, pushVars, clearVars, loopVars
<1>7a. CASE drainMicrotaskQueue
  BY <1>0, <1>7a DEF TypeOK, drainMicrotaskQueue, taskVars, pushVars, clearVars, queueVars,
     loopVars
<1>8. CASE NextMicrotask
  BY <1>0, <1>8 DEF TypeOK, NextMicrotask, First, Run, taskVars, pushVars, clearVars, loopVars
<1>9. CASE MicrotasksDone
  BY <1>0, <1>9 DEF TypeOK, MicrotasksDone, taskVars, pushVars, clearVars, queueVars, loopVars
<1>9a. CASE DrainDone
  BY <1>0, <1>9a DEF TypeOK, DrainDone, taskVars, pushVars, clearVars, queueVars, loopVars
<1>9b. CASE MacrotasksDone
  BY <1>0, <1>9b DEF TypeOK, MacrotasksDone, taskVars, pushVars, clearVars, queueVars,
     loopVars
<1>10. CASE NextMacrotask
  <2>1. /\ taskQueue' \subseteq Ids /\ task' \in Ids \cup {0}
        /\ executed' \in Nat /\ began' \in Nat
        /\ at' \in {"first", "macro", "micro", "last"}
    <3>1. executeNextMacrotask /\ at \in {"first", "macro"}
      BY <1>10 DEF NextMacrotask
    <3>2. /\ taskQueue \subseteq Ids /\ task \in Ids \cup {0} /\ executed \in Nat
          /\ began \in Nat /\ now \in Nat
      BY <1>0 DEF TypeOK
    <3>3. AfterMacrotask \in {"micro", "last"}
      BY DEF AfterMacrotask
    <3>4. CASE \E t \in taskQueue \ cancelled :
                 /\ taskQueue' = (taskQueue \ cancelled) \ {t}
                 /\ task' = t /\ began' = now /\ at' = at /\ executed' = executed
      BY <3>1, <3>2, <3>4
    <3>5. CASE /\ taskQueue' = taskQueue \ cancelled
               /\ at' = AfterMacrotask /\ executed' = 0 /\ task' = task /\ began' = began
      BY <3>2, <3>3, <3>5
    <3> QED
      BY <3>1, <3>4, <3>5, Macrotask, Zenon
  <2> QED
    BY <1>0, <1>10, <2>1 DEF TypeOK, NextMacrotask, taskVars, pushVars, clearVars, loopVars
<1>11. CASE Render
  BY <1>0, <1>11 DEF TypeOK, Located, Render, TakeRenderTasks, taskVars, pushVars, clearVars,
     loopVars
<1>12. CASE NextRenderTask
  <2>1. depth # 0 /\ depth \in Depths
    BY <1>0, <1>12 DEF TypeOK, Located, NextRenderTask
  <2>2. PICK t \in First(batch[depth]) :
          /\ batch' = [batch EXCEPT ![depth] = @ \ {t}]
          /\ IF kind[t] = "loop" /\ t \notin cancelled
             THEN depth < MaxDepth /\ depth' = depth + 1 /\ at' = "first" /\ UNCHANGED task
             ELSE Run(t) /\ UNCHANGED <<depth, at>>
    BY <1>12 DEF NextRenderTask
  <2>3. t \in Ids
    BY <1>0, <2>1, <2>2 DEF First, TypeOK
  <2>4. batch' \in [Depths -> SUBSET Ids]
    BY <1>0, <2>1, <2>2 DEF TypeOK
  <2>5. /\ depth' \in 0..MaxDepth /\ task' \in Ids \cup {0}
        /\ at' \in {"outside", "drain", "micro", "macro", "last", "first", "render",
                    "batch", "idle"}
    BY <1>0, <2>2, <2>3 DEF TypeOK, Run
  <2> QED
    BY <1>0, <1>12, <2>4, <2>5 DEF TypeOK, NextRenderTask, taskVars, pushVars, clearVars,
       queueVars, loopVars
<1>13. CASE RenderDone
  BY <1>0, <1>13 DEF TypeOK, RenderDone, taskVars, pushVars, clearVars, queueVars, loopVars
<1>14. CASE NextIdleTask
  BY <1>0, <1>14 DEF TypeOK, NextIdleTask, First, Run, taskVars, pushVars, clearVars, loopVars
<1>15. CASE IterationEnds
  <2>1. depth' \in 0..MaxDepth
    BY <1>0, <1>15 DEF TypeOK, Located, IterationEnds
  <2>2. CASE running
    <3>1. Frame("loop") /\ animationFrameId' = nextTaskId
      BY <1>15, <2>2 DEF IterationEnds, scheduleNextIteration
    <3>2. /\ nextTaskId' \in 1..(MaxTasks + 1) /\ renderTasks' \subseteq Ids
          /\ animationFrameId' \in Ids \cup {0}
          /\ kind' \in [Ids -> {"none", "timer", "interval", "microtask", "frame", "idle",
                               "loop"}]
      BY <1>0, <3>1 DEF Frame, Create, TypeOK
    <3>3. /\ priority' \in [Ids -> Nat] /\ delay' \in [Ids -> Nat]
          /\ executeAt' \in [Ids -> Nat]
      BY <1>0, <3>1 DEF Frame, Create, TypeOK
    <3> QED
      BY <1>0, <1>15, <2>1, <3>2, <3>3 DEF TypeOK, IterationEnds, pushVars, clearVars
  <2>3. CASE ~running
    BY <1>0, <1>15, <2>1, <2>3 DEF TypeOK, IterationEnds, scheduleNextIteration, taskVars,
       pushVars, clearVars
  <2> QED
    BY <2>2, <2>3
<1>16. CASE TaskEnds
  <2>1. began + delay[task] \in Nat /\ pushes + 1 \in Nat /\ task \in Ids
    BY <1>0, <1>16, Pushing DEF TypeOK
  <2>2. /\ executeAt' \in [Ids -> Nat] /\ pushed' \in [Ids -> Nat] /\ pushes' \in Nat
        /\ taskQueue' \subseteq Ids
    <3>1. /\ executeAt \in [Ids -> Nat] /\ pushed \in [Ids -> Nat] /\ pushes \in Nat
          /\ taskQueue \subseteq Ids
      BY <1>0 DEF TypeOK
    <3>2. CASE UNCHANGED <<executeAt, taskQueue, pushed, pushes>>
      BY <3>1, <3>2
    <3>3. CASE /\ executeAt' = [executeAt EXCEPT ![task] = began + delay[task]]
               /\ taskQueue' = taskQueue \cup {task}
               /\ pushes' = pushes + 1
               /\ pushed' = [pushed EXCEPT ![task] = pushes + 1]
      BY <2>1, <3>1, <3>3
    <3> QED
      BY <1>0, <1>16, <3>2, <3>3, Pushing
  <2>3. at' \in {at, "micro", "last"} /\ executed' \in Nat
    BY <1>0, <1>16 DEF TypeOK, TaskEnds, AfterMacrotask
  <2> QED
    BY <1>0, <1>16, <2>2, <2>3 DEF TypeOK, TaskEnds, clearVars, loopVars
<1>17. CASE Tick
  BY <1>0, <1>17 DEF TypeOK, Tick, taskVars, pushVars, clearVars, queueVars, loopVars, callVars
<1>18. CASE UNCHANGED vars
  BY <1>0, <1>18 DEF TypeOK, vars, taskVars, pushVars, clearVars, queueVars, loopVars, callVars
<1> QED
  BY <1>1, <1>2, <1>2a, <1>2b, <1>3, <1>4, <1>5, <1>6, <1>7, <1>7a, <1>8, <1>9, <1>9a,
     <1>9b, <1>10, <1>11, <1>12, <1>13, <1>14, <1>15, <1>16, <1>17, <1>18 DEF Next, Calls, Processing

-----------------------------------------------------------------------------
(* What a step does to the tasks, whichever action it is.                   *)

\* It creates one, in the array of its kind.
New(k, p, d) ==
  /\ nextTaskId \in Ids /\ nextTaskId' = nextTaskId + 1
  /\ kind' = [kind EXCEPT ![nextTaskId] = k]
  /\ delay' = [delay EXCEPT ![nextTaskId] = d]
  /\ executeAt' = [executeAt EXCEPT ![nextTaskId] = IF k \in Timed THEN now + d ELSE 0]
  /\ IF k \in Timed
     THEN /\ taskQueue' = taskQueue \cup {nextTaskId}
          /\ pushes' = pushes + 1
          /\ pushed' = [pushed EXCEPT ![nextTaskId] = pushes + 1]
     ELSE UNCHANGED <<taskQueue, pushes, pushed>>
  /\ microtaskQueue' = IF k = "microtask" THEN microtaskQueue \cup {nextTaskId}
                       ELSE microtaskQueue
  /\ renderTasks' = IF k \in {"frame", "loop"} THEN renderTasks \cup {nextTaskId}
                    ELSE renderTasks
  /\ idleTasks' = IF k = "idle" THEN idleTasks \cup {nextTaskId} ELSE idleTasks
  /\ UNCHANGED <<now, task, batch, cancelled, cleared>>

\* It takes tasks out of arrays, and one of them may be the one that runs.
Taken ==
  /\ taskQueue' \subseteq taskQueue /\ microtaskQueue' \subseteq microtaskQueue
  /\ idleTasks' \subseteq idleTasks /\ renderTasks' \subseteq renderTasks
  /\ \A d \in Depths : batch'[d] \subseteq batch[d]
  /\ \/ task' \in {task, 0}
     \/ /\ task = 0
        /\ \/ task' \in taskQueue \ taskQueue'
           \/ task' \in microtaskQueue \ microtaskQueue'
           \/ task' \in idleTasks \ idleTasks'
           \/ \E d \in Depths : task' \in batch[d] \ batch'[d]
  /\ UNCHANGED <<executeAt, pushed, pushes>>

\* It makes the render tasks a batch.
Batched ==
  /\ task = 0
  /\ renderTasks' = {}
  /\ \E e \in Depths : batch' = [batch EXCEPT ![e] = renderTasks]
  /\ UNCHANGED <<task, taskQueue, microtaskQueue, idleTasks, executeAt, pushed, pushes>>

\* It puts the interval that ran back.
Requeued ==
  /\ task \in Ids /\ kind[task] = "interval"
  /\ task' = 0
  /\ \E n \in Nat : executeAt' = [executeAt EXCEPT ![task] = n]
  /\ taskQueue' = taskQueue \cup {task}
  /\ pushes' = pushes + 1 /\ pushed' = [pushed EXCEPT ![task] = pushes + 1]
  /\ UNCHANGED <<microtaskQueue, renderTasks, idleTasks, batch>>

Marks ==
  \/ UNCHANGED <<cancelled, cleared>>
  \/ /\ cancelled \subseteq cancelled' /\ cancelled' \subseteq cancelled \cup Queued
     /\ UNCHANGED cleared
  \/ \E t \in Ids : /\ t < nextTaskId
                    /\ cancelled' = cancelled \cup ({t} \cap Queued)
                    /\ cleared \subseteq cleared' /\ cleared' \subseteq cleared \cup {t}

Old ==
  /\ UNCHANGED <<kind, nextTaskId, delay>>
  /\ now <= now'
  /\ Taken \/ Batched \/ Requeued
  /\ Marks

\* Every step makes one task, or only moves and marks tasks there are.
LEMMA Effects ==
  ASSUME IInv, [Next]_vars
  PROVE  Old \/ \E k \in Timed \cup {"microtask", "idle", "frame", "loop"} :
                  \E p \in Nat, d \in Nat : New(k, p, d)
<1>0. TypeOK /\ Located /\ now \in Nat /\ 0 \in Nat
  BY DEF IInv, TypeOK
<1>a. Priorities \subseteq Nat /\ Delays \subseteq Nat
  BY LoopAssumption
<1>b. UNCHANGED <<taskQueue, microtaskQueue, idleTasks, renderTasks, task, batch,
                  executeAt, pushed, pushes>> => Taken
  BY DEF Taken
<1>1. ASSUME NEW k \in {"timer", "interval"}, NEW p \in Priorities, NEW d \in Delays,
             setTimer(k, p, d)
      PROVE  New(k, p, d) /\ p \in Nat /\ d \in Nat
  BY <1>a, <1>1 DEF setTimer, Create, New, Timed, clearVars, loopVars, callVars
<1>2. queueMicrotask => New("microtask", 0, 0)
  BY DEF queueMicrotask, Create, New, Timed, pushVars, clearVars, loopVars, callVars
<1>3. requestIdleCallback => New("idle", 0, 0)
  BY DEF requestIdleCallback, Create, New, Timed, pushVars, clearVars, loopVars, callVars
<1>4. requestAnimationFrame => New("frame", 0, 0)
  BY DEF requestAnimationFrame, Frame, Create, New, Timed, pushVars, clearVars, loopVars,
     callVars
<1>5. start => New("loop", 0, 0)
  BY DEF start, Frame, Create, New, Timed, pushVars, clearVars, callVars
<1>6. ASSUME IterationEnds PROVE Old \/ New("loop", 0, 0)
  <2>1. CASE running
    BY <1>6, <2>1 DEF IterationEnds, scheduleNextIteration, Frame, Create, New, Timed,
       pushVars, clearVars
  <2>2. CASE ~running
    BY <1>0, <1>6, <2>2, <1>b DEF IterationEnds, scheduleNextIteration, taskVars, pushVars,
       clearVars, Old, Marks
  <2> QED
    BY <2>1, <2>2
<1>7. ASSUME NEW t \in Ids, cancelTask(t) PROVE Old
  BY <1>0, <1>7, <1>b DEF cancelTask, Cancel, taskVars, pushVars, queueVars, callVars, Old, Marks
<1>8. clearAllQueues => Old
  BY <1>0 DEF clearAllQueues, taskVars, pushVars, clearVars, callVars, Old, Marks, Taken
<1>9. stop => Old
  BY <1>0, <1>b DEF stop, Cancel, taskVars, pushVars, queueVars, callVars, Old, Marks
<1>10. processPendingTasks => Old
  BY <1>0 DEF processPendingTasks, taskVars, pushVars, clearVars, Old, Marks, Taken
<1>11. drainMicrotaskQueue \/ MicrotasksDone \/ DrainDone \/ MacrotasksDone \/ RenderDone
         => Old
  BY <1>0, <1>b DEF drainMicrotaskQueue, MicrotasksDone, DrainDone, MacrotasksDone, RenderDone,
     taskVars, pushVars, clearVars, queueVars, Old, Marks
<1>12. NextMicrotask => Old
  BY <1>0 DEF NextMicrotask, First, Run, taskVars, pushVars, clearVars, Old, Marks, Taken
<1>13. ASSUME NextMacrotask PROVE Old
  <2>1. Taken
    <3>1. task = 0 /\ executeNextMacrotask
          /\ UNCHANGED <<microtaskQueue, renderTasks, idleTasks, batch, executeAt, pushed,
                         pushes>>
      BY <1>13 DEF NextMacrotask, taskVars, pushVars
    <3>2. taskQueue' \subseteq taskQueue
          /\ (task' = task \/ task' \in taskQueue \ taskQueue')
      BY <3>1, Macrotask
    <3> QED
      BY <3>1, <3>2 DEF Taken
  <2> QED
    BY <1>0, <1>13, <2>1 DEF NextMacrotask, taskVars, clearVars, Old, Marks
<1>14. Render => Old
  <2> SUFFICES ASSUME Render PROVE Old
    OBVIOUS
  <2>1. CASE TakeRenderTasks
    <3>1. task = 0 /\ depth \in Depths
      BY <1>0, LoopAssumption DEF Render, Located, TypeOK, Depths
    <3>2. Batched
      BY <2>1, <3>1 DEF Render, TakeRenderTasks, Batched, taskVars, pushVars
    <3> QED
      BY <1>0, <3>2 DEF Render, Old, Marks, taskVars, clearVars
  <2>2. CASE UNCHANGED <<batch, renderTasks>>
    BY <1>0, <1>b, <2>2 DEF Render, Old, Marks, taskVars, pushVars, clearVars
  <2> QED
    BY <2>1, <2>2 DEF Render
<1>15. ASSUME NextRenderTask PROVE Old
  <2>1. depth \in Depths /\ task = 0
    BY <1>0, <1>15, LoopAssumption DEF NextRenderTask, Located, TypeOK, Depths
  <2>2. PICK t \in First(batch[depth]) :
          /\ batch' = [batch EXCEPT ![depth] = @ \ {t}]
          /\ UNCHANGED task \/ Run(t)
    BY <1>15 DEF NextRenderTask
  <2>3. t \in batch[depth] \ batch'[depth] /\ \A d \in Depths : batch'[d] \subseteq batch[d]
    BY <1>0, <2>1, <2>2 DEF First, TypeOK
  <2>4. task' \in {0, t}
    BY <2>1, <2>2 DEF Run
  <2>5. Taken
    BY <1>15, <2>1, <2>3, <2>4 DEF Taken, NextRenderTask, taskVars, pushVars, queueVars
  <2> QED
    BY <1>0, <1>15, <2>5 DEF NextRenderTask, Old, Marks, taskVars, clearVars
<1>16. NextIdleTask => Old
  BY <1>0 DEF NextIdleTask, First, Run, taskVars, pushVars, clearVars, Old, Marks, Taken
<1>17. ASSUME TaskEnds PROVE Old
  <2>1. UNCHANGED <<kind, nextTaskId, delay, now, cancelled, cleared, microtaskQueue,
                    renderTasks, idleTasks, batch>> /\ task' = 0
    BY <1>17 DEF TaskEnds, clearVars
  <2>2. CASE UNCHANGED <<executeAt, taskQueue, pushed, pushes>>
    BY <1>0, <2>1, <2>2 DEF Old, Marks, Taken
  <2>3. CASE ~UNCHANGED <<executeAt, taskQueue, pushed, pushes>>
    <3>1. began + delay[task] \in Nat
      BY <1>0, <1>17, Pushing DEF TypeOK
    <3>2. Requeued
      BY <1>0, <1>17, <2>1, <2>3, <3>1, Pushing, Zenon DEF Requeued
    <3> QED
      BY <1>0, <2>1, <3>2 DEF Old, Marks
  <2> QED
    BY <2>2, <2>3
<1>18. Tick => Old
  BY <1>0, <1>b DEF Tick, taskVars, pushVars, clearVars, queueVars, callVars, Old, Marks
<1>19. UNCHANGED vars => Old
  BY <1>0, <1>b DEF vars, taskVars, pushVars, clearVars, queueVars, callVars, Old, Marks
<1>20. ASSUME \E k \in {"timer", "interval"}, p \in Priorities, d \in Delays :
                setTimer(k, p, d)
       PROVE  \E k \in Timed : \E p \in Nat, d \in Nat : New(k, p, d)
  BY <1>1, <1>20 DEF Timed
<1>21. Calls => \/ Old
               \/ \E k \in Timed \cup {"microtask", "idle", "frame", "loop"} :
                    \E p \in Nat, d \in Nat : New(k, p, d)
  BY <1>0, <1>2, <1>3, <1>4, <1>5, <1>7, <1>8, <1>9, <1>20 DEF Calls
<1> QED
  BY <1>0, <1>6, <1>10, <1>11, <1>12, <1>13, <1>14, <1>15, <1>16, <1>17, <1>18, <1>19, <1>21
     DEF Next, Processing

-----------------------------------------------------------------------------
(* The parts of the invariant that follow from the effects.                 *)

\* A task made now is in no array yet, and older than none.
LEMMA Fresh ==
  ASSUME IInv, nextTaskId \in Ids
  PROVE  /\ nextTaskId \notin Queued /\ task # nextTaskId
         /\ \A d \in Depths : nextTaskId \notin batch[d]
         /\ nextTaskId \notin cleared
         /\ \A t \in Ids : kind[t] # "none" => t < nextTaskId /\ t # nextTaskId
<1>1. kind[nextTaskId] = "none"
  BY DEF IInv, Sorted, TypeOK
<1>2. \A t \in Ids : kind[t] # "none" => t < nextTaskId /\ t # nextTaskId
  BY DEF IInv, Sorted, TypeOK, Ids
<1>3. nextTaskId \notin Queued /\ \A d \in Depths : nextTaskId \notin batch[d]
  BY <1>1 DEF IInv, Sorted, Queued, Timed
<1>4. nextTaskId \notin cleared
  BY DEF IInv, Out, TypeOK
<1>5. task # nextTaskId
  <2>1. task # 0 => kind[task] \in Timed \cup {"microtask", "frame", "idle"}
    BY DEF IInv, Located, TypeOK
  <2>2. nextTaskId # 0
    BY DEF Ids
  <2> QED
    BY <1>1, <2>1, <2>2 DEF Timed
<1> QED
  BY <1>2, <1>3, <1>4, <1>5

\* The arrays keep holding tasks of their kind.
LEMMA SortedStep == ASSUME IInv, TypeOK', [Next]_vars PROVE Sorted'
<1>1. ASSUME NEW k \in Timed \cup {"microtask", "idle", "frame", "loop"},
             NEW p \in Nat, NEW d \in Nat, New(k, p, d)
      PROVE  Sorted'
  <2>1. /\ kind' = [kind EXCEPT ![nextTaskId] = k] /\ nextTaskId \in Ids
        /\ nextTaskId' = nextTaskId + 1 /\ k # "none"
    BY <1>1 DEF New, Timed
  <2>2. \A t \in Ids : kind'[t] = IF t = nextTaskId THEN k ELSE kind[t]
    BY <2>1 DEF IInv, TypeOK
  <2>3. \A t \in Ids : kind'[t] = "none" <=> t >= nextTaskId'
    BY <2>1, <2>2 DEF IInv, Sorted, Ids
  <2>4. /\ \A t \in taskQueue' : kind'[t] \in Timed
        /\ \A t \in microtaskQueue' : kind'[t] = "microtask"
        /\ \A t \in renderTasks' : kind'[t] \in {"frame", "loop"}
        /\ \A t \in idleTasks' : kind'[t] = "idle"
    <3>1. /\ taskQueue \subseteq Ids /\ microtaskQueue \subseteq Ids
          /\ renderTasks \subseteq Ids /\ idleTasks \subseteq Ids
      BY DEF IInv, TypeOK
    <3>2. nextTaskId \notin Queued
      BY <2>1, Fresh
    <3> QED
      BY <1>1, <2>1, <2>2, <3>1, <3>2 DEF New, IInv, Sorted, Queued
  <2>5. \A e \in Depths : \A t \in batch'[e] : kind'[t] \in {"frame", "loop"}
    <3>1. batch' = batch /\ \A e \in Depths : batch[e] \subseteq Ids /\ nextTaskId \notin batch[e]
      BY <1>1, <2>1, Fresh DEF New, IInv, TypeOK
    <3> QED
      BY <2>2, <3>1 DEF IInv, Sorted
  <2> QED
    BY <2>3, <2>4, <2>5 DEF Sorted
<1>2. ASSUME Old PROVE Sorted'
  <2>1. UNCHANGED <<kind, nextTaskId>>
    BY <1>2 DEF Old
  <2>2. CASE Taken
    BY <2>1, <2>2 DEF Taken, IInv, Sorted
  <2>3. CASE Batched
    BY <2>1, <2>3 DEF Batched, IInv, Sorted, TypeOK
  <2>4. CASE Requeued
    BY <2>1, <2>4 DEF Requeued, IInv, Sorted, Timed
  <2> QED
    BY <1>2, <2>2, <2>3, <2>4 DEF Old
<1> QED
  BY <1>1, <1>2, Effects

\* Only a task that was created is cancelled.
LEMMA MarkedStep == ASSUME IInv, TypeOK', [Next]_vars PROVE Marked'
<1>1. ASSUME NEW k \in Timed \cup {"microtask", "idle", "frame", "loop"},
             NEW p \in Nat, NEW d \in Nat, New(k, p, d)
      PROVE  Marked'
  BY <1>1 DEF New, IInv, Marked, TypeOK, Ids
<1>2. ASSUME Old PROVE Marked'
  <2>1. nextTaskId' = nextTaskId /\ Marks
    BY <1>2 DEF Old
  <2>2. cancelled' \subseteq cancelled \cup Queued
    BY <2>1 DEF Marks
  <2>3. \A t \in Queued : t \in Ids /\ kind[t] # "none"
    BY DEF IInv, Sorted, Queued, TypeOK, Timed
  <2>4. \A t \in Queued : t < nextTaskId
    BY <2>3 DEF IInv, Sorted, TypeOK, Ids
  <2> QED
    BY <2>1, <2>2, <2>4 DEF IInv, Marked
<1> QED
  BY <1>1, <1>2, Effects

\* A cleared task stays cancelled, or out of its array.
LEMMA OutStep == ASSUME IInv, TypeOK', [Next]_vars PROVE Out'
<1>1. ASSUME NEW k \in Timed \cup {"microtask", "idle", "frame", "loop"},
             NEW p \in Nat, NEW d \in Nat, New(k, p, d)
      PROVE  Out'
  <2>1. /\ nextTaskId \in Ids /\ nextTaskId' = nextTaskId + 1
        /\ kind' = [kind EXCEPT ![nextTaskId] = k]
        /\ Queued' \subseteq Queued \cup {nextTaskId}
        /\ UNCHANGED <<cancelled, cleared>>
    BY <1>1 DEF New, Queued
  <2>a. nextTaskId \notin cleared
    BY <2>1, Fresh
  <2>2. /\ nextTaskId \notin cleared /\ nextTaskId \in Nat /\ cleared \subseteq Ids
        /\ Ids \subseteq Nat
    BY <2>a DEF Ids, IInv, TypeOK
  <2>3. \A t \in cleared : kind'[t] = kind[t] /\ t # nextTaskId
    BY <2>1, <2>2 DEF IInv, TypeOK
  <2> QED
    BY <2>1, <2>2, <2>3 DEF IInv, Out
<1>2. ASSUME Old PROVE Out'
  <2>1. UNCHANGED <<kind, nextTaskId>>
    BY <1>2 DEF Old
  <2>2. \A t \in Ids : kind[t] \in {"timer", "microtask", "idle"} /\ t \in Queued' => t \in Queued
    BY <1>2 DEF Old, Taken, Batched, Requeued, Queued
  <2>3. cleared \subseteq Ids
    BY DEF IInv, TypeOK
  <2>4. CASE cancelled \subseteq cancelled' /\ UNCHANGED cleared
    BY <2>1, <2>2, <2>3, <2>4 DEF IInv, Out
  <2>5. ASSUME NEW t \in Ids, t < nextTaskId, cancelled' = cancelled \cup ({t} \cap Queued),
               cleared \subseteq cleared', cleared' \subseteq cleared \cup {t}
        PROVE  Out'
    BY <2>1, <2>2, <2>3, <2>5 DEF IInv, Out
  <2> QED
    BY <1>2, <2>4, <2>5 DEF Old, Marks
<1> QED
  BY <1>1, <1>2, Effects

\* Tasks in different arrays are of different kinds.
LEMMA Apart ==
  ASSUME IInv
  PROVE  /\ taskQueue \cap microtaskQueue = {} /\ taskQueue \cap renderTasks = {}
         /\ taskQueue \cap idleTasks = {} /\ microtaskQueue \cap renderTasks = {}
         /\ microtaskQueue \cap idleTasks = {} /\ renderTasks \cap idleTasks = {}
         /\ \A d \in Depths : batch[d] \cap Queued = {}
BY DEF IInv, Sorted, Timed, NoTaskTwice

\* No task comes to be in two places.
LEMMA PlacesStep == ASSUME IInv, TypeOK', [Next]_vars PROVE NoTaskTwice'
<1>i. /\ task \notin Queued
      /\ \A d \in Depths :
           /\ task \notin batch[d]
           /\ batch[d] \cap Queued = {}
           /\ \A e \in Depths \ {d} : batch[d] \cap batch[e] = {}
  BY DEF IInv, NoTaskTwice
<1>z. 0 \notin Queued /\ \A d \in Depths : 0 \notin batch[d]
  BY DEF IInv, TypeOK, Queued, Ids
<1>1. ASSUME NEW k \in Timed \cup {"microtask", "idle", "frame", "loop"},
             NEW p \in Nat, NEW d \in Nat, New(k, p, d)
      PROVE  NoTaskTwice'
  <2>1. /\ nextTaskId \in Ids /\ Queued' \subseteq Queued \cup {nextTaskId}
        /\ UNCHANGED <<task, batch>>
    BY <1>1 DEF New, Queued
  <2>2. task # nextTaskId /\ \A e \in Depths : nextTaskId \notin batch[e]
    BY <2>1, Fresh
  <2> QED
    BY <1>i, <2>1, <2>2 DEF NoTaskTwice
<1>2. CASE Taken
  <2>1. Queued' \subseteq Queued /\ \A d \in Depths : batch'[d] \subseteq batch[d]
    BY <1>2 DEF Taken, Queued
  <2>2. task' \notin Queued' /\ \A d \in Depths : task' \notin batch'[d]
    <3>1. CASE task' \in {task, 0}
      BY <1>i, <1>z, <2>1, <3>1
    <3>2. CASE task' \in taskQueue \ taskQueue'
      BY <1>2, <1>i, <2>1, <3>2, Apart DEF Taken, Queued
    <3>3. CASE task' \in microtaskQueue \ microtaskQueue'
      BY <1>2, <1>i, <2>1, <3>3, Apart DEF Taken, Queued
    <3>4. CASE task' \in idleTasks \ idleTasks'
      BY <1>2, <1>i, <2>1, <3>4, Apart DEF Taken, Queued
    <3>5. CASE \E d \in Depths : task' \in batch[d] \ batch'[d]
      BY <1>i, <2>1, <3>5
    <3> QED
      BY <1>2, <3>1, <3>2, <3>3, <3>4, <3>5 DEF Taken
  <2> QED
    BY <1>i, <2>1, <2>2 DEF NoTaskTwice
<1>3. CASE Batched
  <2>1. PICK e \in Depths : batch' = [batch EXCEPT ![e] = renderTasks]
    BY <1>3 DEF Batched
  <2>2. \A d \in Depths : batch'[d] = IF d = e THEN renderTasks ELSE batch[d]
    BY <2>1 DEF IInv, TypeOK
  <2>3. /\ Queued' = taskQueue \cup microtaskQueue \cup idleTasks /\ task' = task
        /\ renderTasks \subseteq Queued /\ Queued' \subseteq Queued
    BY <1>3 DEF Batched, Queued
  <2>4. renderTasks \cap Queued' = {}
    BY <2>3, Apart
  <2> QED
    BY <1>i, <2>2, <2>3, <2>4 DEF NoTaskTwice
<1>4. CASE Requeued
  <2>1. Queued' = Queued \cup {task} /\ batch' = batch /\ task' = 0 /\ task # 0
    BY <1>4 DEF Requeued, Queued, Ids
  <2> QED
    BY <1>i, <1>z, <2>1 DEF NoTaskTwice
<1> QED
  BY <1>1, <1>2, <1>3, <1>4, Effects DEF Old

\* Later calls keep later due times and later pushes.
LEMMA DatedStep == ASSUME IInv, TypeOK', [Next]_vars PROVE Dated'
<1>i. /\ \A t \in taskQueue : pushed[t] <= pushes
      /\ \A t \in Ids : kind[t] = "timer" => executeAt[t] <= now + delay[t]
      /\ \A t, u \in Ids :
           kind[t] = "timer" /\ kind[u] = "timer" /\ u < t
             => executeAt[u] + delay[t] <= executeAt[t] + delay[u]
      /\ \A t, u \in taskQueue :
           kind[t] = "timer" /\ kind[u] = "timer" /\ u < t => pushed[u] < pushed[t]
  BY DEF IInv, Dated
<1>n. Ids \subseteq Nat
  BY DEF Ids
<1>t. /\ now \in Nat /\ now' \in Nat /\ pushes \in Nat /\ taskQueue \subseteq Ids
      /\ \A t \in Ids : executeAt[t] \in Nat /\ delay[t] \in Nat /\ pushed[t] \in Nat
      /\ Ids \subseteq Nat
  BY <1>n DEF IInv, TypeOK
<1>1. ASSUME NEW k \in Timed \cup {"microtask", "idle", "frame", "loop"},
             NEW p \in Nat, NEW d \in Nat, New(k, p, d)
      PROVE  Dated'
  <2> DEFINE n == nextTaskId
  <2>1. /\ n \in Ids /\ now' = now
        /\ \A t \in Ids : kind'[t] = IF t = n THEN k ELSE kind[t]
        /\ \A t \in Ids : delay'[t] = IF t = n THEN d ELSE delay[t]
        /\ \A t \in Ids : t # n => executeAt'[t] = executeAt[t]
        /\ k = "timer" => executeAt'[n] = now + d
    BY <1>1 DEF New, IInv, TypeOK, Timed
  <2>2. \A t \in Ids : kind[t] # "none" => t < n /\ t # n
    BY <2>1, Fresh
  <2>3. n \notin taskQueue
    BY <2>1, Fresh DEF Queued
  <2> HIDE DEF n
  <2>4. \A t \in Ids : kind'[t] = "timer" => executeAt'[t] <= now' + delay'[t]
    BY <1>i, <1>t, <2>1
  <2>5. \A t, u \in Ids :
          kind'[t] = "timer" /\ kind'[u] = "timer" /\ u < t
            => executeAt'[u] + delay'[t] <= executeAt'[t] + delay'[u]
    <3> SUFFICES ASSUME NEW t \in Ids, NEW u \in Ids, kind'[t] = "timer",
                        kind'[u] = "timer", u < t
                 PROVE  executeAt'[u] + delay'[t] <= executeAt'[t] + delay'[u]
      OBVIOUS
    <3>1. u # n
      <4> SUFFICES ASSUME u = n PROVE FALSE
        OBVIOUS
      <4>1. t # n /\ kind[t] = "timer"
        BY <1>t, <2>1
      <4> QED
        BY <1>t, <2>2, <4>1
    <3>2. kind[u] = "timer" /\ delay'[u] = delay[u] /\ executeAt'[u] = executeAt[u]
      BY <2>1, <3>1
    <3>3. CASE t = n
      BY <1>i, <1>t, <2>1, <3>2, <3>3
    <3>4. CASE t # n
      BY <1>i, <2>1, <3>2, <3>4
    <3> QED
      BY <3>3, <3>4
  <2>6. /\ \A t \in taskQueue' : pushed'[t] <= pushes'
        /\ \A t, u \in taskQueue' :
             kind'[t] = "timer" /\ kind'[u] = "timer" /\ u < t => pushed'[u] < pushed'[t]
    <3>1. CASE k \in Timed
      <4>1. /\ taskQueue' = taskQueue \cup {n} /\ pushes' = pushes + 1
            /\ \A t \in Ids : pushed'[t] = IF t = n THEN pushes + 1 ELSE pushed[t]
        BY <1>1, <3>1 DEF New, IInv, TypeOK, n
      <4>2. ASSUME NEW t \in taskQueue', NEW u \in taskQueue', kind'[t] = "timer",
                   kind'[u] = "timer", u < t
            PROVE  pushed'[u] < pushed'[t]
        <5>1. u # n
          <6> SUFFICES ASSUME u = n PROVE FALSE
            OBVIOUS
          <6>1. t # n /\ t \in Ids /\ kind[t] = "timer"
            BY <1>t, <2>1, <4>1, <4>2
          <6> QED
            BY <1>t, <2>2, <4>2, <6>1
        <5>2. u \in taskQueue /\ kind[u] = "timer" /\ pushed'[u] = pushed[u] /\ u \in Ids
          BY <1>t, <2>1, <4>1, <4>2, <5>1
        <5>3. CASE t = n
          BY <1>i, <1>t, <2>1, <4>1, <5>2, <5>3
        <5>4. CASE t # n
          BY <1>i, <1>t, <2>1, <4>1, <4>2, <5>2, <5>4
        <5> QED
          BY <5>3, <5>4
      <4>3. \A t \in taskQueue' : pushed'[t] <= pushes'
        BY <1>i, <1>t, <2>1, <4>1
      <4> QED
        BY <4>2, <4>3
    <3>2. CASE k \notin Timed
      <4>1. UNCHANGED <<taskQueue, pushes, pushed>>
        BY <1>1, <3>2 DEF New
      <4> QED
        BY <1>i, <1>t, <2>1, <2>3, <4>1
    <3> QED
      BY <3>1, <3>2
  <2> QED
    BY <2>4, <2>5, <2>6 DEF Dated
<1>2. ASSUME Old PROVE Dated'
  <2>1. UNCHANGED <<kind, delay>> /\ now <= now'
    BY <1>2 DEF Old
  <2>2. CASE taskQueue' \subseteq taskQueue /\ UNCHANGED <<executeAt, pushed, pushes>>
    BY <1>i, <1>t, <2>1, <2>2 DEF Dated
  <2>3. CASE Requeued
    <3>1. /\ task \in Ids /\ kind[task] = "interval"
          /\ taskQueue' = taskQueue \cup {task} /\ pushes' = pushes + 1
          /\ \A t \in Ids : pushed'[t] = IF t = task THEN pushes + 1 ELSE pushed[t]
          /\ \A t \in Ids : t # task => executeAt'[t] = executeAt[t]
      BY <2>3 DEF Requeued, IInv, TypeOK
    <3>2. /\ \A t \in Ids : kind'[t] = "timer" => executeAt'[t] <= now' + delay'[t]
          /\ \A t, u \in Ids :
               kind'[t] = "timer" /\ kind'[u] = "timer" /\ u < t
                 => executeAt'[u] + delay'[t] <= executeAt'[t] + delay'[u]
      BY <1>i, <1>t, <2>1, <3>1
    <3>3. /\ \A t \in taskQueue' : pushed'[t] <= pushes'
          /\ \A t, u \in taskQueue' :
               kind'[t] = "timer" /\ kind'[u] = "timer" /\ u < t => pushed'[u] < pushed'[t]
      BY <1>i, <1>t, <2>1, <3>1
    <3> QED
      BY <3>2, <3>3 DEF Dated
  <2> QED
    BY <1>2, <2>2, <2>3 DEF Old, Taken, Batched
<1> QED
  BY <1>1, <1>2, Effects

-----------------------------------------------------------------------------
(* The parts of the invariant about control.                                *)

\* Calls of a script leave control where it is.
LEMMA CallsStay ==
  ASSUME TypeOK, Calls
  PROVE  /\ Script /\ UNCHANGED <<depth, at, task, executed>>
         /\ \A t \in Ids : t # nextTaskId => kind'[t] = kind[t]
<1> DEFINE Stays == Script /\ UNCHANGED <<depth, at, task, executed>>
           Keeps == kind' = kind \/ \E k : kind' = [kind EXCEPT ![nextTaskId] = k]
<1>1. ASSUME NEW k, NEW p, NEW d, setTimer(k, p, d) PROVE Stays /\ Keeps
  BY <1>1 DEF setTimer, Create, callVars
<1>2. queueMicrotask => Stays /\ Keeps
  BY DEF queueMicrotask, Create, callVars
<1>3. requestIdleCallback => Stays /\ Keeps
  BY DEF requestIdleCallback, Create, callVars
<1>4. requestAnimationFrame => Stays /\ Keeps
  BY DEF requestAnimationFrame, Frame, Create, callVars
<1>5. ASSUME NEW t, cancelTask(t) PROVE Stays /\ Keeps
  BY <1>5 DEF cancelTask, taskVars, callVars
<1>6. clearAllQueues \/ stop => Stays /\ Keeps
  BY DEF clearAllQueues, stop, taskVars, callVars
<1>7. start => Stays /\ Keeps
  BY DEF start, Frame, Create, callVars
<1> HIDE DEF Stays, Keeps
<1>8. Stays /\ Keeps
  BY <1>1, <1>2, <1>3, <1>4, <1>5, <1>6, <1>7 DEF Calls
<1> QED
  BY <1>8 DEF Stays, Keeps, TypeOK

\* Where a callback runs keeps saying what its task is.
LEMMA LocatedStep == ASSUME IInv, TypeOK', [Next]_vars PROVE Located'
<1>0. TypeOK /\ Located /\ Sorted
  BY DEF IInv
<1>1. CASE Calls
  <2>1. UNCHANGED <<depth, at, task, executed>>
    BY <1>0, <1>1, CallsStay
  <2>2. task # 0 => kind'[task] = kind[task]
    <3>1. task # 0 => task \in Ids /\ task # nextTaskId
      <4>1. task # 0 => task \in Ids /\ kind[task] # "none"
        BY <1>0 DEF TypeOK, Located, Timed
      <4>2. task \in Ids /\ kind[task] # "none" => task # nextTaskId
        BY <1>0 DEF Sorted, TypeOK, Ids
      <4> QED
        BY <4>1, <4>2
    <3> QED
      BY <1>0, <1>1, <3>1, CallsStay
  <2> QED
    BY <1>0, <2>1, <2>2 DEF Located
<1>2. CASE processPendingTasks \/ drainMicrotaskQueue
  BY <1>0, <1>2 DEF processPendingTasks, drainMicrotaskQueue, Located
<1>3. CASE NextMicrotask
  BY <1>0, <1>3 DEF NextMicrotask, First, Run, Located, Sorted, taskVars
<1>4. CASE MicrotasksDone \/ DrainDone \/ MacrotasksDone \/ RenderDone
  BY <1>0, <1>4 DEF MicrotasksDone, DrainDone, MacrotasksDone, RenderDone, Located, TypeOK
<1>5. CASE NextMacrotask
  <2>1. /\ task = 0 /\ at \in {"first", "macro"} /\ executeNextMacrotask
        /\ UNCHANGED <<kind, depth>>
    BY <1>5 DEF NextMacrotask, taskVars
  <2>2. \/ at' = AfterMacrotask /\ task' = 0
        \/ at' = at /\ task' \in taskQueue
    BY <2>1, Macrotask
  <2> QED
    BY <1>0, <2>1, <2>2 DEF Located, Sorted, AfterMacrotask
<1>6. CASE Render
  BY <1>0, <1>6 DEF Render, Located, taskVars
<1>7. CASE NextRenderTask
  <2>1. depth \in Depths /\ depth \in Nat /\ task = 0 /\ at = "batch"
    BY <1>0, <1>7, LoopAssumption DEF NextRenderTask, Located, TypeOK, Depths
  <2>2. PICK t \in First(batch[depth]) :
          IF kind[t] = "loop" /\ t \notin cancelled
          THEN depth' = depth + 1 /\ at' = "first" /\ UNCHANGED task
          ELSE Run(t) /\ UNCHANGED <<depth, at>>
    BY <1>7 DEF NextRenderTask
  <2>3. kind[t] \in {"frame", "loop"} /\ UNCHANGED kind
    BY <1>0, <1>7, <2>1, <2>2 DEF First, Sorted, NextRenderTask, taskVars
  <2> QED
    BY <1>0, <2>1, <2>2, <2>3 DEF Located, Run
<1>8. CASE NextIdleTask
  BY <1>0, <1>8 DEF NextIdleTask, First, Run, Located, Sorted, taskVars
<1>9. CASE IterationEnds
  BY <1>0, <1>9 DEF IterationEnds, Located, TypeOK
<1>10. CASE TaskEnds
  BY <1>0, <1>10 DEF TaskEnds, AfterMacrotask, Located
<1>11. CASE Tick
  BY <1>0, <1>11 DEF Tick, Located, taskVars, callVars
<1>12. CASE UNCHANGED vars
  BY <1>0, <1>12 DEF vars, Located, taskVars, callVars
<1> QED
  BY <1>1, <1>2, <1>3, <1>4, <1>5, <1>6, <1>7, <1>8, <1>9, <1>10, <1>11, <1>12
     DEF Next, Processing

\* The search for a macrotask goes on with no microtask left.
LEMMA CalmStep == ASSUME IInv, TypeOK', [Next]_vars PROVE Calm'
<1>0. TypeOK /\ Located /\ Calm
  BY DEF IInv
<1>1. CASE Calls
  <2>1. Script /\ UNCHANGED <<depth, at, task>>
    BY <1>0, <1>1, CallsStay
  <2> QED
    BY <1>0, <2>1 DEF Script, Located, Calm
<1>2. CASE processPendingTasks \/ drainMicrotaskQueue
  BY <1>2 DEF processPendingTasks, drainMicrotaskQueue, Calm
<1>3. CASE NextMicrotask
  BY <1>3 DEF NextMicrotask, Calm
<1>4. CASE MicrotasksDone
  BY <1>0, <1>4 DEF MicrotasksDone, Calm, queueVars
<1>5. CASE DrainDone \/ MacrotasksDone \/ Render \/ RenderDone \/ NextIdleTask \/ IterationEnds
  BY <1>5 DEF DrainDone, MacrotasksDone, Render, RenderDone, NextIdleTask, IterationEnds, Calm
<1>6. CASE NextMacrotask
  <2>1. task = 0 /\ executeNextMacrotask /\ at \in {"first", "macro"}
    BY <1>6 DEF NextMacrotask
  <2>2. at' = AfterMacrotask \/ task' \in taskQueue
    BY <2>1, Macrotask
  <2> QED
    BY <1>0, <2>2 DEF Calm, AfterMacrotask, TypeOK, Ids
<1>7. CASE NextRenderTask
  BY <1>7 DEF NextRenderTask, Calm
<1>8. CASE TaskEnds
  BY <1>8 DEF TaskEnds, AfterMacrotask, Calm
<1>9. CASE Tick
  BY <1>0, <1>9 DEF Tick, Calm, queueVars, callVars
<1>10. CASE UNCHANGED vars
  BY <1>0, <1>10 DEF vars, Calm, queueVars, callVars
<1> QED
  BY <1>1, <1>2, <1>3, <1>4, <1>5, <1>6, <1>7, <1>8, <1>9, <1>10 DEF Next, Processing

\* A level leaves its batch empty.
LEMMA EmptiedStep == ASSUME IInv, TypeOK', [Next]_vars PROVE Emptied'
<1>0. TypeOK /\ Located /\ Emptied
  BY DEF IInv
<1>a. depth \in Nat /\ Depths \subseteq Nat
  BY <1>0, LoopAssumption DEF TypeOK, Depths
<1>b. ASSUME UNCHANGED <<depth, batch>>, at' = "batch" <=> at = "batch" PROVE Emptied'
  BY <1>0, <1>b DEF Emptied
<1>1. CASE Calls
  <2>1. UNCHANGED <<depth, at>>
    BY <1>0, <1>1, CallsStay
  <2>2. UNCHANGED batch
    BY <1>1 DEF Calls, setTimer, queueMicrotask, requestIdleCallback, requestAnimationFrame,
       cancelTask, clearAllQueues, start, stop, callVars
  <2> QED
    BY <1>b, <2>1, <2>2
<1>2. CASE processPendingTasks \/ drainMicrotaskQueue
  <2>1. depth = 0 /\ UNCHANGED batch
    BY <1>2 DEF processPendingTasks, drainMicrotaskQueue
  <2>2. \A d \in Depths : d > 0
    BY DEF Depths
  <2> QED
    BY <1>0, <2>1, <2>2 DEF Emptied
<1>3. CASE DrainDone
  <2>1. depth = 1 /\ depth' = 0 /\ at = "drain" /\ UNCHANGED batch
    BY <1>0, <1>3 DEF DrainDone, Located
  <2>2. \A d \in Depths : d >= 1
    BY LoopAssumption DEF Depths
  <2> QED
    BY <1>0, <1>a, <2>1, <2>2 DEF Emptied
<1>4. CASE NextMicrotask \/ MicrotasksDone \/ MacrotasksDone \/ NextIdleTask \/ Tick
           \/ UNCHANGED vars
  BY <1>4, <1>b DEF NextMicrotask, MicrotasksDone, MacrotasksDone, NextIdleTask, Tick, vars,
     callVars
<1>5. CASE NextMacrotask
  <2>1. /\ at \in {"first", "macro"} /\ executeNextMacrotask /\ UNCHANGED <<depth, batch>>
    BY <1>5 DEF NextMacrotask
  <2>2. at' \in {at, "micro", "last"}
    BY <2>1, Macrotask DEF AfterMacrotask
  <2> QED
    BY <1>b, <2>1, <2>2
<1>6. CASE Render
  <2>1. depth \in Depths
    BY <1>0, <1>6, LoopAssumption DEF Render, Located, TypeOK, Depths
  <2>2. /\ at = "render" /\ at' \in {"batch", "idle"} /\ UNCHANGED depth
        /\ \/ at' = "batch" /\ batch' = [batch EXCEPT ![depth] = renderTasks]
           \/ UNCHANGED batch
    BY <1>6 DEF Render, TakeRenderTasks
  <2>3. \A d \in Depths : d > depth => d # depth
    BY <1>a
  <2> QED
    BY <1>0, <2>1, <2>2, <2>3 DEF Emptied, TypeOK
<1>7. CASE NextRenderTask
  <2>1. depth \in Depths
    BY <1>0, <1>7, LoopAssumption DEF NextRenderTask, Located, TypeOK, Depths
  <2>2. /\ at = "batch" /\ \E S : batch' = [batch EXCEPT ![depth] = S]
        /\ \/ depth' = depth + 1
           \/ UNCHANGED <<depth, at>>
    BY <1>7 DEF NextRenderTask
  <2>3. \A d \in Depths : d > depth => batch'[d] = batch[d]
    BY <1>0, <1>a, <2>1, <2>2 DEF TypeOK
  <2> QED
    BY <1>0, <1>a, <2>2, <2>3 DEF Emptied
<1>8. CASE RenderDone
  <2>1. /\ batch[depth] = {} /\ UNCHANGED batch
        /\ \/ depth = 1 /\ depth' = 0
           \/ UNCHANGED depth
    BY <1>8 DEF RenderDone
  <2>2. \A d \in Depths : d # 0 /\ (d > 0 => d = 1 \/ d > 1)
    BY DEF Depths
  <2>3. \A d \in Depths : d > depth => batch[d] = {}
    BY <1>0 DEF Emptied
  <2>4. CASE depth = 1 /\ depth' = 0
    BY <2>1, <2>2, <2>3, <2>4 DEF Emptied
  <2>5. CASE UNCHANGED depth
    BY <2>1, <2>3, <2>5 DEF Emptied
  <2> QED
    BY <2>1, <2>4, <2>5
<1>9. CASE IterationEnds
  <2>1. depth' = depth - 1 /\ at = "idle" /\ at' = "batch" /\ UNCHANGED batch
    BY <1>9 DEF IterationEnds
  <2>2. \A d \in Depths : d > depth - 1 => d >= depth
    BY <1>a
  <2> QED
    BY <1>0, <1>a, <2>1, <2>2 DEF Emptied
<1>10. CASE TaskEnds
  BY <1>10, <1>b DEF TaskEnds, AfterMacrotask
<1> QED
  BY <1>1, <1>2, <1>3, <1>4, <1>5, <1>6, <1>7, <1>8, <1>9, <1>10 DEF Next, Processing

\* The invariant holds at first.
LEMMA InvInit == Init => IInv
<1> SUFFICES ASSUME Init PROVE IInv
  OBVIOUS
<1>a. 1 \in 1..(MaxTasks + 1) /\ 0 \in 0..MaxDepth /\ 0 \in Nat /\ 1 \in Nat
  BY LoopAssumption
<1>1. TypeOK
  BY <1>a DEF Init, TypeOK
<1>2. Emptied /\ Marked /\ Sorted /\ Located /\ Calm /\ Out /\ NoTaskTwice
  BY DEF Init, Emptied, Marked, Sorted, Located, Calm, Out, NoTaskTwice, Queued, Ids
<1>3. Dated
  BY DEF Init, Dated
<1> QED
  BY <1>1, <1>2, <1>3 DEF IInv

\* Every step keeps the invariant.
LEMMA InvStep == ASSUME IInv, [Next]_vars PROVE IInv'
<1>1. TypeOK'
  BY TypeStep
<1> QED
  BY <1>1, EmptiedStep, MarkedStep, SortedStep, LocatedStep, CalmStep, DatedStep, OutStep,
     PlacesStep DEF IInv

\* The invariant holds always.
LEMMA Inductive == Spec => []IInv
BY InvInit, InvStep, PTL DEF Spec

-----------------------------------------------------------------------------
(* Steps.                                                                   *)

\* Whatever starts a task took it out of its array first, not cancelled; a
\* timer is the first of those that are due.
LEMMA Starting ==
  ASSUME IInv, [Next]_vars, NEW t \in Ids, Starts(t)
  PROVE  /\ t \notin cancelled
         /\ \/ t \in Queued
            \/ \E d \in Depths : t \in batch[d]
         /\ kind[t] \in Timed =>
              /\ task = 0 /\ at \in {"first", "macro"}
              /\ t \in taskQueue
              /\ \A u \in taskQueue \ cancelled :
                   executeAt[u] <= now /\ u # t => Before(t, u)
              /\ executeAt[t] <= now
<1>0. TypeOK /\ Located /\ Sorted /\ t # 0
  BY DEF IInv, Ids
<1>1. task' = t /\ task # t
  BY DEF Starts
<1>2. CASE Calls
  BY <1>0, <1>1, <1>2, CallsStay
<1>3. CASE NextMicrotask
  BY <1>0, <1>1, <1>3 DEF NextMicrotask, First, Run, Queued, Sorted, Timed
<1>4. CASE NextMacrotask
  <2>1. task = 0 /\ at \in {"first", "macro"} /\ executeNextMacrotask
    BY <1>4 DEF NextMacrotask
  <2>2. \E u \in taskQueue \ cancelled :
          /\ executeAt[u] <= now
          /\ \A v \in taskQueue \ cancelled :
               executeAt[v] <= now /\ v # u => Before(u, v)
          /\ task' = u
    BY <1>0, <1>1, <2>1 DEF executeNextMacrotask
  <2> QED
    BY <1>1, <2>1, <2>2 DEF Queued
<1>5. CASE NextRenderTask
  <2>1. depth \in Depths
    BY <1>0, <1>5, LoopAssumption DEF NextRenderTask, Located, TypeOK, Depths
  <2>2. t \in batch[depth] /\ t \notin cancelled
    BY <1>0, <1>1, <1>5 DEF NextRenderTask, First, Run
  <2> QED
    BY <1>0, <2>1, <2>2 DEF Sorted, Timed
<1>6. CASE NextIdleTask
  BY <1>0, <1>1, <1>6 DEF NextIdleTask, First, Run, Queued, Sorted, Timed
<1>7. CASE processPendingTasks \/ drainMicrotaskQueue \/ MicrotasksDone \/ DrainDone
           \/ MacrotasksDone \/ Render \/ RenderDone \/ IterationEnds \/ TaskEnds \/ Tick
           \/ UNCHANGED vars
  <2>1. task' \in {task, 0}
    BY <1>7 DEF processPendingTasks, drainMicrotaskQueue, MicrotasksDone, DrainDone,
       MacrotasksDone, Render, RenderDone, IterationEnds, TaskEnds, Tick, vars, callVars
  <2> QED
    BY <1>0, <1>1, <2>1
<1> QED
  BY <1>2, <1>3, <1>4, <1>5, <1>6, <1>7 DEF Next, Processing

\* What was cleared is cancelled, or in no array it could start from.
LEMMA ClearedStep ==
  ASSUME IInv, [Next]_vars, NEW t \in cleared,
         kind[t] \in {"timer", "microtask", "idle"}
  PROVE  ~Starts(t)
<1> SUFFICES ASSUME Starts(t) PROVE FALSE
  OBVIOUS
<1>1. t \in Ids
  BY DEF IInv, TypeOK
<1>2. t \notin cancelled /\ (t \in Queued \/ \E d \in Depths : t \in batch[d])
  BY <1>1, Starting
<1>3. \A d \in Depths : t \notin batch[d]
  BY DEF IInv, Sorted
<1> QED
  BY <1>2, <1>3 DEF IInv, Out

\* Of two timers set in order, the later is not the one to start.
LEMMA OrderStep ==
  ASSUME IInv, [Next]_vars, NEW t \in Ids, NEW u \in Ids,
         kind[t] = "timer", kind[u] = "timer", u < t,
         priority[u] = priority[t], delay[u] <= delay[t], u \in taskQueue \ cancelled
  PROVE  ~Starts(t)
<1> SUFFICES ASSUME Starts(t) PROVE FALSE
  OBVIOUS
<1>1. /\ t \in taskQueue /\ executeAt[t] <= now
      /\ \A v \in taskQueue \ cancelled : executeAt[v] <= now /\ v # t => Before(t, v)
  BY Starting DEF Timed
<1>2. /\ executeAt[t] \in Nat /\ executeAt[u] \in Nat /\ delay[t] \in Nat /\ delay[u] \in Nat
      /\ now \in Nat /\ pushed[t] \in Nat /\ pushed[u] \in Nat
      /\ priority[t] \in Nat /\ t \in Nat /\ u \in Nat
  BY DEF IInv, TypeOK, Ids
<1>3. executeAt[u] + delay[t] <= executeAt[t] + delay[u] /\ pushed[u] < pushed[t]
  BY <1>1 DEF IInv, Dated
<1>4. executeAt[u] <= executeAt[t]
  BY <1>2, <1>3
<1>5. Before(t, u)
  BY <1>1, <1>2, <1>4
<1> QED
  BY <1>2, <1>3, <1>4, <1>5 DEF Before

\* A macrotask starts when the microtasks before it are done.
LEMMA MicrotaskStep ==
  ASSUME IInv, [Next]_vars, NEW t \in Ids, Starts(t), depth = 1,
         kind[t] \in {"timer", "interval"}
  PROVE  microtaskQueue = {} \/ executed >= maxMicrotasksPerCycle
<1>1. task = 0 /\ at \in {"first", "macro"}
  BY Starting DEF Timed
<1> QED
  BY <1>1 DEF IInv, Located, Calm

\* A step that moves no frame keeps a loop alive.
LEMMA Unmoved ==
  ASSUME Alive, UNCHANGED <<renderTasks, batch, cancelled>>, depth > 1 => depth' > 1,
         \A t \in renderTasks \cup InBatches : kind[t] = "loop" => kind'[t] = "loop"
  PROVE  Alive'
BY DEF Alive, InBatches

\* The loop's task is where it was, or in a batch, or runs, or has a successor.
LEMMA AliveStep ==
  ASSUME IInv, [Next]_vars, running => Alive, ~clearAllQueues, running'
  PROVE  Alive'
<1> DEFINE Frames == renderTasks \cup InBatches
<1>0. TypeOK /\ Located /\ Sorted
  BY DEF IInv
<1>m. nextTaskId \notin cancelled /\ \A t \in Frames : kind[t] = "loop" => t # nextTaskId
  <2>1. nextTaskId \notin cancelled
    BY DEF IInv, Marked, TypeOK
  <2>2. \A t \in Frames : t \in Ids
    BY <1>0 DEF TypeOK, InBatches
  <2>3. nextTaskId \in Ids => kind[nextTaskId] = "none"
    BY <1>0 DEF Sorted, TypeOK, Ids
  <2> QED
    BY <2>1, <2>2, <2>3
<1>a. ASSUME Frame("loop"), UNCHANGED cancelled PROVE Alive'
  <2>1. nextTaskId \in renderTasks' /\ kind'[nextTaskId] = "loop" /\ nextTaskId \notin cancelled'
    BY <1>0, <1>a, <1>m DEF Frame, Create, TypeOK
  <2> QED
    BY <2>1 DEF Alive
<1>b. ASSUME NEW k, NEW p, NEW d, NEW e, Create(k, p, d, e)
      PROVE  \A t \in Frames : kind[t] = "loop" => kind'[t] = "loop"
  BY <1>0, <1>b, <1>m DEF Create, TypeOK
<1>1. CASE start
  BY <1>1, <1>a DEF start, clearVars
<1>2. ASSUME NEW k \in {"timer", "interval"}, NEW p \in Priorities, NEW d \in Delays,
             setTimer(k, p, d)
      PROVE  Alive'
  <2>1. /\ Create(k, p, d, now + d) /\ UNCHANGED <<renderTasks, batch, cancelled, depth, running>>
    BY <1>2 DEF setTimer, clearVars, loopVars, callVars
  <2> QED
    BY <1>b, <2>1, Unmoved
<1>3. CASE queueMicrotask \/ requestIdleCallback
  <2>1. /\ \E k : Create(k, 0, 0, 0)
        /\ UNCHANGED <<renderTasks, batch, cancelled, depth, running>>
    BY <1>3 DEF queueMicrotask, requestIdleCallback, clearVars, loopVars, callVars
  <2> QED
    BY <1>b, <2>1, Unmoved
<1>4. CASE requestAnimationFrame
  <2>1. /\ Create("frame", 0, 0, 0) /\ renderTasks' = renderTasks \cup {nextTaskId}
        /\ UNCHANGED <<batch, cancelled, depth, running>>
    BY <1>4 DEF requestAnimationFrame, Frame, clearVars, loopVars, callVars
  <2> QED
    BY <1>b, <2>1 DEF Alive, InBatches
<1>5. ASSUME NEW t \in Ids, cancelTask(t) PROVE Alive'
  <2>1. /\ kind[t] # "loop" /\ cancelled' \subseteq cancelled \cup {t}
        /\ UNCHANGED <<kind, renderTasks, batch, depth, running>>
    BY <1>5 DEF cancelTask, Cancel, taskVars, queueVars, loopVars, callVars
  <2> QED
    BY <2>1 DEF Alive, InBatches
<1>6. CASE stop
  BY <1>6 DEF stop
<1>7. CASE processPendingTasks \/ drainMicrotaskQueue \/ DrainDone \/ MicrotasksDone
           \/ NextMicrotask \/ MacrotasksDone \/ NextIdleTask \/ TaskEnds \/ Tick
           \/ UNCHANGED vars
  <2>1. UNCHANGED <<kind, renderTasks, batch, cancelled, running>>
    BY <1>7 DEF processPendingTasks, drainMicrotaskQueue, DrainDone, MicrotasksDone,
       NextMicrotask, MacrotasksDone, NextIdleTask, TaskEnds, Tick, vars, taskVars,
       clearVars, queueVars, loopVars, callVars
  <2>2. depth > 1 => depth' > 1
    BY <1>0, <1>7 DEF processPendingTasks, drainMicrotaskQueue, DrainDone, MicrotasksDone,
       NextMicrotask, MacrotasksDone, NextIdleTask, TaskEnds, Tick, vars, callVars, Located
  <2> QED
    BY <2>1, <2>2, Unmoved
<1>8. CASE NextMacrotask
  <2>1. UNCHANGED <<kind, renderTasks, batch, cancelled, running, depth>>
    BY <1>8 DEF NextMacrotask, taskVars, clearVars, loopVars
  <2> QED
    BY <2>1, Unmoved
<1>9. CASE RenderDone
  <2>1. /\ UNCHANGED <<kind, renderTasks, batch, cancelled, running>>
        /\ depth # 1 => depth' = depth
    BY <1>9 DEF RenderDone, taskVars, clearVars, queueVars, loopVars
  <2> QED
    BY <2>1, Unmoved
<1>10. CASE Render
  <2>1. UNCHANGED <<kind, cancelled, running, depth>>
    BY <1>10 DEF Render, taskVars, clearVars, loopVars
  <2>2. CASE UNCHANGED <<batch, renderTasks>>
    BY <2>1, <2>2, Unmoved
  <2>3. CASE TakeRenderTasks
    <3>1. depth \in Depths /\ batch' = [batch EXCEPT ![depth] = renderTasks]
      BY <1>0, <1>10, <2>3, LoopAssumption
         DEF Render, TakeRenderTasks, Located, TypeOK, Depths
    <3>2. CASE depth > 1
      BY <2>1, <3>2 DEF Alive
    <3>3. CASE ~(depth > 1)
      <4>1. PICK t \in Frames \ cancelled : kind[t] = "loop"
        BY <2>1, <3>3 DEF Alive
      <4>2. batch[depth] = {}
        BY <1>10, <3>1 DEF IInv, Emptied, Render
      <4>3. t \in InBatches'
        BY <1>0, <3>1, <4>1, <4>2 DEF TypeOK, InBatches
      <4> QED
        BY <2>1, <4>1, <4>3 DEF Alive
    <3> QED
      BY <3>2, <3>3
  <2> QED
    BY <1>10, <2>2, <2>3 DEF Render
<1>11. CASE NextRenderTask
  <2>0. depth \in 0..MaxDepth /\ depth # 0
    BY <1>0, <1>11 DEF NextRenderTask, Located, TypeOK
  <2>d. depth \in Depths /\ depth + 1 > 1
    BY <2>0, LoopAssumption DEF Depths
  <2>u. UNCHANGED <<kind, renderTasks, cancelled, running>>
    BY <1>11 DEF NextRenderTask, taskVars, clearVars, queueVars, loopVars
  <2>1. /\ depth \in Depths /\ depth + 1 > 1
        /\ UNCHANGED <<kind, renderTasks, cancelled, running>>
    BY <2>d, <2>u
  <2>2. PICK t \in First(batch[depth]) :
          /\ batch' = [batch EXCEPT ![depth] = @ \ {t}]
          /\ IF kind[t] = "loop" /\ t \notin cancelled
             THEN depth' = depth + 1 ELSE UNCHANGED depth
    BY <1>11 DEF NextRenderTask
  <2>3. CASE kind[t] = "loop" /\ t \notin cancelled
    BY <2>1, <2>2, <2>3 DEF Alive
  <2>4. CASE ~(kind[t] = "loop" /\ t \notin cancelled)
    <3>1. \A u \in Frames \ {t} : u \in renderTasks' \cup InBatches'
      BY <1>0, <2>1, <2>2 DEF TypeOK, InBatches
    <3>2. CASE depth > 1
      BY <2>2, <2>4, <3>2 DEF Alive
    <3>3. CASE ~(depth > 1)
      <4>1. PICK u \in Frames \ cancelled : kind[u] = "loop"
        BY <2>1, <3>3 DEF Alive
      <4>2. u # t
        BY <2>4, <4>1
      <4> QED
        BY <2>1, <3>1, <4>1, <4>2 DEF Alive
    <3> QED
      BY <3>2, <3>3
  <2> QED
    BY <2>3, <2>4
<1>12. CASE IterationEnds
  BY <1>12, <1>a DEF IterationEnds, scheduleNextIteration, clearVars
<1>13. CASE Calls
  BY <1>1, <1>2, <1>3, <1>4, <1>5, <1>6, <1>13 DEF Calls
<1> QED
  BY <1>7, <1>8, <1>9, <1>10, <1>11, <1>12, <1>13 DEF Next, Processing

-----------------------------------------------------------------------------
(* The loop implements the abstract life of a task.                         *)

\* What the refinement mapping sees of a step that leaves all of it alone.
LEMMA Unseen ==
  ASSUME UNCHANGED <<kind, taskQueue, microtaskQueue, renderTasks, idleTasks, batch,
                     cancelled, task>>
  PROVE  UNCHANGED Lifecycle!vars
BY DEF Lifecycle!vars, Queued, InBatches

\* A new loop is a new life of tasks.
LEMMA ContractInit == Init => Lifecycle!Init
BY DEF Init, Lifecycle!Init, Queued, InBatches

\* A task that is made is posted: it was no task before.
LEMMA PostStep ==
  ASSUME IInv, NEW k \in Timed \cup {"microtask", "idle", "frame", "loop"},
         NEW p \in Nat, NEW d \in Nat, New(k, p, d)
  PROVE  Lifecycle!Next
<1> DEFINE n == nextTaskId
<1>1. n \in Ids /\ kind[n] = "none" /\ kind' = [kind EXCEPT ![n] = k]
  BY DEF New, IInv, TypeOK, Sorted
<1>2. k \in {"timer", "interval", "microtask", "frame", "idle", "loop"}
  BY DEF Timed
<1>3. Queued' = Queued \cup {n}
  BY DEF New, Queued, Timed
<1>4. UNCHANGED <<InBatches, cancelled, task>>
  BY DEF New, InBatches
<1>5. Lifecycle!Post
  BY <1>1, <1>2, <1>3, <1>4 DEF Lifecycle!Post
<1> QED
  BY <1>5 DEF Lifecycle!Next

\* A task that is cancelled is withdrawn, if it is still in an array.
LEMMA WithdrawStep ==
  ASSUME NEW t, Cancel(t),
         UNCHANGED <<kind, taskQueue, microtaskQueue, renderTasks, idleTasks, batch, task>>
  PROVE  Lifecycle!Next
<1> DEFINE S == {t} \cap Queued
<1>1. UNCHANGED <<kind, Queued, InBatches, task>>
  BY DEF Queued, InBatches
<1>2. Lifecycle!Withdraw
  BY <1>1 DEF Lifecycle!Withdraw, Cancel
<1> QED
  BY <1>2 DEF Lifecycle!Next

\* A task whose turn has come leaves its array, with others that were cancelled:
\* it is skipped if it was cancelled too, and started otherwise.
LEMMA TurnStep ==
  ASSUME IInv, NEW t \in Queued, NEW S \in SUBSET (Queued \cap cancelled),
         task = 0, Run(t), Queued' = Queued \ (S \cup {t}),
         UNCHANGED <<kind, batch, cancelled>>
  PROVE  Lifecycle!Next
<1>1. UNCHANGED <<kind, InBatches, cancelled>>
  BY DEF InBatches
<1>2. t \notin InBatches /\ S \cap InBatches = {}
  BY Apart DEF InBatches
<1>3. t \in Ids
  BY DEF IInv, TypeOK, Queued
<1>4. CASE t \in cancelled
  <2>1. S \cup {t} \in SUBSET (Queued \cup InBatches) /\ {} \in SUBSET InBatches
    OBVIOUS
  <2>2. Lifecycle!Leave
    BY <1>1, <1>2, <1>4 DEF Lifecycle!Leave, Run
  <2> QED
    BY <2>1, <2>2 DEF Lifecycle!Next
<1>5. CASE t \notin cancelled
  <2>1. Lifecycle!Start
    BY <1>1, <1>2, <1>5 DEF Lifecycle!Start, Run
  <2> QED
    BY <2>1 DEF Lifecycle!Next
<1> QED
  BY <1>4, <1>5

\* Cancelled macrotasks are swept out of their queue.
LEMMA SweepStep ==
  ASSUME IInv, taskQueue' = taskQueue \ cancelled,
         UNCHANGED <<kind, microtaskQueue, renderTasks, idleTasks, batch, cancelled, task>>
  PROVE  Lifecycle!Next
<1> DEFINE S == taskQueue \cap cancelled
<1>1. UNCHANGED <<kind, InBatches, cancelled, task>>
  BY DEF InBatches
<1>2. Queued' = Queued \ S /\ S \subseteq Queued
  BY Apart DEF Queued
<1>3. S \cap InBatches = {}
  BY <1>2, Apart DEF InBatches
<1>4. Lifecycle!Leave
  BY <1>1, <1>2, <1>3 DEF Lifecycle!Leave
<1>5. S \in SUBSET (Queued \cup InBatches) /\ {} \in SUBSET InBatches
  BY <1>2
<1> QED
  BY <1>4, <1>5 DEF Lifecycle!Next

\* A macrotask starts, or there is none and the queue is swept.
LEMMA MacrotaskStep ==
  ASSUME IInv, NextMacrotask
  PROVE  Lifecycle!Next
<1>1. /\ task = 0 /\ executeNextMacrotask
      /\ UNCHANGED <<kind, microtaskQueue, renderTasks, idleTasks, batch, cancelled>>
  BY DEF NextMacrotask, taskVars, clearVars
<1>2. CASE taskQueue' = taskQueue \ cancelled /\ task' = task
  BY <1>1, <1>2, SweepStep
<1>3. ASSUME NEW t \in taskQueue \ cancelled,
             taskQueue' = (taskQueue \ cancelled) \ {t}, task' = t
      PROVE  Lifecycle!Next
  <2> DEFINE S == taskQueue \cap cancelled
  <2>1. t \in Queued /\ S \in SUBSET (Queued \cap cancelled)
    BY <1>3 DEF Queued
  <2>2. Queued' = Queued \ (S \cup {t})
    BY <1>1, <1>3, Apart DEF Queued
  <2>3. Run(t)
    BY <1>3 DEF Run
  <2> QED
    BY <1>1, <2>1, <2>2, <2>3, TurnStep
<1> QED
  BY <1>1, <1>2, <1>3, Macrotask

\* The render tasks are taken together into a batch that was empty.
LEMMA TakeStep ==
  ASSUME IInv, Render, TakeRenderTasks
  PROVE  Lifecycle!Next
<1>1. /\ task = 0 /\ depth \in Depths /\ at = "render"
      /\ UNCHANGED <<kind, cancelled, task, taskQueue, microtaskQueue, idleTasks>>
  BY LoopAssumption DEF IInv, Render, Located, TypeOK, Depths, taskVars, clearVars
<1>2. batch[depth] = {}
  BY <1>1 DEF IInv, Emptied
<1>3. UNCHANGED <<kind, cancelled, task>>
  BY <1>1
<1>4. Queued' = Queued \ renderTasks /\ renderTasks \subseteq Queued
  BY <1>1, Apart DEF Queued, TakeRenderTasks
<1>5. InBatches' = InBatches \cup renderTasks
  <2>1. \A d \in Depths : batch'[d] = IF d = depth THEN renderTasks ELSE batch[d]
    BY DEF IInv, TypeOK, TakeRenderTasks
  <2> QED
    BY <1>1, <1>2, <2>1 DEF InBatches
<1>6. Lifecycle!Take
  BY <1>1, <1>3, <1>4, <1>5 DEF Lifecycle!Take
<1> QED
  BY <1>4, <1>6 DEF Lifecycle!Next

\* A task of a batch leaves it: to run, or skipped, or to run an iteration.
LEMMA RenderTaskStep ==
  ASSUME IInv, NextRenderTask
  PROVE  Lifecycle!Next
<1>1. /\ task = 0 /\ depth \in Depths
      /\ UNCHANGED <<kind, cancelled, taskQueue, microtaskQueue, idleTasks, renderTasks>>
  BY LoopAssumption DEF IInv, NextRenderTask, Located, TypeOK, Depths, taskVars,
     clearVars, queueVars
<1>2. PICK t \in First(batch[depth]) :
        /\ batch' = [batch EXCEPT ![depth] = @ \ {t}]
        /\ IF kind[t] = "loop" /\ t \notin cancelled THEN UNCHANGED task ELSE Run(t)
  BY DEF NextRenderTask
<1>3. t \in batch[depth] /\ t \in Ids /\ t \in InBatches
  BY <1>1, <1>2 DEF First, IInv, TypeOK, InBatches
<1>4. InBatches' = InBatches \ {t}
  <2>1. \A d \in Depths : batch'[d] = IF d = depth THEN batch[d] \ {t} ELSE batch[d]
    BY <1>2 DEF IInv, TypeOK
  <2>2. \A d \in Depths \ {depth} : t \notin batch[d]
    BY <1>1, <1>3 DEF IInv, NoTaskTwice
  <2> QED
    BY <1>1, <2>1, <2>2 DEF InBatches
<1>5. UNCHANGED <<kind, Queued, cancelled>>
  BY <1>1 DEF Queued
<1>6. t \notin Queued
  BY <1>1, <1>3, Apart
<1>7. CASE kind[t] = "loop" /\ t \notin cancelled
  <2>2. UNCHANGED task
    BY <1>2, <1>7
  <2>3. Lifecycle!Leave
    BY <1>3, <1>4, <1>5, <2>2, <1>7 DEF Lifecycle!Leave
  <2>4. {} \in SUBSET (Queued \cup InBatches) /\ {t} \in SUBSET InBatches
    BY <1>3
  <2> QED
    BY <2>3, <2>4 DEF Lifecycle!Next
<1>8. CASE ~(kind[t] = "loop" /\ t \notin cancelled)
  <2>0. Run(t)
    BY <1>2, <1>8
  <2>1. CASE t \in cancelled
    <3>1. Lifecycle!Leave
      BY <1>1, <1>3, <1>4, <1>5, <1>6, <2>0, <2>1 DEF Lifecycle!Leave, Run
    <3>2. {t} \in SUBSET (Queued \cup InBatches) /\ {} \in SUBSET InBatches
      BY <1>3
    <3> QED
      BY <3>1, <3>2 DEF Lifecycle!Next
  <2>2. CASE t \notin cancelled
    <3>1. Lifecycle!Start
      BY <1>1, <1>3, <1>4, <1>5, <1>6, <2>0, <2>2 DEF Lifecycle!Start, Run
    <3> QED
      BY <1>3, <3>1 DEF Lifecycle!Next
  <2> QED
    BY <2>1, <2>2
<1> QED
  BY <1>7, <1>8

\* A callback ends, and only an interval that was not cancelled is queued again.
LEMMA EndStep ==
  ASSUME IInv, TaskEnds
  PROVE  Lifecycle!Next
<1>1. /\ task # 0 /\ task \in Ids /\ task' = 0
      /\ UNCHANGED <<kind, microtaskQueue, renderTasks, idleTasks, batch, cancelled>>
      /\ taskQueue' = IF kind[task] = "interval" /\ task \notin cancelled
                      THEN taskQueue \cup {task} ELSE taskQueue
  BY DEF IInv, TypeOK, TaskEnds, clearVars
<1>2. UNCHANGED <<kind, InBatches, cancelled>>
  BY <1>1 DEF InBatches
<1>3. Queued' = IF kind[task] = "interval" /\ task \notin cancelled
               THEN Queued \cup {task} ELSE Queued
  BY <1>1 DEF Queued
<1>4. Lifecycle!End
  BY <1>1, <1>2, <1>3 DEF Lifecycle!End
<1> QED
  BY <1>4 DEF Lifecycle!Next

\* Every step of the loop is one of the abstract life of a task, or none.
LEMMA ContractStep == IInv /\ [Next]_vars => [Lifecycle!Next]_Lifecycle!vars
<1> SUFFICES ASSUME IInv, [Next]_vars PROVE [Lifecycle!Next]_Lifecycle!vars
  OBVIOUS
<1>0. CASE \E k \in Timed \cup {"microtask", "idle", "frame", "loop"} :
             \E p \in Nat, d \in Nat : New(k, p, d)
  BY <1>0, PostStep
<1>1. ASSUME Old, NEW p \in Priorities, NEW d \in Delays, NEW k \in {"timer", "interval"},
             setTimer(k, p, d)
      PROVE  FALSE
  BY <1>1 DEF setTimer, Create, Old, IInv, TypeOK, Ids
<1>2. ASSUME Old
      PROVE  ~(queueMicrotask \/ requestIdleCallback \/ requestAnimationFrame \/ start)
  BY <1>2 DEF queueMicrotask, requestIdleCallback, requestAnimationFrame, start, Frame,
     Create, Old, IInv, TypeOK, Ids
<1>3. ASSUME NEW t \in Ids, cancelTask(t) PROVE Lifecycle!Next
  BY <1>3, WithdrawStep DEF cancelTask, taskVars, queueVars, callVars
<1>4. stop => Lifecycle!Next
  BY WithdrawStep DEF stop, taskVars, queueVars, callVars
<1>5. ASSUME clearAllQueues PROVE Lifecycle!Next
  <2>1. /\ Queued' = {}
        /\ UNCHANGED <<kind, InBatches, cancelled, task>>
    BY <1>5 DEF clearAllQueues, taskVars, clearVars, callVars, Queued, InBatches
  <2>2. Lifecycle!Clear
    BY <2>1 DEF Lifecycle!Clear
  <2> QED
    BY <2>2 DEF Lifecycle!Next
<1>6. processPendingTasks => Lifecycle!Next
  BY SweepStep DEF processPendingTasks, taskVars, clearVars
<1>7. ASSUME NextMicrotask PROVE Lifecycle!Next
  <2>1. PICK t \in microtaskQueue : microtaskQueue' = microtaskQueue \ {t} /\ Run(t)
    BY <1>7 DEF NextMicrotask, First
  <2>2. /\ task = 0
        /\ UNCHANGED <<kind, taskQueue, renderTasks, idleTasks, batch, cancelled>>
    BY <1>7 DEF NextMicrotask, taskVars, clearVars
  <2>3. /\ t \in Queued /\ Queued' = Queued \ ({} \cup {t})
        /\ {} \in SUBSET (Queued \cap cancelled)
    BY <2>1, <2>2, Apart DEF Queued
  <2> QED
    BY <2>1, <2>2, <2>3, TurnStep
<1>8. ASSUME NextIdleTask PROVE Lifecycle!Next
  <2>1. PICK t \in idleTasks : idleTasks' = idleTasks \ {t} /\ Run(t)
    BY <1>8 DEF NextIdleTask, First
  <2>2. /\ task = 0
        /\ UNCHANGED <<kind, taskQueue, renderTasks, microtaskQueue, batch, cancelled>>
    BY <1>8 DEF NextIdleTask, taskVars, clearVars
  <2>3. /\ t \in Queued /\ Queued' = Queued \ ({} \cup {t})
        /\ {} \in SUBSET (Queued \cap cancelled)
    BY <2>1, <2>2, Apart DEF Queued
  <2> QED
    BY <2>1, <2>2, <2>3, TurnStep
<1>9. ASSUME Render PROVE Lifecycle!Next \/ UNCHANGED Lifecycle!vars
  <2>1. CASE TakeRenderTasks
    BY <1>9, <2>1, TakeStep
  <2>2. CASE UNCHANGED <<batch, renderTasks>>
    BY <1>9, <2>2, Unseen DEF Render, taskVars, clearVars
  <2> QED
    BY <1>9, <2>1, <2>2 DEF Render
<1>10. ASSUME Old, IterationEnds PROVE UNCHANGED Lifecycle!vars
  <2>1. ~running
    BY <1>10 DEF IterationEnds, scheduleNextIteration, Frame, Create, Old, IInv, TypeOK, Ids
  <2> QED
    BY <1>10, <2>1, Unseen DEF IterationEnds, scheduleNextIteration, taskVars, clearVars
<1>11. ASSUME drainMicrotaskQueue \/ MicrotasksDone \/ DrainDone \/ MacrotasksDone
              \/ RenderDone \/ Tick \/ UNCHANGED vars
       PROVE  UNCHANGED Lifecycle!vars
  BY <1>11, Unseen DEF drainMicrotaskQueue, MicrotasksDone, DrainDone, MacrotasksDone,
     RenderDone, Tick, vars, taskVars, clearVars, queueVars, callVars
<1>12. CASE Old
  BY <1>1, <1>2, <1>3, <1>4, <1>5, <1>6, <1>7, <1>8, <1>9, <1>10, <1>11, <1>12,
     MacrotaskStep, RenderTaskStep, EndStep DEF Next, Calls, Processing
<1> QED
  BY <1>0, <1>12, Effects

-----------------------------------------------------------------------------
(* Theorems.                                                                *)

\* Every variable has its type, for any tasks, delays and limits.
THEOREM TypeCorrect == Spec => []TypeOK
BY Inductive, PTL DEF IInv

\* A task is in one array or batch at most, and in none while it runs: by the
\* kinds of tasks, which the arrays do not mix, and the moves between them.
THEOREM TasksRunInOnePlace == Spec => []NoTaskTwice
BY Inductive, PTL DEF IInv

\* Timers of one priority keep the order in which, and the delays for which,
\* they were set.
THEOREM TimersKeepOrder == Spec => FirstSetFirstRun
<1>1. ASSUME IInv, [Next]_vars
      PROVE  [\A t \in Ids : Starts(t) =>
                ~\E u \in taskQueue \ cancelled :
                   /\ kind[t] = "timer" /\ kind[u] = "timer"
                   /\ u < t /\ priority[u] = priority[t] /\ delay[u] <= delay[t]]_vars
  BY <1>1, OrderStep DEF IInv, TypeOK
<1> QED
  BY <1>1, Inductive, PTL DEF Spec, FirstSetFirstRun

\* No timer starts over waiting microtasks within their limit.
THEOREM MicrotasksGoFirst == Spec => MicrotasksFirst
<1>1. ASSUME IInv, [Next]_vars
      PROVE  [\A t \in Ids :
                Starts(t) /\ depth = 1 /\ kind[t] \in {"timer", "interval"}
                  => microtaskQueue = {} \/ executed >= maxMicrotasksPerCycle]_vars
  BY <1>1, MicrotaskStep
<1> QED
  BY <1>1, Inductive, PTL DEF Spec, MicrotasksFirst

\* A timer, microtask or idle task that was cleared does not start.
THEOREM ClearedTasksStayOut == Spec => ClearedStaysOut
<1>1. ASSUME IInv, [Next]_vars
      PROVE  [\A t \in cleared :
                kind[t] \in {"timer", "microtask", "idle"} => ~Starts(t)]_vars
  BY <1>1, ClearedStep
<1> QED
  BY <1>1, Inductive, PTL DEF Spec, ClearedStaysOut

\* A running loop keeps an iteration before it, whatever scripts do but clear
\* all queues.
THEOREM LoopStaysAlive == Spec => LoopKeepsFrame
<1>1. ASSUME IInv, [Next]_vars
      PROVE  [(running => Alive) /\ ~clearAllQueues => (running => Alive)']_vars
  BY <1>1, AliveStep
<1> QED
  BY <1>1, Inductive, PTL DEF Spec, LoopKeepsFrame

\* Every behaviour of the loop is one of the abstract life of a task: a task is
\* run once for every time it was queued, and none is lost.
THEOREM ImplementsLifecycle == Spec => TaskContract
<1>1. IInv /\ [Next]_vars => [Lifecycle!Next]_Lifecycle!vars
  BY ContractStep
<1> QED
  BY <1>1, ContractInit, Inductive, PTL DEF Spec, TaskContract, Lifecycle!Spec

\* A task that is not an interval never comes back once it left its place.
GoneForGood ==
  [][\A t \in Ids \ (Queued \cup InBatches) :
       kind[t] \notin {"none", "interval"} => t \notin (Queued \cup InBatches)']_vars

\* A timer, microtask, frame or idle task is run at most once: it is queued once,
\* and does not come back when it has left. The step is one of the abstract life.
THEOREM OneShotsRunOnce == Spec => GoneForGood
<1>1. ASSUME IInv, [Next]_vars
      PROVE  \A t \in Ids \ (Queued \cup InBatches) :
               kind[t] \notin {"none", "interval"} => t \notin (Queued \cup InBatches)'
  <2>1. [Lifecycle!Next]_Lifecycle!vars
    BY <1>1, ContractStep
  <2> QED
    BY <2>1 DEF Lifecycle!Next, Lifecycle!vars, Lifecycle!Post, Lifecycle!Withdraw,
       Lifecycle!Clear, Lifecycle!Leave, Lifecycle!Take, Lifecycle!Start, Lifecycle!End
<1> QED
  BY <1>1, Inductive, PTL DEF Spec, GoneForGood
=============================================================================
