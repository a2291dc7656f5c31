---------------------------- MODULE TaskLifecycle ----------------------------
(****************************************************************************)
(* What an event loop promises those who post tasks, with nothing of how it *)
(* does it: one task runs at a time, a task runs once for every time it was *)
(* queued, only a repeating one is queued again, and no task is lost: it    *)
(* leaves the queue to run, or because somebody withdrew or cleared it.     *)
(* EventLoop implements this specification.                                 *)
(****************************************************************************)
CONSTANTS Task,        \* tasks that may ever be posted
          Kind,        \* kinds of tasks
          Repeating,   \* those whose tasks are queued again when they have run
          Own,         \* those of the loop itself, which it takes up unseen
          NoTask,      \* "nothing runs"
          NoKind       \* the kind of what is no task yet

VARIABLES kind,        \* kind[t]: what task t is
          queued,      \* tasks waiting
          taken,       \* those taken together to be run next, beyond recall
          withdrawn,   \* those withdrawn while they were queued
          active       \* the task that runs, or NoTask

vars == <<kind, queued, taken, withdrawn, active>>

Init ==
  /\ kind = [t \in Task |-> NoKind]
  /\ queued = {} /\ taken = {} /\ withdrawn = {}
  /\ active = NoTask

\* Tasks that were withdrawn leave, and the loop takes up tasks of its own.
Leave ==
  /\ UNCHANGED <<kind, withdrawn, active>>
  /\ queued' \subseteq queued /\ queued \ queued' \subseteq withdrawn
  /\ taken' \subseteq taken
  /\ \A t \in taken \ taken' : t \in withdrawn \/ kind[t] \in Own

\* A new task is posted, by a script or by the loop.
Post ==
  /\ UNCHANGED <<taken, withdrawn, active>>
  /\ \E t \in Task, k \in Kind :
       /\ kind[t] = NoKind
       /\ kind' = [kind EXCEPT ![t] = k]
       /\ queued' = queued \cup {t}

\* Queued tasks are withdrawn.
Withdraw ==
  /\ UNCHANGED <<kind, queued, taken, active>>
  /\ withdrawn \subseteq withdrawn' /\ withdrawn' \ withdrawn \subseteq queued

\* Everything queued is forgotten.
Clear ==
  /\ UNCHANGED <<kind, taken, withdrawn, active>>
  /\ queued' = {}

\* Some queued tasks are taken together.
Take ==
  /\ active = NoTask
  /\ UNCHANGED <<kind, withdrawn, active>>
  /\ queued' \subseteq queued
  /\ taken' = taken \cup (queued \ queued')

\* A task starts; with it some that were withdrawn may leave.
Start ==
  /\ active = NoTask
  /\ active' \in (queued \cup taken) \ withdrawn
  /\ UNCHANGED <<kind, withdrawn>>
  /\ queued' \subseteq queued \ {active'}
  /\ queued \ queued' \subseteq withdrawn \cup {active'}
  /\ taken' = taken \ {active'}

\* The task that runs ends, and is queued again if it repeats.
End ==
  /\ active # NoTask
  /\ active' = NoTask
  /\ UNCHANGED <<kind, taken, withdrawn>>
  /\ queued' = IF kind[active] \in Repeating /\ active \notin withdrawn
               THEN queued \cup {active} ELSE queued

Next == Leave \/ Post \/ Withdraw \/ Clear \/ Take \/ Start \/ End

Spec == Init /\ [][Next]_vars
=============================================================================
