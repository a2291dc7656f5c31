----------------------------- MODULE QueryEngine -----------------------------
(****************************************************************************)
(* The query engine's calls (query-engine/core/engine.ts): execute, which   *)
(* runs a statement through the planner and an executor of its own          *)
(* (executor/executor.ts), executeAsync, which keeps a status for it,       *)
(* cancelQuery and shutdown.                                                *)
(*                                                                          *)
(* The front end is synchronous: execute is one step up to the executor's   *)
(* first await, and then one step for every step of the plan that starts.   *)
(* A step of the plan may take any time; lexer, parser, analyzer, optimizer *)
(* and formatter may throw on any statement. The statement of a call is the *)
(* one the optimizer hands to the planner.                                  *)
(****************************************************************************)
EXTENDS QueryPlanner, FiniteSets

CONSTANTS
  Queries,          \* calls of execute and executeAsync
  Statements,       \* statements they may be given
  NoStatement,      \* the statement of a call not made yet
  Shutdowns         \* calls of shutdown that may overlap

ASSUME QueryAssumption ==
  /\ IsFiniteSet(Queries)
  /\ Statements \subseteq StatementForms
  /\ NoStatement \notin Statements

VARIABLES
  initialized,
  stmt,             \* stmt[q]: the statement given to the call
  async,            \* calls of executeAsync
  stage,            \* stage[q]: "new", "executing", "resolved" or "rejected"
                    \* (the promise of execute), "settled" (its callbacks ran)
  todo,             \* todo[q]: the step the executor is at, and those that
                    \* follow it if it succeeds
  pages,            \* the calls whose browser has a page
  queries,          \* queries[q]: the state in the status map, or "none"
  controllers,      \* the ids in abortControllers
  aborted,          \* the ids whose controller was aborted
  closing,          \* closing[d]: the queries shutdown d has still to cancel
  shuttingDown,     \* the calls of shutdown that are at an await
  total, successful, failed, cancelled   \* metrics.queries

planVars == <<todo, pages>>
callVars == <<stmt, async, stage, planVars>>
idVars == <<controllers, aborted>>
downVars == <<closing, shuttingDown>>
metrics == <<total, successful, failed, cancelled>>
vars == <<initialized, callVars, queries, idVars, downVars, metrics>>

\* executeAsync and execute each generate an id; the two never agree.
AsyncId(q) == <<q, "executeAsync">>
ExecuteId(q) == <<q, "execute">>

Executing == {q \in Queries : stage[q] = "executing"}
Pending == {q \in Queries : queries[q] = "PENDING"}

Init ==
  /\ initialized = FALSE
  /\ stmt = [q \in Queries |-> NoStatement]
  /\ async = {}
  /\ stage = [q \in Queries |-> "new"]
  /\ todo = [q \in Queries |-> <<>>]
  /\ pages = {}
  /\ queries = [q \in Queries |-> "none"]
  /\ controllers = {}
  /\ aborted = {}
  /\ closing = [d \in Shutdowns |-> {}]
  /\ shuttingDown = {}
  /\ total = 0 /\ successful = 0 /\ failed = 0 /\ cancelled = 0

-----------------------------------------------------------------------------
initialize ==
  /\ ~initialized
  /\ initialized' = TRUE
  /\ UNCHANGED <<callVars, queries, idVars, downVars, metrics>>

\* execute before initialize, or after a shutdown: nothing is counted.
NotInitialized(q) ==
  /\ ~initialized
  /\ stage' = [stage EXCEPT ![q] = "rejected"]
  /\ UNCHANGED <<planVars, idVars, metrics>>

\* Something before the executor throws: the controller comes and goes in the
\* same step.
Throws(q) ==
  /\ initialized
  /\ total' = total + 1
  /\ failed' = failed + 1
  /\ stage' = [stage EXCEPT ![q] = "rejected"]
  /\ UNCHANGED <<planVars, idVars, successful, cancelled>>

\* Lexer, parser, analyzer or optimizer throws.
FrontEndThrows(q) == Throws(q)

\* The planner overflows the stack.
PlannerOverflows(q, s) ==
  /\ Overflows(generateSteps(s))
  /\ Throws(q)

\* The plan goes to a new executor, which starts the first step, if any.
Run(q, s) ==
  /\ initialized
  /\ ~Overflows(generateSteps(s))
  /\ total' = total + 1
  /\ controllers' = controllers \cup {ExecuteId(q)}
  /\ stage' = [stage EXCEPT ![q] = "executing"]
  /\ todo' = [todo EXCEPT ![q] = generateSteps(s)]
  /\ UNCHANGED <<pages, aborted, successful, failed, cancelled>>

execute(q, s) ==
  /\ stage[q] = "new"
  /\ stmt' = [stmt EXCEPT ![q] = s]
  /\ \/ NotInitialized(q) \/ FrontEndThrows(q)
     \/ PlannerOverflows(q, s) \/ Run(q, s)
  /\ UNCHANGED <<initialized, downVars>>

Execute(q, s) ==
  /\ execute(q, s)
  /\ UNCHANGED <<async, queries>>

executeAsync(q, s) ==
  /\ execute(q, s)
  /\ async' = async \cup {q}
  /\ queries' = [queries EXCEPT ![q] = "PENDING"]

\* A step of the plan succeeds, or a BRANCH has its condition, and the next step
\* starts: the first one of the branch taken, if it has any.
NextStep(q) ==
  /\ stage[q] = "executing"
  /\ todo[q] # <<>>
  /\ CanSucceed(Head(todo[q]), q \in pages)
  /\ \E body \in Head(todo[q]).bodies :
       /\ body \o Tail(todo[q]) # <<>>
       /\ todo' = [todo EXCEPT ![q] = body \o Tail(todo[q])]
  /\ pages' = IF Head(todo[q]).type = "NAVIGATE" THEN pages \cup {q} ELSE pages
  /\ UNCHANGED <<initialized, stmt, async, stage, queries, idVars, downVars, metrics>>

\* Mutant: the executor's success: false counts as a failure besides.
EndsCountedTwice(q) ==
  /\ stage' = [stage EXCEPT ![q] = "resolved"]
  /\ successful' = successful + 1
  /\ \/ UNCHANGED failed
     \/ failed' = failed + 1

\* The executor is done, after the last step or the first failed one. It
\* reports a failure in its result, which execute does not look at: only a
\* formatter that throws makes the call fail.
Ends(q) ==
  \/ /\ stage' = [stage EXCEPT ![q] = "resolved"]
     /\ successful' = successful + 1
     /\ UNCHANGED failed
  \/ /\ stage' = [stage EXCEPT ![q] = "rejected"]
     /\ failed' = failed + 1
     /\ UNCHANGED successful

\* Mutant: no finally.
ExecutionEndsUncleaned(q) ==
  /\ stage[q] = "executing"
  /\ Ends(q)
  /\ todo' = [todo EXCEPT ![q] = <<>>]
  /\ pages' = pages \ {q}
  /\ UNCHANGED <<initialized, stmt, async, queries, downVars, idVars, total,
                 cancelled>>

\* The last step of the plan succeeded, or the current one failed; a step that
\* fails in a body makes the BRANCH around it fail. The executor is dropped.
ExecutionEnds(q) ==
  /\ stage[q] = "executing"
  /\ Ends(q)
  /\ controllers' = controllers \ {ExecuteId(q)}
  /\ todo' = [todo EXCEPT ![q] = <<>>]
  /\ pages' = pages \ {q}
  /\ UNCHANGED <<initialized, stmt, async, queries, downVars, aborted, total,
                 cancelled>>

\* Mutant: only the resolved promise has a callback.
SettleResolved(q) ==
  /\ stage[q] = "resolved"
  /\ stage' = [stage EXCEPT ![q] = "settled"]
  /\ queries' = [queries EXCEPT ![q] = IF q \in async THEN "COMPLETED" ELSE @]
  /\ UNCHANGED <<initialized, stmt, async, planVars, idVars, downVars, metrics>>

\* The callbacks of executeAsync write the status, whatever it has become.
Settle(q) ==
  /\ stage[q] \in {"resolved", "rejected"}
  /\ stage' = [stage EXCEPT ![q] = "settled"]
  /\ queries' = [queries EXCEPT ![q] =
                   CASE q \notin async -> @
                     [] stage[q] = "resolved" -> "COMPLETED"
                     [] OTHER -> "FAILED"]
  /\ UNCHANGED <<initialized, stmt, async, planVars, idVars, downVars, metrics>>

-----------------------------------------------------------------------------
\* Mutant: a query that was cancelled is cancelled again.
cancelAgain(q) ==
  /\ queries[q] \in {"PENDING", "CANCELLED"}
  /\ aborted' = aborted \cup ({AsyncId(q)} \cap controllers)
  /\ queries' = [queries EXCEPT ![q] = "CANCELLED"]
  /\ controllers' = controllers \ {AsyncId(q)}
  /\ cancelled' = cancelled + 1

\* cancelQuery of a query that has not ended. It looks for a controller under
\* the id that executeAsync returned.
cancel(q) ==
  /\ queries[q] = "PENDING"
  /\ aborted' = aborted \cup ({AsyncId(q)} \cap controllers)
  /\ queries' = [queries EXCEPT ![q] = "CANCELLED"]
  /\ controllers' = controllers \ {AsyncId(q)}
  /\ cancelled' = cancelled + 1

cancelQuery(q) ==
  /\ cancel(q)
  /\ UNCHANGED <<initialized, callVars, downVars, total, successful, failed>>

\* The end of shutdown d: every controller is aborted, the maps are emptied.
Close(d) ==
  /\ aborted' = aborted \cup controllers
  /\ controllers' = {}
  /\ queries' = [q \in Queries |-> "none"]
  /\ initialized' = FALSE
  /\ closing' = [closing EXCEPT ![d] = {}]
  /\ shuttingDown' = shuttingDown \ {d}
  /\ UNCHANGED cancelled

\* Shutdown d cancels one of the queries that were pending when it was called,
\* and awaits; one that has ended meanwhile makes cancelQuery throw.
CancelOne(d, remaining) ==
  /\ \E q \in remaining :
       /\ closing' = [closing EXCEPT ![d] = remaining \ {q}]
       /\ \/ cancel(q)
          \/ /\ queries[q] # "PENDING"
             /\ UNCHANGED <<aborted, queries, controllers, cancelled>>
  /\ shuttingDown' = shuttingDown \cup {d}
  /\ UNCHANGED initialized

Closes(d, remaining) ==
  /\ IF remaining = {} THEN Close(d) ELSE CancelOne(d, remaining)
  /\ UNCHANGED <<callVars, total, successful, failed>>

shutdown(d) == d \notin shuttingDown /\ Closes(d, Pending)

ShutdownContinues(d) == d \in shuttingDown /\ Closes(d, closing[d])

-----------------------------------------------------------------------------
Next ==
  \/ initialize
  \/ \E d \in Shutdowns : shutdown(d) \/ ShutdownContinues(d)
  \/ \E q \in Queries :
       \/ \E s \in Statements : Execute(q, s) \/ executeAsync(q, s)
       \/ NextStep(q) \/ ExecutionEnds(q) \/ Settle(q) \/ cancelQuery(q)

Spec == Init /\ [][Next]_vars

\* Callbacks of settled promises run. Nothing is assumed of the plan's steps.
Fairness == \A q \in Queries : WF_vars(Settle(q))

FairSpec == Spec /\ Fairness

-----------------------------------------------------------------------------
(* Properties.                                                              *)

\* Every variable has its type, and a call that is executing has a statement.
TypeOK ==
  /\ initialized \in BOOLEAN
  /\ stmt \in [Queries -> Statements \cup {NoStatement}]
  /\ async \in SUBSET Queries
  /\ stage \in [Queries -> {"new", "executing", "resolved", "rejected", "settled"}]
  /\ todo \in [Queries -> Seq(Steps)]
  /\ pages \in SUBSET Queries
  /\ queries \in [Queries -> {"none", "PENDING", "COMPLETED", "FAILED", "CANCELLED"}]
  /\ closing \in [Shutdowns -> SUBSET Queries]
  /\ shuttingDown \in SUBSET Shutdowns
  /\ total \in Nat /\ successful \in Nat /\ failed \in Nat /\ cancelled \in Nat

\* Every query counted is counted as one outcome when its execution ends,
\* whatever cancelQuery and shutdown do to it meanwhile.
OutcomesAddUp == total = successful + failed + Cardinality(Executing)

\* No execution leaks its controller, and none escapes: one that is running
\* can be aborted under its own id or has been.
ControllersFollowExecutions ==
  /\ controllers \subseteq {ExecuteId(q) : q \in Executing}
  /\ {ExecuteId(q) : q \in Executing} \subseteq controllers \cup aborted

\* A query is counted as cancelled at most once, though its end overwrites the
\* status, shutdown erases it, and a late callback brings it back.
CancelledOnce ==
  cancelled + Cardinality(Pending) <= Cardinality(async)

\* A query stays PENDING only while its plan is executed: it does not get lost
\* between the executor and the status map, also when it never ran.
PendingOnlyWhileExecuting ==
  \A q \in Queries :
    (queries[q] = "PENDING" /\ stage[q] # "executing") ~> (queries[q] # "PENDING")

\* What "Signal the abort controller to cancel execution" says: once cancelQuery
\* has marked a query, its execution starts no further step. False: the
\* controller is registered under another id, and the executor looks at none.
CancelStopsExecution ==
  [][\A q \in Queries : queries[q] = "CANCELLED" => ~NextStep(q)]_vars

\* What the README's first example says, a SELECT of a URL that is executed: the
\* planner does not give up on one. False: its NAVIGATE and its DOM query depend
\* on themselves, by the array they share with the rest of the plan.
SelectsArePlanned ==
  [][\A q \in Queries, s \in Statements :
       s.kind = "SELECT" => ~PlannerOverflows(q, s)]_vars
=============================================================================
