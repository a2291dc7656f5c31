---------------------------- MODULE QueryPlanner ----------------------------
(****************************************************************************)
(* The plan of a statement (query-engine/planner/planner.ts): its steps in  *)
(* the order they are generated, each with the steps its dependencies array *)
(* names and the steps it keeps inside. The generators push onto an array   *)
(* they have already stored in a step: a step's dependencies are what its   *)
(* array holds when the generators have returned.                           *)
(*                                                                          *)
(* A step is named by its place. The bodies of FOR and IF are generated     *)
(* with an array of their own and spliced out of the plan into their step:  *)
(* they are plans of their own, and no node of the dependency graph.        *)
(****************************************************************************)
EXTENDS Naturals, Sequences

(* Statements, with what their plan depends on. The parser takes a statement *)
(* of any kind as a subquery and as a body; the analyzer stops at a nesting  *)
(* of 10. Here a statement has statements in it two deep.                    *)
PlainForms ==
  [kind : {"SELECT"}, source : {"URL", "VARIABLE"},
   where : BOOLEAN, orderBy : BOOLEAN, limit : BOOLEAN]
    \cup [kind : {"NAVIGATE"}, capture : BOOLEAN]
    \cup [kind : {"UPDATE"}, assignments : Nat \ {0}]
    \cup [kind : {"SET", "INSERT", "DELETE", "SHOW", "WITH"}]

\* The else branch of an IF that has none.
NoElse == [kind |-> "NONE"]

FormsOver(Inner) ==
  PlainForms
    \cup [kind : {"SELECT"}, source : {"SUBQUERY"}, subquery : Inner,
          where : BOOLEAN, orderBy : BOOLEAN, limit : BOOLEAN]
    \cup [kind : {"FOR"}, body : Inner]
    \cup [kind : {"IF"}, thenBranch : Inner, elseBranch : Inner \cup {NoElse}]

StatementForms == FormsOver(FormsOver(PlainForms))

\* The statements in a statement.
Parts(s) ==
  CASE s.kind = "SELECT" /\ s.source = "SUBQUERY" -> {s.subquery}
    [] s.kind = "FOR" -> {s.body}
    [] s.kind = "IF"  -> {s.thenBranch, s.elseBranch}
    [] OTHER -> {}

-----------------------------------------------------------------------------
StepTypes == {"NAVIGATE", "DOM_QUERY", "FILTER", "SORT", "LIMIT", "ASSIGN", "LOOP",
              "BRANCH", "TYPE", "EVALUATE_JS", "READ_VARIABLE"}

StepsOver(Bodies) ==
  [type : StepTypes, dependencies : SUBSET Nat, bodies : SUBSET Bodies]

PlainSteps == StepsOver({<<>>})
NestedSteps == StepsOver(Seq(PlainSteps))
Steps == StepsOver(Seq(NestedSteps))

\* A step with no steps inside: what follows it is what follows it in its plan.
Step(type, deps) == [type |-> type, dependencies |-> deps, bodies |-> {<<>>}]

\* A step with the steps inside of which it runs one sequence.
StepAround(type, bodies) == [type |-> type, dependencies |-> {}, bodies |-> bodies]

Bit(b) == IF b THEN 1 ELSE 0

OnlyIf(b, step) == IF b THEN <<step>> ELSE <<>>

\* What a SELECT's array "steps" holds in the end when its source took n steps:
\* the last of them, the DOM query, and the filter and sort that were pushed.
SelectArray(s, n) ==
  (IF n > 0 THEN {n} ELSE {})
    \cup (n + 1)..(n + 1 + Bit(s.where) + Bit(s.orderBy))

\* The steps of a SELECT after those of its source.
SelectTail(s, n) ==
  LET array == SelectArray(s, n) IN
  <<Step("DOM_QUERY", array)>>
    \o OnlyIf(s.where, Step("FILTER", {n + 1}))
    \o OnlyIf(s.orderBy, Step("SORT", array))
    \o OnlyIf(s.limit, Step("LIMIT", array))

\* The steps p of a subquery t that was given the array of its SELECT. SELECT,
\* INSERT and UPDATE copied it, when it was empty; the first step of the others
\* holds the array itself.
GivenArray(t, p, array) ==
  [i \in DOMAIN p |->
     IF i = 1 /\ t.kind \notin {"SELECT", "INSERT", "UPDATE"}
       THEN [p[i] EXCEPT !.dependencies = array]
       ELSE p[i]]

\* The plan of a SELECT, and below of any statement, when planOf holds the
\* plans of its parts.
generateSelectSteps(s, planOf) ==
  CASE s.source = "URL"      -> <<Step("NAVIGATE", SelectArray(s, 1))>> \o SelectTail(s, 1)
    [] s.source = "VARIABLE" -> SelectTail(s, 0)
    [] s.source = "SUBQUERY" ->
         LET p == planOf[s.subquery]
         IN GivenArray(s.subquery, p, SelectArray(s, Len(p))) \o SelectTail(s, Len(p))

generateNavigateSteps(s) ==
  <<Step("NAVIGATE", {})>> \o OnlyIf(s.capture, Step("DOM_QUERY", {1}))

\* One step per assignment, all with the same array.
generateUpdateSteps(s) ==
  [i \in 1..s.assignments |-> Step("EVALUATE_JS", 1..s.assignments)]

\* A WITH statement is no case of generateSteps: its plan is empty.
generateStepsOver(s, planOf) ==
  CASE s.kind = "SELECT"   -> generateSelectSteps(s, planOf)
    [] s.kind = "NAVIGATE" -> generateNavigateSteps(s)
    [] s.kind = "UPDATE"   -> generateUpdateSteps(s)
    [] s.kind = "SET"      -> <<Step("ASSIGN", {})>>
    [] s.kind = "FOR"      -> <<StepAround("LOOP", {planOf[s.body]})>>
    [] s.kind = "IF"       -> <<StepAround("BRANCH", {planOf[s.thenBranch],
                                                     planOf[s.elseBranch]})>>
    [] s.kind = "INSERT"   -> <<Step("TYPE", {})>>
    [] s.kind = "DELETE"   -> <<Step("EVALUATE_JS", {})>>
    [] s.kind = "SHOW"     -> <<Step("READ_VARIABLE", {})>>
    [] s.kind \in {"WITH", "NONE"} -> <<>>

generatePlainSteps(s) == generateStepsOver(s, [t \in {} |-> <<>>])
generateNestedSteps(s) ==
  generateStepsOver(s, [t \in Parts(s) |-> generatePlainSteps(t)])
generateSteps(s) ==
  generateStepsOver(s, [t \in Parts(s) |-> generateNestedSteps(t)])

-----------------------------------------------------------------------------
\* calculateStartTime marks a step only after its dependencies: it recurses
\* for ever, until the stack is full, exactly when the graph has a cycle.
Overflows(plan) ==
  \E cycle \in (SUBSET DOMAIN plan) \ {{}} :
    \A i \in cycle : plan[i].dependencies \cap cycle # {}

\* What a step run by the engine can come to, given whether its query's browser
\* has a page. Nothing writes the variables that LOOP, FILTER, SORT, LIMIT and
\* READ_VARIABLE read.
CanSucceed(step, page) ==
  \/ step.type \in {"NAVIGATE", "ASSIGN", "BRANCH"}
  \/ page /\ step.type \in {"DOM_QUERY", "TYPE", "EVALUATE_JS"}
=============================================================================
