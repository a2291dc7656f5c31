------------------------- MODULE QueryEngineProofs -------------------------
(****************************************************************************)
(* Proofs about QueryEngine for any number of calls and any statements.     *)
(****************************************************************************)
EXTENDS QueryEngine, FiniteSetTheorems, SequenceTheorems, TLAPS

\* Only calls of executeAsync that were made have a status that is pending.
Asked ==
  /\ Pending \subseteq async
  /\ \A q \in Queries : stage[q] = "new" => q \notin async

IInv ==
  /\ TypeOK
  /\ Asked
  /\ OutcomesAddUp
  /\ CancelledOnce
  /\ ControllersFollowExecutions

-----------------------------------------------------------------------------
\* The sets that are counted are finite, before and after a step.
LEMMA Counts ==
  ASSUME TypeOK, TypeOK'
  PROVE  /\ IsFiniteSet(Executing) /\ Cardinality(Executing) \in Nat
         /\ IsFiniteSet(Pending) /\ Cardinality(Pending) \in Nat
         /\ IsFiniteSet(Pending') /\ Cardinality(Pending') \in Nat
         /\ IsFiniteSet(async) /\ Cardinality(async) \in Nat
<1>1. /\ Executing \in SUBSET Queries /\ Pending \in SUBSET Queries
      /\ Pending' \in SUBSET Queries /\ async \in SUBSET Queries
  BY DEF Executing, Pending, TypeOK
<1>2. \A S \in SUBSET Queries : IsFiniteSet(S) /\ Cardinality(S) \in Nat
  BY QueryAssumption, FS_Subset, FS_CardinalityType
<1> QED
  BY <1>1, <1>2

\* A call's stage changes: what that does to the executions counted.
LEMMA StageMoves ==
  ASSUME TypeOK, TypeOK', NEW q \in Queries, NEW s,
         stage' = [stage EXCEPT ![q] = s]
  PROVE  /\ stage[q] # "executing" /\ s # "executing" => Executing' = Executing
         /\ stage[q] # "executing" /\ s = "executing"
              => /\ Executing' = Executing \cup {q}
                 /\ Cardinality(Executing') = Cardinality(Executing) + 1
         /\ stage[q] = "executing" /\ s # "executing"
              => /\ Executing' = Executing \ {q}
                 /\ Cardinality(Executing') = Cardinality(Executing) - 1
<1>1. stage[q] # "executing" /\ s # "executing" => Executing' = Executing
  BY DEF Executing, TypeOK
<1>2. stage[q] # "executing" /\ s = "executing"
        => Executing' = Executing \cup {q} /\ q \notin Executing
  BY DEF Executing, TypeOK
<1>3. stage[q] = "executing" /\ s # "executing"
        => Executing' = Executing \ {q} /\ q \in Executing
  BY DEF Executing, TypeOK
<1> QED
  BY <1>1, <1>2, <1>3, Counts, FS_AddElement, FS_RemoveElement

\* A query that was pending is cancelled: one pending query less.
LEMMA CancelCounts ==
  ASSUME TypeOK, TypeOK', NEW q \in Queries, cancel(q)
  PROVE  /\ Pending' = Pending \ {q}
         /\ Cardinality(Pending') + cancelled' = Cardinality(Pending) + cancelled
<1>1. Pending' = Pending \ {q} /\ q \in Pending
  BY DEF cancel, Pending, TypeOK
<1>2. Cardinality(Pending') = Cardinality(Pending) - 1
  BY <1>1, Counts, FS_RemoveElement
<1>3. cancelled' = cancelled + 1 /\ cancelled \in Nat
  BY DEF cancel, TypeOK
<1>4. Cardinality(Pending) \in Nat
  BY Counts
<1> QED
  BY <1>1, <1>2, <1>3, <1>4

\* Fewer pending queries only make room.
LEMMA FewerPending ==
  ASSUME TypeOK, TypeOK', CancelledOnce, Pending' \subseteq Pending,
         cancelled' = cancelled, async' = async
  PROVE  CancelledOnce'
<1>1. IsFiniteSet(Pending) /\ Cardinality(Pending) \in Nat
      /\ Cardinality(Pending') \in Nat /\ Cardinality(async) \in Nat
  BY Counts
<1>2. Pending' \in SUBSET Pending
  OBVIOUS
<1>3. Cardinality(Pending') <= Cardinality(Pending)
  BY <1>1, <1>2, FS_Subset
<1> QED
  BY <1>1, <1>3 DEF CancelledOnce, TypeOK

-----------------------------------------------------------------------------
(* Plans.                                                                   *)

\* A step with nothing inside is a step of every kind of plan.
LEMMA StepHolds ==
  ASSUME NEW B, <<>> \in B, NEW type \in StepTypes, NEW deps \in SUBSET Nat
  PROVE  /\ Step(type, deps) \in StepsOver(B)
         /\ Step(type, deps).dependencies = deps
BY DEF Step, StepsOver

\* A plan of one step, and a step that may be left out.
LEMMA OneStep ==
  ASSUME NEW S, NEW e \in S, NEW b
  PROVE  /\ <<e>> \in Seq(S) /\ <<e>> # <<>> /\ <<e>>[1] = e
         /\ OnlyIf(b, e) \in Seq(S)
BY DEF OnlyIf

\* Appending to a plan keeps its first step.
LEMMA HeadStays ==
  ASSUME NEW S, NEW a \in Seq(S), NEW b \in Seq(S), a # <<>>
  PROVE  a \o b \in Seq(S) /\ a \o b # <<>> /\ (a \o b)[1] = a[1]
<1>1. Len(a) >= 1 /\ 1 \in 1..Len(a)
  OBVIOUS
<1> QED
  BY <1>1

\* The array of a SELECT holds the number of its DOM query.
LEMMA ArrayOfSelect ==
  ASSUME NEW s, NEW n \in Nat
  PROVE  SelectArray(s, n) \in SUBSET Nat /\ n + 1 \in SelectArray(s, n)
<1>1. Bit(s.where) \in {0, 1} /\ Bit(s.orderBy) \in {0, 1}
  BY DEF Bit
<1>2. n + 1 \in (n + 1)..(n + 1 + Bit(s.where) + Bit(s.orderBy))
  BY <1>1
<1> QED
  BY <1>1, <1>2 DEF SelectArray

\* The steps after a SELECT's source begin with the DOM query.
LEMMA TailOfSelect ==
  ASSUME NEW s, NEW n \in Nat, NEW B, <<>> \in B
  PROVE  /\ SelectTail(s, n) \in Seq(StepsOver(B)) /\ SelectTail(s, n) # <<>>
         /\ SelectTail(s, n)[1].dependencies = SelectArray(s, n)
<1> DEFINE S == StepsOver(B)
           array == SelectArray(s, n)
           first == <<Step("DOM_QUERY", array)>>
           filter == OnlyIf(s.where, Step("FILTER", {n + 1}))
           sort == OnlyIf(s.orderBy, Step("SORT", array))
           limit == OnlyIf(s.limit, Step("LIMIT", array))
<1>1. array \in SUBSET Nat
  BY ArrayOfSelect
<1>2. /\ first \in Seq(S) /\ first # <<>> /\ first[1].dependencies = array
      /\ filter \in Seq(S) /\ sort \in Seq(S) /\ limit \in Seq(S)
  <2>1. \A t \in {"DOM_QUERY", "FILTER", "SORT", "LIMIT"} : t \in StepTypes
    BY DEF StepTypes
  <2>2. /\ Step("DOM_QUERY", array) \in S
        /\ Step("DOM_QUERY", array).dependencies = array
        /\ Step("FILTER", {n + 1}) \in S
        /\ Step("SORT", array) \in S /\ Step("LIMIT", array) \in S
    BY <1>1, <2>1, StepHolds
  <2> HIDE DEF array, S
  <2> QED
    BY <2>2, OneStep
<1> HIDE DEF S, array, first, filter, sort, limit
<1>3. /\ first \o filter \in Seq(S) /\ first \o filter # <<>>
      /\ (first \o filter)[1] = first[1]
  BY <1>2, HeadStays
<1>4. /\ first \o filter \o sort \in Seq(S) /\ first \o filter \o sort # <<>>
      /\ (first \o filter \o sort)[1] = first[1]
  BY <1>2, <1>3, HeadStays
<1>5. /\ first \o filter \o sort \o limit \in Seq(S)
      /\ first \o filter \o sort \o limit # <<>>
      /\ (first \o filter \o sort \o limit)[1] = first[1]
  BY <1>2, <1>4, HeadStays
<1> QED
  BY <1>2, <1>5 DEF SelectTail, S, array, first, filter, sort, limit

\* The steps of a subquery stay steps when they share the array of its SELECT.
LEMMA ArrayIsGiven ==
  ASSUME NEW t, NEW B, NEW p \in Seq(StepsOver(B)), NEW array \in SUBSET Nat
  PROVE  /\ GivenArray(t, p, array) \in Seq(StepsOver(B))
         /\ Len(GivenArray(t, p, array)) = Len(p)
<1> DEFINE g == GivenArray(t, p, array)
<1>1. ASSUME NEW e \in StepsOver(B)
      PROVE  [e EXCEPT !.dependencies = array] \in StepsOver(B)
  BY DEF StepsOver
<1>2. \A i \in 1..Len(p) : p[i] \in StepsOver(B)
  OBVIOUS
<1>3. g \in [1..Len(p) -> StepsOver(B)]
  <2>1. DOMAIN p = 1..Len(p)
    OBVIOUS
  <2> QED
    BY <1>1, <1>2, <2>1 DEF GivenArray
<1>4. Len(p) \in Nat
  OBVIOUS
<1> HIDE DEF g
<1>5. g \in Seq(StepsOver(B)) /\ Len(g) = Len(p)
  BY <1>3, <1>4
<1> QED
  BY <1>5 DEF g

\* The steps a SELECT's source takes come first, and then its own.
LEMMA StepsOfSelect ==
  ASSUME NEW s, NEW planOf, NEW B, <<>> \in B,
         s.source \in {"URL", "VARIABLE", "SUBQUERY"},
         s.source = "SUBQUERY" => planOf[s.subquery] \in Seq(StepsOver(B))
  PROVE  \E p \in Seq(StepsOver(B)) :
           generateSelectSteps(s, planOf) = p \o SelectTail(s, Len(p))
<1>1. CASE s.source = "URL"
  <2> DEFINE p == <<Step("NAVIGATE", SelectArray(s, 1))>>
  <2>1. Step("NAVIGATE", SelectArray(s, 1)) \in StepsOver(B)
    BY ArrayOfSelect, StepHolds DEF StepTypes
  <2>2. p \in Seq(StepsOver(B)) /\ Len(p) = 1
    BY <2>1
  <2>3. generateSelectSteps(s, planOf) = p \o SelectTail(s, 1)
    BY <1>1 DEF generateSelectSteps
  <2> QED
    BY <2>2, <2>3
<1>2. CASE s.source = "VARIABLE"
  <2>1. SelectTail(s, 0) \in Seq(StepsOver(B))
    BY TailOfSelect
  <2>2. SelectTail(s, 0) = <<>> \o SelectTail(s, 0)
    BY <2>1
  <2>3. <<>> \in Seq(StepsOver(B)) /\ Len(<<>>) = 0
    OBVIOUS
  <2> QED
    BY <1>2, <2>2, <2>3 DEF generateSelectSteps
<1>3. CASE s.source = "SUBQUERY"
  <2> DEFINE sub == planOf[s.subquery]
             p == GivenArray(s.subquery, sub, SelectArray(s, Len(sub)))
  <2>1. sub \in Seq(StepsOver(B)) /\ Len(sub) \in Nat
    BY <1>3
  <2>2. p \in Seq(StepsOver(B)) /\ Len(p) = Len(sub)
    BY <2>1, ArrayOfSelect, ArrayIsGiven
  <2>3. generateSelectSteps(s, planOf) = p \o SelectTail(s, Len(sub))
    BY <1>3 DEF generateSelectSteps
  <2> QED
    BY <2>2, <2>3
<1> QED
  BY <1>1, <1>2, <1>3

\* The kinds of statements, and what is known of one of each.
LEMMA Kinds ==
  ASSUME NEW Inner, NEW s \in FormsOver(Inner) \cup {NoElse}
  PROVE  \/ /\ s.kind = "SELECT" /\ s.source \in {"URL", "VARIABLE"}
            /\ Parts(s) = {}
         \/ /\ s.kind = "SELECT" /\ s.source = "SUBQUERY"
            /\ Parts(s) = {s.subquery} /\ s.subquery \in Inner
         \/ s.kind = "NAVIGATE" /\ s.capture \in BOOLEAN /\ Parts(s) = {}
         \/ s.kind = "UPDATE" /\ s.assignments \in Nat \ {0} /\ Parts(s) = {}
         \/ s.kind = "FOR" /\ Parts(s) = {s.body} /\ s.body \in Inner
         \/ /\ s.kind = "IF" /\ Parts(s) = {s.thenBranch, s.elseBranch}
            /\ s.thenBranch \in Inner /\ s.elseBranch \in Inner \cup {NoElse}
         \/ s.kind \in {"SET", "INSERT", "DELETE", "SHOW", "WITH", "NONE"} /\ Parts(s) = {}
BY DEF FormsOver, PlainForms, NoElse, Parts

\* A plan is a sequence of steps if the plans of the parts are, and may be kept
\* inside a step.
LEMMA PlanTyped ==
  ASSUME NEW Inner, NEW s \in FormsOver(Inner) \cup {NoElse}, NEW planOf,
         NEW B, <<>> \in B,
         \A t \in Parts(s) : planOf[t] \in B \cap Seq(StepsOver(B))
  PROVE  generateStepsOver(s, planOf) \in Seq(StepsOver(B))
<1> DEFINE S == StepsOver(B)
<1>0. \A type \in StepTypes, deps \in SUBSET Nat : Step(type, deps) \in S
  BY StepHolds
<1>1. CASE s.kind = "SELECT"
  <2>1. /\ s.source \in {"URL", "VARIABLE", "SUBQUERY"}
        /\ s.source = "SUBQUERY" => planOf[s.subquery] \in Seq(S)
    BY <1>1, Kinds
  <2>2. PICK p \in Seq(S) : generateSelectSteps(s, planOf) = p \o SelectTail(s, Len(p))
    BY <2>1, StepsOfSelect
  <2>3. SelectTail(s, Len(p)) \in Seq(S)
    BY TailOfSelect
  <2>4. p \o SelectTail(s, Len(p)) \in Seq(S)
    BY <2>3
  <2> QED
    BY <1>1, <2>2, <2>4 DEF generateStepsOver
<1>2. CASE s.kind = "NAVIGATE"
  <2>1. Step("NAVIGATE", {}) \in S /\ Step("DOM_QUERY", {1}) \in S
    BY <1>0 DEF StepTypes
  <2>2. <<Step("NAVIGATE", {})>> \in Seq(S)
        /\ OnlyIf(s.capture, Step("DOM_QUERY", {1})) \in Seq(S)
    BY <2>1, OneStep
  <2>3. generateNavigateSteps(s) \in Seq(S)
    BY <2>2 DEF generateNavigateSteps
  <2> QED
    BY <1>2, <2>3 DEF generateStepsOver
<1>3. CASE s.kind = "UPDATE"
  <2> DEFINE n == s.assignments
  <2>1. n \in Nat
    BY <1>3, Kinds
  <2>2. Step("EVALUATE_JS", 1..n) \in S
    BY <1>0, <2>1 DEF StepTypes
  <2>3. generateUpdateSteps(s) \in [1..n -> S]
    BY <2>2 DEF generateUpdateSteps
  <2>4. generateUpdateSteps(s) \in Seq(S)
    BY <2>1, <2>3
  <2> QED
    BY <1>3, <2>4 DEF generateStepsOver
<1>4. ASSUME NEW type \in {"LOOP", "BRANCH"}, NEW bodies \in SUBSET B
      PROVE  <<StepAround(type, bodies)>> \in Seq(S)
  <2>1. StepAround(type, bodies) \in S
    BY <1>4 DEF StepAround, StepsOver, StepTypes
  <2> QED
    BY <2>1
<1>5. CASE s.kind = "FOR"
  <2> DEFINE bodies == {planOf[s.body]}
  <2>1. bodies \in SUBSET B
    BY <1>5, Kinds
  <2>2. generateStepsOver(s, planOf) = <<StepAround("LOOP", bodies)>>
    BY <1>5 DEF generateStepsOver
  <2> HIDE DEF bodies
  <2> QED
    BY <1>4, <2>1, <2>2
<1>7. CASE s.kind = "IF"
  <2> DEFINE bodies == {planOf[s.thenBranch], planOf[s.elseBranch]}
  <2>1. bodies \in SUBSET B
    BY <1>7, Kinds
  <2>2. generateStepsOver(s, planOf) = <<StepAround("BRANCH", bodies)>>
    BY <1>7 DEF generateStepsOver
  <2> HIDE DEF bodies
  <2> QED
    BY <1>4, <2>1, <2>2
<1>6. CASE s.kind \in {"SET", "INSERT", "DELETE", "SHOW", "WITH", "NONE"}
  <2>1. \/ generateStepsOver(s, planOf) = <<>>
        \/ \E type \in StepTypes : generateStepsOver(s, planOf) = <<Step(type, {})>>
    BY <1>6 DEF generateStepsOver, StepTypes
  <2>2. \A type \in StepTypes : <<Step(type, {})>> \in Seq(S)
    BY <1>0, OneStep
  <2> HIDE DEF S
  <2>3. <<>> \in Seq(S)
    OBVIOUS
  <2>4. generateStepsOver(s, planOf) \in Seq(S)
    BY <2>1, <2>2, <2>3
  <2> QED
    BY <2>4 DEF S
<1> QED
  BY <1>1, <1>2, <1>3, <1>5, <1>6, <1>7, Kinds

\* What may be inside a step: plans of plain steps in one, and plans of those.
LEMMA StepsWiden ==
  /\ <<>> \in Seq(PlainSteps) /\ <<>> \in Seq(NestedSteps)
  /\ Seq(PlainSteps) \subseteq Seq(NestedSteps)
  /\ Seq(NestedSteps) \subseteq Seq(Steps)
<1>0. ASSUME NEW A, NEW B, A \subseteq B PROVE StepsOver(A) \subseteq StepsOver(B)
  BY <1>0 DEF StepsOver
<1>1. PlainSteps \subseteq NestedSteps
  <2>1. {<<>>} \subseteq Seq(PlainSteps)
    OBVIOUS
  <2> QED
    BY <1>0, <2>1 DEF PlainSteps, NestedSteps
<1>2. ASSUME NEW S, NEW T, S \subseteq T PROVE Seq(S) \subseteq Seq(T)
  <2> SUFFICES ASSUME NEW p \in Seq(S) PROVE p \in Seq(T)
    OBVIOUS
  <2>1. p \in [1..Len(p) -> T] /\ Len(p) \in Nat
    BY <1>2
  <2> QED
    BY <2>1
<1>3. Seq(PlainSteps) \subseteq Seq(NestedSteps)
  BY <1>1, <1>2
<1>4. NestedSteps \subseteq Steps
  BY <1>0, <1>3 DEF NestedSteps, Steps
<1> QED
  BY <1>2, <1>3, <1>4

\* The plan of a statement that may be a part of another is a sequence of steps.
LEMMA NestedPlansAreSteps ==
  \A s \in FormsOver(PlainForms) \cup {NoElse} :
    generateNestedSteps(s) \in Seq(NestedSteps)
<1>1. ASSUME NEW s \in PlainForms \cup {NoElse}
      PROVE  generatePlainSteps(s) \in Seq(PlainSteps)
  <2>1. s \in FormsOver({}) \cup {NoElse}
    BY DEF FormsOver
  <2>2. Parts(s) = {}
    BY <2>1, Kinds
  <2> QED
    BY <2>1, <2>2, PlanTyped DEF generatePlainSteps, PlainSteps
<1>2. ASSUME NEW s \in FormsOver(PlainForms) \cup {NoElse}
      PROVE  generateNestedSteps(s) \in Seq(NestedSteps)
  <2> DEFINE planOf == [t \in Parts(s) |-> generatePlainSteps(t)]
  <2>1. \A t \in Parts(s) : t \in PlainForms \cup {NoElse}
    BY Kinds
  <2>2. \A t \in Parts(s) : planOf[t] \in Seq(PlainSteps) \cap Seq(NestedSteps)
    BY <1>1, <2>1, StepsWiden
  <2> HIDE DEF planOf
  <2>3. generateStepsOver(s, planOf) \in Seq(NestedSteps)
    BY <2>2, StepsWiden, PlanTyped DEF NestedSteps
  <2> QED
    BY <2>3 DEF generateNestedSteps, planOf
<1> QED
  BY <1>2

\* The plan of every statement is a sequence of steps.
LEMMA PlansAreSteps == \A s \in StatementForms : generateSteps(s) \in Seq(Steps)
<1> SUFFICES ASSUME NEW s \in StatementForms PROVE generateSteps(s) \in Seq(Steps)
  OBVIOUS
<1> DEFINE planOf == [t \in Parts(s) |-> generateNestedSteps(t)]
<1>0. s \in FormsOver(FormsOver(PlainForms)) \cup {NoElse}
  BY DEF StatementForms
<1>1. \A t \in Parts(s) : t \in FormsOver(PlainForms) \cup {NoElse}
  BY <1>0, Kinds
<1>2. \A t \in Parts(s) : planOf[t] \in Seq(NestedSteps) \cap Seq(Steps)
  BY <1>1, NestedPlansAreSteps, StepsWiden
<1> HIDE DEF planOf
<1>3. generateStepsOver(s, planOf) \in Seq(Steps)
  BY <1>0, <1>2, StepsWiden, PlanTyped DEF Steps
<1> QED
  BY <1>3 DEF generateSteps, planOf

-----------------------------------------------------------------------------
\* The type invariant is inductive.
LEMMA TypeStep == ASSUME TypeOK, [Next]_vars PROVE TypeOK'
<1> USE DEF TypeOK
<1>1. CASE initialize
  BY <1>1 DEF initialize, callVars, planVars, idVars, downVars, metrics
<1>2. ASSUME NEW q \in Queries, NEW s \in Statements, execute(q, s),
             \/ UNCHANGED <<async, queries>>
             \/ /\ async' = async \cup {q}
                /\ queries' = [queries EXCEPT ![q] = "PENDING"]
      PROVE  TypeOK'
  <2>1. generateSteps(s) \in Seq(Steps)
    BY PlansAreSteps, QueryAssumption
  <2>2. CASE NotInitialized(q)
    BY <1>2, <2>2 DEF execute, NotInitialized, planVars, downVars, metrics
  <2>3. CASE Throws(q)
    <3>1. todo' = todo /\ pages' = pages /\ total' = total + 1 /\ failed' = failed + 1
          /\ successful' = successful /\ cancelled' = cancelled
      BY <2>3 DEF Throws, planVars
    <3>2. stage' = [stage EXCEPT ![q] = "rejected"]
      BY <2>3 DEF Throws
    <3>3. /\ total' \in Nat /\ failed' \in Nat
          /\ stage' \in [Queries -> {"new", "executing", "resolved", "rejected", "settled"}]
      BY <3>1, <3>2
    <3>4. /\ async' \in SUBSET Queries
          /\ queries' \in [Queries -> {"none", "PENDING", "COMPLETED", "FAILED", "CANCELLED"}]
      BY <1>2
    <3> QED
      BY <1>2, <3>1, <3>3, <3>4 DEF execute, downVars
  <2>4. CASE Run(q, s)
    BY <1>2, <2>1, <2>4 DEF execute, Run, downVars
  <2> QED
    BY <1>2, <2>2, <2>3, <2>4 DEF execute, FrontEndThrows, PlannerOverflows
<1>3. ASSUME NEW q \in Queries, NextStep(q) PROVE TypeOK'
  <2>1. PICK body \in Head(todo[q]).bodies :
          todo' = [todo EXCEPT ![q] = body \o Tail(todo[q])]
    BY <1>3 DEF NextStep
  <2>2. todo[q] \in Seq(Steps) /\ todo[q] # <<>>
    BY <1>3 DEF NextStep
  <2>3. Head(todo[q]) \in Steps /\ Tail(todo[q]) \in Seq(Steps)
    BY <2>2
  <2>4. body \in Seq(Steps)
    BY <2>3, StepsWiden DEF Steps, StepsOver
  <2>5. body \o Tail(todo[q]) \in Seq(Steps)
    BY <2>3, <2>4
  <2>6. todo' \in [Queries -> Seq(Steps)]
    BY <2>1, <2>5
  <2> QED
    BY <1>3, <2>6 DEF NextStep, idVars, downVars, metrics
<1>4. ASSUME NEW q \in Queries, ExecutionEnds(q) PROVE TypeOK'
  <2>1. <<>> \in Seq(Steps)
    OBVIOUS
  <2> QED
    BY <1>4, <2>1 DEF ExecutionEnds, Ends, downVars
<1>5. ASSUME NEW q \in Queries, Settle(q) PROVE TypeOK'
  BY <1>5 DEF Settle, planVars, idVars, downVars, metrics
<1>6. ASSUME NEW q \in Queries, cancelQuery(q) PROVE TypeOK'
  BY <1>6 DEF cancelQuery, cancel, callVars, planVars, downVars
<1>7. ASSUME NEW d \in Shutdowns, Close(d),
             UNCHANGED <<callVars, total, successful, failed>>
      PROVE  TypeOK'
  BY <1>7 DEF Close, callVars, planVars
<1>8. ASSUME NEW d \in Shutdowns, NEW S \in SUBSET Queries, CancelOne(d, S),
             UNCHANGED <<callVars, total, successful, failed>>
      PROVE  TypeOK'
  <2>1. UNCHANGED <<stmt, async, stage, todo, pages, total, successful, failed, initialized>>
    BY <1>8 DEF CancelOne, callVars, planVars
  <2>2. PICK q \in S :
          /\ closing' = [closing EXCEPT ![d] = S \ {q}]
          /\ cancel(q) \/ UNCHANGED <<aborted, queries, controllers, cancelled>>
    BY <1>8 DEF CancelOne
  <2>3. closing' \in [Shutdowns -> SUBSET Queries] /\ shuttingDown' \in SUBSET Shutdowns
    BY <1>8, <2>2 DEF CancelOne
  <2>4. /\ queries' \in [Queries -> {"none", "PENDING", "COMPLETED", "FAILED", "CANCELLED"}]
        /\ cancelled' \in Nat
    <3>1. CASE cancel(q)
      BY <3>1 DEF cancel
    <3>2. CASE UNCHANGED <<aborted, queries, controllers, cancelled>>
      BY <3>2
    <3> QED
      BY <2>2, <3>1, <3>2
  <2> QED
    BY <2>1, <2>3, <2>4
<1>9. CASE UNCHANGED vars
  BY <1>9 DEF vars, callVars, planVars, idVars, downVars, metrics
<1>a. ASSUME NEW d \in Shutdowns, shutdown(d) \/ ShutdownContinues(d) PROVE TypeOK'
  <2>1. Pending \in SUBSET Queries /\ closing[d] \in SUBSET Queries
    BY DEF Pending
  <2> QED
    BY <1>7, <1>8, <1>a, <2>1 DEF shutdown, ShutdownContinues, Closes
<1> QED
  BY <1>1, <1>2, <1>3, <1>4, <1>5, <1>6, <1>9, <1>a DEF Next, Execute, executeAsync

\* The invariant is kept, action by action.
LEMMA InvStep == ASSUME IInv, [Next]_vars PROVE IInv'
<1>t. TypeOK /\ TypeOK'
  BY TypeStep DEF IInv
<1> USE <1>t
<1>n. /\ Cardinality(Executing) \in Nat
      /\ Cardinality(Pending) \in Nat /\ Cardinality(async) \in Nat
      /\ total \in Nat /\ successful \in Nat /\ failed \in Nat /\ cancelled \in Nat
  BY Counts DEF TypeOK
<1>1. CASE initialize
  <2>1. /\ Executing' = Executing /\ Pending' = Pending
    BY <1>1 DEF initialize, callVars, Executing, Pending
  <2> QED
    BY <1>1, <2>1 DEF initialize, callVars, idVars, downVars, metrics, IInv, Asked,
       OutcomesAddUp, CancelledOnce, ControllersFollowExecutions
<1>2. ASSUME NEW q \in Queries, NEW s \in Statements, execute(q, s),
             \/ UNCHANGED <<async, queries>>
             \/ /\ async' = async \cup {q}
                /\ queries' = [queries EXCEPT ![q] = "PENDING"]
      PROVE  IInv'
  <2>1. stage[q] = "new" /\ q \notin async /\ q \notin Pending
    BY <1>2 DEF execute, IInv, Asked
  <2>2. OutcomesAddUp' /\ ControllersFollowExecutions'
    <3>1. CASE NotInitialized(q)
      <4>1. Executing' = Executing
        BY <2>1, <3>1, StageMoves DEF NotInitialized
      <4> QED
        BY <3>1, <4>1 DEF NotInitialized, metrics, idVars, IInv, OutcomesAddUp,
           ControllersFollowExecutions
    <3>2. CASE Throws(q)
      <4>1. Executing' = Executing
        BY <2>1, <3>2, StageMoves DEF Throws
      <4> QED
        BY <1>n, <3>2, <4>1 DEF Throws, idVars, IInv, OutcomesAddUp,
           ControllersFollowExecutions
    <3>3. CASE Run(q, s)
      <4>1. /\ Executing' = Executing \cup {q}
            /\ Cardinality(Executing') = Cardinality(Executing) + 1
        BY <2>1, <3>3, StageMoves DEF Run
      <4>2. OutcomesAddUp'
        BY <1>n, <3>3, <4>1 DEF Run, IInv, OutcomesAddUp
      <4>3. ControllersFollowExecutions'
        BY <3>3, <4>1 DEF Run, IInv, ControllersFollowExecutions
      <4> QED
        BY <4>2, <4>3
    <3> QED
      BY <1>2, <3>1, <3>2, <3>3 DEF execute, FrontEndThrows, PlannerOverflows
  <2>3. cancelled' = cancelled /\ stage' = [stage EXCEPT ![q] = stage'[q]]
        /\ stage'[q] # "new"
    BY <1>2 DEF execute, NotInitialized, FrontEndThrows, PlannerOverflows, Throws, Run,
       metrics, TypeOK
  <2>4. Asked' /\ CancelledOnce'
    <3>1. CASE UNCHANGED <<async, queries>>
      <4>1. Pending' = Pending
        BY <3>1 DEF Pending
      <4> QED
        BY <2>3, <3>1, <4>1 DEF IInv, Asked, CancelledOnce, TypeOK
    <3>2. CASE /\ async' = async \cup {q}
               /\ queries' = [queries EXCEPT ![q] = "PENDING"]
      <4>1. Pending' = Pending \cup {q}
        BY <3>2 DEF Pending, TypeOK
      <4>2. /\ Cardinality(Pending') = Cardinality(Pending) + 1
            /\ Cardinality(async') = Cardinality(async) + 1
        BY <2>1, <3>2, <4>1, Counts, FS_AddElement
      <4>3. CancelledOnce'
        BY <1>n, <2>3, <4>2 DEF IInv, CancelledOnce
      <4>4. Asked'
        BY <2>3, <3>2, <4>1 DEF IInv, Asked, TypeOK
      <4> QED
        BY <4>3, <4>4
    <3> QED
      BY <1>2, <3>1, <3>2
  <2> QED
    BY <2>2, <2>4 DEF IInv
<1>3. ASSUME NEW q \in Queries, NextStep(q) PROVE IInv'
  <2>1. Executing' = Executing /\ Pending' = Pending
    BY <1>3 DEF NextStep, Executing, Pending
  <2> QED
    BY <1>3, <2>1 DEF NextStep, idVars, downVars, metrics, IInv, Asked,
       OutcomesAddUp, CancelledOnce, ControllersFollowExecutions
<1>4. ASSUME NEW q \in Queries, ExecutionEnds(q) PROVE IInv'
  <2>1. PICK t \in {"resolved", "rejected"} : stage' = [stage EXCEPT ![q] = t]
    BY <1>4 DEF ExecutionEnds, Ends
  <2>2. /\ Executing' = Executing \ {q}
        /\ Cardinality(Executing') = Cardinality(Executing) - 1
    BY <1>4, <2>1, StageMoves DEF ExecutionEnds
  <2>3. OutcomesAddUp'
    <3>1. total' = total
      BY <1>4 DEF ExecutionEnds
    <3>2. \/ successful' = successful + 1 /\ failed' = failed
          \/ successful' = successful /\ failed' = failed + 1
      BY <1>4 DEF ExecutionEnds, Ends
    <3>3. Cardinality(Executing') = Cardinality(Executing) - 1
      BY <2>2
    <3>4. total = successful + failed + Cardinality(Executing)
      BY DEF IInv, OutcomesAddUp
    <3>5. total' = successful' + failed' + Cardinality(Executing')
      BY <1>n, <3>1, <3>2, <3>3, <3>4
    <3> QED
      BY <3>5 DEF OutcomesAddUp
  <2>4. ControllersFollowExecutions'
    BY <1>4, <2>2 DEF ExecutionEnds, ExecuteId, IInv, ControllersFollowExecutions
  <2>5. Pending' = Pending
    BY <1>4 DEF ExecutionEnds, Pending
  <2>6. Asked' /\ CancelledOnce'
    BY <1>4, <2>1, <2>5 DEF ExecutionEnds, IInv, Asked, CancelledOnce, TypeOK
  <2> QED
    BY <2>3, <2>4, <2>6 DEF IInv
<1>5. ASSUME NEW q \in Queries, Settle(q) PROVE IInv'
  <2>1. Executing' = Executing
    BY <1>5, StageMoves DEF Settle
  <2>2. Pending' \subseteq Pending
    BY <1>5 DEF Settle, Pending, TypeOK
  <2>3. CancelledOnce'
    BY <1>5, <2>2, FewerPending DEF IInv, Settle, metrics
  <2>4. Asked'
    BY <1>5, <2>2 DEF IInv, Asked, Settle, TypeOK
  <2> QED
    BY <1>5, <2>1, <2>3, <2>4 DEF Settle, idVars, metrics, IInv, OutcomesAddUp,
       ControllersFollowExecutions
<1>6. ASSUME NEW q \in Queries, cancel(q),
             UNCHANGED <<callVars, total, successful, failed>>
      PROVE  IInv'
  <2>1. Executing' = Executing
    BY <1>6 DEF callVars, Executing
  <2>2. CancelledOnce'
    <3>1. cancelled' \in Nat /\ Cardinality(Pending') \in Nat
      BY Counts DEF TypeOK
    <3>2. Cardinality(Pending') + cancelled' = Cardinality(Pending) + cancelled
      BY <1>6, CancelCounts
    <3>3. async' = async
      BY <1>6 DEF callVars
    <3> QED
      BY <1>n, <3>1, <3>2, <3>3 DEF IInv, CancelledOnce
  <2>3. Asked'
    BY <1>6, CancelCounts DEF IInv, Asked, callVars
  <2>4. ControllersFollowExecutions'
    BY <1>6, <2>1 DEF cancel, AsyncId, ExecuteId, IInv, ControllersFollowExecutions
  <2> QED
    BY <1>6, <2>1, <2>2, <2>3, <2>4 DEF IInv, OutcomesAddUp
<1>7. ASSUME NEW d \in Shutdowns, Close(d),
             UNCHANGED <<callVars, total, successful, failed>>
      PROVE  IInv'
  <2>1. Executing' = Executing /\ Pending' = {}
    BY <1>7 DEF Close, callVars, Executing, Pending
  <2>2. CancelledOnce'
    BY <1>7, <2>1, FewerPending DEF IInv, Close, callVars
  <2> QED
    BY <1>7, <2>1, <2>2 DEF Close, callVars, IInv, Asked, OutcomesAddUp,
       ControllersFollowExecutions
<1>8. ASSUME NEW d \in Shutdowns, NEW S \in SUBSET Queries, CancelOne(d, S),
             UNCHANGED <<callVars, total, successful, failed>>
      PROVE  IInv'
  <2>1. CASE \E q \in S : cancel(q)
    BY <1>6, <1>8, <2>1
  <2>2. CASE UNCHANGED <<aborted, queries, controllers, cancelled>>
    <3>1. Executing' = Executing /\ Pending' = Pending
      BY <1>8, <2>2 DEF callVars, Executing, Pending
    <3> QED
      BY <1>8, <2>2, <3>1 DEF callVars, IInv, Asked, OutcomesAddUp, CancelledOnce,
         ControllersFollowExecutions
  <2> QED
    BY <1>8, <2>1, <2>2 DEF CancelOne
<1>9. CASE UNCHANGED vars
  <2>1. Executing' = Executing /\ Pending' = Pending
    BY <1>9 DEF vars, callVars, Executing, Pending
  <2> QED
    BY <1>9, <2>1 DEF vars, callVars, idVars, metrics, IInv, Asked, OutcomesAddUp,
       CancelledOnce, ControllersFollowExecutions
<1>a. Pending \in SUBSET Queries /\ \A d \in Shutdowns : closing[d] \in SUBSET Queries
  BY DEF Pending, TypeOK
<1> QED
  BY <1>1, <1>2, <1>3, <1>4, <1>5, <1>6, <1>7, <1>8, <1>9, <1>a
     DEF Next, shutdown, ShutdownContinues, Closes, Execute, executeAsync, cancelQuery

\* The invariant holds at first.
LEMMA InvInit == Init => IInv
<1> SUFFICES ASSUME Init PROVE IInv
  OBVIOUS
<1>1. Executing = {} /\ Pending = {}
  BY DEF Init, Executing, Pending
<1>2. TypeOK
  <2>1. <<>> \in Seq(Steps)
    OBVIOUS
  <2> QED
    BY <2>1 DEF Init, TypeOK
<1>3. Cardinality(Executing) = 0 /\ Cardinality(Pending) = 0 /\ Cardinality(async) = 0
  BY <1>1, FS_EmptySet DEF Init
<1>4. OutcomesAddUp /\ CancelledOnce
  BY <1>3 DEF Init, OutcomesAddUp, CancelledOnce
<1>5. Asked /\ ControllersFollowExecutions
  BY <1>1 DEF Init, Asked, ControllersFollowExecutions
<1> QED
  BY <1>2, <1>4, <1>5 DEF IInv

\* The invariant holds always.
LEMMA Inductive == Spec => []IInv
BY InvInit, InvStep, PTL DEF Spec

-----------------------------------------------------------------------------
\* Every variable of the engine keeps its type, for any calls and statements.
THEOREM TypeCorrect == Spec => []TypeOK
<1>1. IInv => TypeOK
  BY DEF IInv
<1> QED
  BY <1>1, Inductive, PTL

\* metrics.queries adds up: every call the engine counted in total is counted
\* as one outcome when its execution ends, and not before.
THEOREM EveryOutcomeIsCounted == Spec => []OutcomesAddUp
<1>1. IInv => OutcomesAddUp
  BY DEF IInv
<1> QED
  BY <1>1, Inductive, PTL

\* abortControllers holds controllers of running executions only, and of all
\* that were not aborted.
THEOREM ControllersAreTidy == Spec => []ControllersFollowExecutions
<1>1. IInv => ControllersFollowExecutions
  BY DEF IInv
<1> QED
  BY <1>1, Inductive, PTL

\* cancelQuery and shutdown together never count more cancellations than there
\* are asynchronous queries.
THEOREM CancellationsAreCountedOnce == Spec => []CancelledOnce
<1>1. IInv => CancelledOnce
  BY DEF IInv
<1> QED
  BY <1>1, Inductive, PTL

-----------------------------------------------------------------------------
(* What the planner cannot plan.                                            *)

\* The DOM query of a SELECT depends on itself.
LEMMA SelectOverflows ==
  ASSUME NEW s, NEW p \in Seq(Steps)
  PROVE  Overflows(p \o SelectTail(s, Len(p)))
<1> DEFINE n == Len(p)
           tail == SelectTail(s, n)
           all == p \o tail
<1>1. n \in Nat /\ <<>> \in Seq(NestedSteps)
  OBVIOUS
<1>2. tail \in Seq(Steps) /\ tail # <<>> /\ tail[1].dependencies = SelectArray(s, n)
  BY <1>1, TailOfSelect DEF Steps
<1>3. n + 1 \in SelectArray(s, n)
  BY <1>1, ArrayOfSelect
<1> HIDE DEF tail
<1>4. n + 1 \in DOMAIN all /\ all[n + 1] = tail[1]
  <2>1. Len(tail) \in Nat /\ Len(tail) >= 1
    BY <1>2
  <2>2. Len(all) = n + Len(tail) /\ DOMAIN all = 1..(n + Len(tail))
    BY <1>2
  <2>3. all[n + 1] = tail[(n + 1) - n]
    BY <1>1, <1>2, <2>1
  <2> QED
    BY <1>1, <2>1, <2>2, <2>3
<1> HIDE DEF n, all
<1>5. {n + 1} \in (SUBSET DOMAIN all) \ {{}}
  BY <1>4
<1>6. \A i \in {n + 1} : all[i].dependencies \cap {n + 1} # {}
  BY <1>2, <1>3, <1>4
<1>7. Overflows(all)
  BY <1>5, <1>6 DEF Overflows
<1> QED
  BY <1>7 DEF all, tail, n

\* Every step of an UPDATE depends on all of them.
LEMMA UpdateOverflows ==
  ASSUME NEW s, s.assignments \in Nat \ {0}
  PROVE  Overflows(generateUpdateSteps(s))
<1> DEFINE n == s.assignments
           p == generateUpdateSteps(s)
<1>1. 1 \in 1..n
  OBVIOUS
<1>2. DOMAIN p = 1..n /\ p[1].dependencies = 1..n
  BY <1>1 DEF generateUpdateSteps, Step
<1> HIDE DEF n, p
<1>3. {1} \in (SUBSET DOMAIN p) \ {{}}
  BY <1>1, <1>2
<1>4. \A i \in {1} : p[i].dependencies \cap {1} # {}
  BY <1>1, <1>2
<1>5. Overflows(p)
  BY <1>3, <1>4 DEF Overflows
<1> QED
  BY <1>5 DEF p

\* One step, or two with the second after the first, are no cycle.
LEMMA InOrderPlanned ==
  ASSUME NEW p, DOMAIN p \subseteq {1, 2},
         1 \in DOMAIN p => p[1].dependencies = {},
         2 \in DOMAIN p => p[2].dependencies \subseteq {1}
  PROVE  ~Overflows(p)
<1> SUFFICES ASSUME NEW C \in (SUBSET DOMAIN p) \ {{}},
                    \A i \in C : p[i].dependencies \cap C # {}
             PROVE  FALSE
  BY DEF Overflows
<1>1. 1 \notin C
  OBVIOUS
<1>2. 2 \notin C
  BY <1>1
<1> QED
  BY <1>1, <1>2

\* The planner overflows the stack on every SELECT and every UPDATE, with any
\* source, clauses and assignments, and on no other statement: not on an IF or a
\* FOR either, whose bodies are no nodes of the graph.
THEOREM WhatOverflows ==
  \A s \in StatementForms :
    Overflows(generateSteps(s)) <=> s.kind \in {"SELECT", "UPDATE"}
<1> SUFFICES ASSUME NEW s \in StatementForms
             PROVE  Overflows(generateSteps(s)) <=> s.kind \in {"SELECT", "UPDATE"}
  OBVIOUS
<1> DEFINE planOf == [t \in Parts(s) |-> generateNestedSteps(t)]
<1>0. generateSteps(s) = generateStepsOver(s, planOf)
  BY DEF generateSteps
<1> HIDE DEF planOf
<1>k. s \in FormsOver(FormsOver(PlainForms)) \cup {NoElse}
  BY DEF StatementForms
<1>1. CASE s.kind = "SELECT"
  <2>1. s.source \in {"URL", "VARIABLE", "SUBQUERY"}
    BY <1>1, <1>k, Kinds
  <2>2. s.source = "SUBQUERY" => planOf[s.subquery] \in Seq(Steps)
    BY <1>1, <1>k, Kinds, NestedPlansAreSteps, StepsWiden DEF planOf
  <2>3. <<>> \in Seq(NestedSteps)
    OBVIOUS
  <2>4. PICK p \in Seq(Steps) : generateSelectSteps(s, planOf) = p \o SelectTail(s, Len(p))
    BY <2>1, <2>2, <2>3, StepsOfSelect DEF Steps
  <2> QED
    BY <1>0, <1>1, <2>4, SelectOverflows DEF generateStepsOver
<1>2. CASE s.kind = "UPDATE"
  <2>1. s.assignments \in Nat \ {0}
    BY <1>2, <1>k, Kinds
  <2> QED
    BY <1>0, <1>2, <2>1, UpdateOverflows DEF generateStepsOver
<1>3. CASE s.kind = "NAVIGATE"
  <2> DEFINE a == Step("NAVIGATE", {})
             b == Step("DOM_QUERY", {1})
             p == generateNavigateSteps(s)
  <2>1. a.dependencies = {} /\ b.dependencies = {1}
    BY DEF Step
  <2>2. p = <<a>> \o OnlyIf(s.capture, b)
    BY DEF generateNavigateSteps
  <2> HIDE DEF a, b, p
  <2>3. ASSUME s.capture PROVE ~Overflows(p)
    <3>1. p = <<a>> \o <<b>>
      BY <2>2, <2>3 DEF OnlyIf
    <3>2. DOMAIN p = 1..2 /\ p[1] = a /\ p[2] = b
      <4>1. /\ <<a>> \in Seq({a, b}) /\ <<b>> \in Seq({a, b})
            /\ Len(<<a>>) = 1 /\ Len(<<b>>) = 1 /\ <<a>>[1] = a /\ <<b>>[1] = b
        OBVIOUS
      <4> QED
        BY <3>1, <4>1, ConcatProperties, LenProperties
    <3>3. DOMAIN p \subseteq {1, 2}
      BY <3>2
    <3> QED
      BY <2>1, <3>2, <3>3, InOrderPlanned
  <2>4. ASSUME ~s.capture PROVE ~Overflows(p)
    <3>1. p = <<a>>
      <4>1. <<a>> \o <<>> = <<a>>
        OBVIOUS
      <4> QED
        BY <2>2, <2>4, <4>1 DEF OnlyIf
    <3>2. DOMAIN p = {1} /\ p[1] = a
      BY <3>1
    <3>3. DOMAIN p \subseteq {1, 2} /\ 2 \notin DOMAIN p
      BY <3>2
    <3> QED
      BY <2>1, <3>2, <3>3, InOrderPlanned
  <2>5. ~Overflows(p)
    BY <2>3, <2>4
  <2> QED
    BY <1>0, <1>3, <2>5 DEF generateStepsOver, p
<1>4. CASE s.kind \in {"SET", "FOR", "IF", "INSERT", "DELETE", "SHOW", "WITH", "NONE"}
  <2>1. \/ generateSteps(s) = <<>>
        \/ \E step : generateSteps(s) = <<step>> /\ step.dependencies = {}
    BY <1>0, <1>4 DEF generateStepsOver, Step, StepAround
  <2> QED
    BY <1>4, <2>1, InOrderPlanned
<1> QED
  BY <1>1, <1>2, <1>3, <1>4, <1>k, Kinds

\* What is executed has been planned without overflowing the stack.
Planned ==
  \A q \in Executing : stmt[q] \in Statements /\ ~Overflows(generateSteps(stmt[q]))

\* It is checked when the executor starts, and a call keeps its statement.
LEMMA PlannedStep == ASSUME TypeOK, Planned, [Next]_vars PROVE Planned'
<1> USE DEF Planned, Executing
<1>1. CASE UNCHANGED <<stmt, stage>>
  BY <1>1
<1>2. ASSUME NEW q \in Queries, NEW s \in Statements, execute(q, s) PROVE Planned'
  <2>1. stage[q] = "new" /\ stmt' = [stmt EXCEPT ![q] = s]
    BY <1>2 DEF execute
  <2>2. CASE Run(q, s)
    BY <2>1, <2>2 DEF Run, TypeOK
  <2>3. CASE stage' = [stage EXCEPT ![q] = "rejected"]
    BY <2>1, <2>3 DEF TypeOK
  <2> QED
    BY <1>2, <2>2, <2>3
       DEF execute, NotInitialized, FrontEndThrows, PlannerOverflows, Throws
<1>3. ASSUME NEW q \in Queries, NextStep(q) PROVE Planned'
  BY <1>3 DEF NextStep
<1>4. ASSUME NEW q \in Queries, ExecutionEnds(q) PROVE Planned'
  BY <1>4 DEF ExecutionEnds, Ends, TypeOK
<1>5. ASSUME NEW q \in Queries, Settle(q) PROVE Planned'
  BY <1>5 DEF Settle, TypeOK
<1>6. CASE \/ initialize \/ UNCHANGED vars
           \/ \E d \in Shutdowns : shutdown(d) \/ ShutdownContinues(d)
  BY <1>1, <1>6 DEF initialize, shutdown, ShutdownContinues, Closes, vars, callVars
<1>7. ASSUME NEW q \in Queries, cancelQuery(q) PROVE Planned'
  BY <1>1, <1>7 DEF cancelQuery, callVars
<1> QED
  BY <1>2, <1>3, <1>4, <1>5, <1>6, <1>7 DEF Next, Execute, executeAsync

\* No SELECT and no UPDATE is ever executed as the statement of a call: the other
\* side of SelectsArePlanned, for any calls and statements.
THEOREM NoSelectIsExecuted ==
  Spec => [](\A q \in Executing : stmt[q].kind \notin {"SELECT", "UPDATE"})
<1>1. Init => Planned
  BY DEF Init, Planned, Executing
<1>2. TypeOK /\ Planned /\ [Next]_vars => Planned'
  BY PlannedStep
<1>3. Planned => \A q \in Executing : stmt[q].kind \notin {"SELECT", "UPDATE"}
  BY WhatOverflows, QueryAssumption DEF Planned
<1> QED
  BY <1>1, <1>2, <1>3, TypeCorrect, PTL DEF Spec

-----------------------------------------------------------------------------
(* What the liveness property rests on.                                     *)

(* A query that is PENDING has a call whose callbacks are still to run.     *)
PendingWillSettle ==
  \A q \in Pending : q \in async /\ stage[q] \in {"executing", "resolved", "rejected"}

\* A query becomes PENDING as its call begins, and its callbacks overwrite it.
LEMMA PendingStep == ASSUME IInv, PendingWillSettle, [Next]_vars PROVE PendingWillSettle'
<1> USE DEF PendingWillSettle, Pending
<1>0. TypeOK
  BY DEF IInv
<1>1. ASSUME NEW q \in Queries, NEW s \in Statements, execute(q, s),
             \/ UNCHANGED <<async, queries>>
             \/ /\ async' = async \cup {q}
                /\ queries' = [queries EXCEPT ![q] = "PENDING"]
      PROVE  PendingWillSettle'
  <2>1. PICK t \in {"executing", "rejected"} : stage' = [stage EXCEPT ![q] = t]
    BY <1>1 DEF execute, NotInitialized, FrontEndThrows, PlannerOverflows, Throws, Run
  <2>2. stage[q] = "new" /\ q \notin Pending
    BY <1>1 DEF execute
  <2> QED
    BY <1>0, <1>1, <2>1, <2>2 DEF TypeOK
<1>2. ASSUME NEW q \in Queries, NextStep(q) \/ ExecutionEnds(q) PROVE PendingWillSettle'
  BY <1>0, <1>2 DEF NextStep, ExecutionEnds, Ends, TypeOK
<1>3. ASSUME NEW q \in Queries, Settle(q) PROVE PendingWillSettle'
  BY <1>0, <1>3 DEF Settle, TypeOK
<1>4. ASSUME UNCHANGED callVars, \A q \in Queries : queries'[q] = "PENDING" => queries[q] = "PENDING"
      PROVE  PendingWillSettle'
  BY <1>4 DEF callVars
<1>5. ASSUME NEW q \in Queries, cancel(q)
      PROVE  \A p \in Queries : queries'[p] = "PENDING" => queries[p] = "PENDING"
  BY <1>0, <1>5 DEF cancel, TypeOK
<1>6. ASSUME NEW d \in Shutdowns, NEW S \in SUBSET Queries, CancelOne(d, S)
      PROVE  \A p \in Queries : queries'[p] = "PENDING" => queries[p] = "PENDING"
  BY <1>5, <1>6 DEF CancelOne
<1>7. ASSUME NEW d \in Shutdowns, Close(d)
      PROVE  \A p \in Queries : queries'[p] = "PENDING" => queries[p] = "PENDING"
  BY <1>7 DEF Close
<1>8. ASSUME NEW d \in Shutdowns, shutdown(d) \/ ShutdownContinues(d)
      PROVE  PendingWillSettle'
  <2>1. Pending \in SUBSET Queries /\ closing[d] \in SUBSET Queries
    BY <1>0 DEF TypeOK
  <2> QED
    BY <1>4, <1>6, <1>7, <1>8, <2>1 DEF shutdown, ShutdownContinues, Closes
<1>9. ASSUME NEW q \in Queries, cancelQuery(q) PROVE PendingWillSettle'
  BY <1>4, <1>5, <1>9 DEF cancelQuery
<1>10. CASE initialize \/ UNCHANGED vars
  BY <1>4, <1>10 DEF initialize, vars
<1> QED
  BY <1>1, <1>2, <1>3, <1>8, <1>9, <1>10 DEF Next, Execute, executeAsync

\* No query is PENDING without a call to end that: the status map never names one
\* whose callbacks have run. PendingOnlyWhileExecuting needs this.
THEOREM PendingIsNotForgotten == Spec => []PendingWillSettle
<1>1. Init => PendingWillSettle
  BY DEF Init, PendingWillSettle, Pending
<1>2. IInv /\ PendingWillSettle /\ [Next]_vars => PendingWillSettle'
  BY PendingStep
<1> QED
  BY <1>1, <1>2, Inductive, PTL DEF Spec
=============================================================================
