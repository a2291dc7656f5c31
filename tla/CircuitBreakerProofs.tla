------------------------ MODULE CircuitBreakerProofs ------------------------
(****************************************************************************)
(* Proofs about CircuitBreaker for any number of calls, any thresholds and  *)
(* any timeouts.                                                            *)
(****************************************************************************)
EXTENDS CircuitBreaker, FiniteSetTheorems, TLAPS

(* The records are those of distinct failed calls, at the time they failed. *)
Records ==
  /\ IsFiniteSet(failures)
  /\ \A f \in failures : call[f.call] = "failed" /\ endedAt[f.call] = f.at

(* Once a circuit lets calls through, its last opening is timed out or      *)
(* overridden.                                                              *)
Ripe == state # "OPEN" => overridden \/ now >= openedAt + Timeout

IInv ==
  /\ TypeOK
  /\ Records
  /\ ClosedBelowThreshold
  /\ NoMissedClose
  /\ BarFromOpening
  /\ Ripe

-----------------------------------------------------------------------------
\* cleanFailures only ever drops records.
LEMMA CleanFacts ==
  ASSUME NEW fs, IsFiniteSet(fs)
  PROVE  /\ cleanFailures(fs) \subseteq fs
         /\ IsFiniteSet(cleanFailures(fs))
         /\ Cardinality(cleanFailures(fs)) <= Cardinality(fs)
<1>1. cleanFailures(fs) \subseteq fs
  BY DEF cleanFailures
<1> QED
  BY <1>1, FS_Subset

\* The fields of the breaker keep their types.
LEMMA TypeStep == TypeOK /\ [Next]_vars => TypeOK'
<1> SUFFICES ASSUME TypeOK, [Next]_vars PROVE TypeOK'
  OBVIOUS
<1> USE BreakerAssumption DEF TypeOK
<1>1. ASSUME NEW c \in Calls, Reject(c) \/ Admit(c) PROVE TypeOK'
  BY <1>1 DEF Reject, Admit, history
<1>a. \A fs \in SUBSET [call : Calls, at : 0..MaxTime] :
        cleanFailures(fs) \in SUBSET [call : Calls, at : 0..MaxTime]
  BY DEF cleanFailures
<1>b. ASSUME Trip
      PROVE  /\ state' \in {"CLOSED", "OPEN", "HALF_OPEN"}
             /\ nextAttemptTime' \in 0..(MaxTime + Timeout)
             /\ openedAt' \in 0..MaxTime
             /\ overridden' \in BOOLEAN
  <2>1. now + Timeout \in 0..(MaxTime + Timeout)
    OBVIOUS
  <2> QED
    BY <2>1, <1>b DEF Trip
<1>c. ASSUME ResetCounters
      PROVE  /\ failures' \in SUBSET [call : Calls, at : 0..MaxTime]
             /\ successes' \in Nat
             /\ nextAttemptTime' \in 0..(MaxTime + Timeout)
             /\ overridden' \in BOOLEAN
  <2>1. 0 \in 0..(MaxTime + Timeout)
    OBVIOUS
  <2> QED
    BY <2>1, <1>c DEF ResetCounters
<1>2. ASSUME NEW c \in Calls, Succeed(c) PROVE TypeOK'
  <2>1. /\ now' \in 0..MaxTime
        /\ call' \in [Calls -> {"new", "running", "ok", "failed", "rejected"}]
        /\ endedAt' \in [Calls -> 0..MaxTime]
    BY <1>2 DEF Succeed
  <2>2. recovered' \in Nat
    BY <1>2 DEF Succeed, onSuccess
  <2>3. CASE ResetCounters /\ state' = "CLOSED" /\ UNCHANGED openedAt
    BY <2>1, <2>2, <2>3, <1>c
  <2>4. CASE ~(ResetCounters /\ state' = "CLOSED" /\ UNCHANGED openedAt)
    <3>1. UNCHANGED <<state, nextAttemptTime, openedAt, overridden>>
      BY <1>2, <2>4 DEF Succeed, onSuccess
    <3>2. failures' \in {failures, cleanFailures(failures)}
      BY <1>2, <2>4 DEF Succeed, onSuccess
    <3>3. successes' \in {successes, successes + 1}
      BY <1>2, <2>4 DEF Succeed, onSuccess
    <3>4. successes' \in Nat
      BY <3>3
    <3> QED
      BY <2>1, <2>2, <3>1, <3>2, <3>4, <1>a
  <2> QED
    BY <2>3, <2>4
<1>3. ASSUME NEW c \in Calls, Fail(c) PROVE TypeOK'
  <2> DEFINE recorded == failures \cup {[call |-> c, at |-> now]}
  <2>1. /\ now' \in 0..MaxTime
        /\ call' \in [Calls -> {"new", "running", "ok", "failed", "rejected"}]
        /\ endedAt' \in [Calls -> 0..MaxTime]
        /\ successes' \in Nat /\ recovered' \in Nat
    BY <1>3 DEF Fail, onFailure
  <2>2. recorded \in SUBSET [call : Calls, at : 0..MaxTime]
    OBVIOUS
  <2>3. failures' \in {recorded, cleanFailures(recorded)}
    BY <1>3 DEF Fail, onFailure
  <2>4. failures' \in SUBSET [call : Calls, at : 0..MaxTime]
    BY <2>2, <2>3, <1>a
  <2>5. Trip \/ UNCHANGED <<state, nextAttemptTime, openedAt, overridden>>
    BY <1>3 DEF Fail, onFailure
  <2> QED
    BY <2>1, <2>4, <2>5, <1>b
<1>4. ASSUME forceOpen \/ forceClose \/ reset \/ getFailureCount PROVE TypeOK'
  <2>1. CASE forceOpen
    BY <2>1, <1>b DEF forceOpen
  <2>2. CASE forceClose
    BY <2>2, <1>c DEF forceClose
  <2>3. CASE reset
    BY <2>3, <1>c DEF reset
  <2>4. CASE getFailureCount
    BY <2>4, <1>a DEF getFailureCount, history
  <2> QED
    BY <1>4, <2>1, <2>2, <2>3, <2>4
<1>5. CASE Tick
  BY <1>5 DEF Tick, history
<1>6. CASE UNCHANGED vars
  BY <1>6 DEF vars
<1> QED
  BY <1>1, <1>2, <1>3, <1>4, <1>5, <1>6 DEF Next

\* A step records the failure of a call that failed, at the time it failed.
LEMMA RecordsStep == IInv /\ [Next]_vars => Records'
<1> SUFFICES ASSUME IInv, [Next]_vars PROVE Records'
  OBVIOUS
<1>0. TypeOK /\ Records
  BY DEF IInv
<1> USE <1>0 DEF TypeOK, Records
<1>a. IsFiniteSet({})
  BY FS_EmptySet
<1>1. ASSUME NEW c \in Calls, Reject(c) \/ Admit(c) PROVE Records'
  BY <1>1 DEF Reject, Admit, history
<1>2. ASSUME NEW c \in Calls, Succeed(c) PROVE Records'
  <2>1. failures' \in {{}, failures, cleanFailures(failures)}
    BY <1>2 DEF Succeed, onSuccess, ResetCounters
  <2>2. IsFiniteSet(failures') /\ failures' \subseteq failures
    BY <2>1, <1>a, CleanFacts
  <2> QED
    BY <1>2, <2>2 DEF Succeed
<1>3. ASSUME NEW c \in Calls, Fail(c) PROVE Records'
  <2> DEFINE recorded == failures \cup {[call |-> c, at |-> now]}
  <2>1. IsFiniteSet(recorded)
    BY FS_AddElement
  <2>2. failures' \in {recorded, cleanFailures(recorded)}
    BY <1>3 DEF Fail, onFailure
  <2>3. IsFiniteSet(failures') /\ failures' \subseteq recorded
    BY <2>1, <2>2, CleanFacts
  <2> QED
    BY <1>3, <2>3 DEF Fail
<1>4. ASSUME forceOpen \/ forceClose \/ reset \/ getFailureCount PROVE Records'
  <2>1. failures' \in {{}, failures, cleanFailures(failures)}
    BY <1>4 DEF forceOpen, forceClose, reset, getFailureCount, ResetCounters
  <2>2. IsFiniteSet(failures') /\ failures' \subseteq failures
    BY <2>1, <1>a, CleanFacts
  <2> QED
    BY <1>4, <2>2 DEF forceOpen, forceClose, reset, getFailureCount, history
<1>5. CASE Tick
  BY <1>5 DEF Tick, history
<1>6. CASE UNCHANGED vars
  BY <1>6 DEF vars
<1> QED
  BY <1>1, <1>2, <1>3, <1>4, <1>5, <1>6 DEF Next

\* The circuit closes with no record, and trips with one too many.
LEMMA ClosedStep == IInv /\ [Next]_vars => ClosedBelowThreshold'
<1> SUFFICES ASSUME IInv, [Next]_vars PROVE ClosedBelowThreshold'
  OBVIOUS
<1>0. TypeOK /\ Records /\ ClosedBelowThreshold
  BY DEF IInv
<1> USE <1>0 DEF ClosedBelowThreshold
<1>a. /\ Cardinality({}) = 0 /\ 0 < FailureThreshold /\ FailureThreshold \in Nat
      /\ Cardinality(failures) \in Nat
      /\ Cardinality(cleanFailures(failures)) \in Nat
      /\ Cardinality(cleanFailures(failures)) <= Cardinality(failures)
  BY BreakerAssumption, CleanFacts, FS_EmptySet, FS_CardinalityType DEF Records
<1>1. ASSUME NEW c \in Calls, Reject(c) \/ Admit(c) PROVE ClosedBelowThreshold'
  BY <1>1 DEF Reject, Admit
<1>2. ASSUME NEW c \in Calls, Succeed(c) PROVE ClosedBelowThreshold'
  BY <1>2, <1>a DEF Succeed, onSuccess, ResetCounters
<1>3. ASSUME NEW c \in Calls, Fail(c) PROVE ClosedBelowThreshold'
  BY <1>3 DEF Fail, onFailure, Trip
<1>4. ASSUME forceOpen \/ forceClose \/ reset \/ getFailureCount
      PROVE  ClosedBelowThreshold'
  BY <1>4, <1>a DEF forceOpen, forceClose, reset, getFailureCount, Trip, ResetCounters
<1>5. CASE Tick
  BY <1>5 DEF Tick
<1>6. CASE UNCHANGED vars
  BY <1>6 DEF vars
<1> QED
  BY <1>1, <1>2, <1>3, <1>4, <1>5, <1>6 DEF Next

\* The success count, the bar of an open circuit and its timeout.
LEMMA CountersStep ==
  IInv /\ [Next]_vars => NoMissedClose' /\ BarFromOpening' /\ Ripe'
<1> SUFFICES ASSUME IInv, [Next]_vars
             PROVE  NoMissedClose' /\ BarFromOpening' /\ Ripe'
  OBVIOUS
<1> DEFINE Goal == NoMissedClose' /\ BarFromOpening' /\ Ripe'
<1>0. TypeOK /\ NoMissedClose /\ BarFromOpening /\ Ripe
  BY DEF IInv
<1> USE <1>0, BreakerAssumption DEF TypeOK, NoMissedClose, BarFromOpening, Ripe
<1>1. ASSUME NEW c \in Calls, Reject(c) PROVE Goal
  BY <1>1 DEF Reject, history
<1>2. ASSUME NEW c \in Calls, Admit(c) PROVE Goal
  BY <1>2 DEF Admit
<1>3. ASSUME NEW c \in Calls, Succeed(c) PROVE Goal
  BY <1>3 DEF Succeed, onSuccess, ResetCounters
<1>4. ASSUME NEW c \in Calls, Fail(c) PROVE Goal
  BY <1>4 DEF Fail, onFailure, Trip
<1>5. ASSUME forceOpen \/ forceClose \/ reset \/ getFailureCount PROVE Goal
  BY <1>5 DEF forceOpen, forceClose, reset, getFailureCount, Trip, ResetCounters,
              history
<1>6. CASE Tick
  BY <1>6 DEF Tick, history
<1>7. CASE UNCHANGED vars
  BY <1>7 DEF vars
<1> QED
  BY <1>1, <1>2, <1>3, <1>4, <1>5, <1>6, <1>7 DEF Next

-----------------------------------------------------------------------------
(* The inductive invariant.                                                 *)
THEOREM Inductive == Spec => []IInv
<1>1. Init => IInv
  <2> SUFFICES ASSUME Init PROVE IInv
    OBVIOUS
  <2>1. IsFiniteSet({}) /\ Cardinality({}) = 0
    BY FS_EmptySet
  <2> QED
    BY <2>1, BreakerAssumption DEF Init, IInv, TypeOK, Records, ClosedBelowThreshold,
       NoMissedClose, BarFromOpening, Ripe
<1>2. IInv /\ [Next]_vars => IInv'
  BY TypeStep, RecordsStep, ClosedStep, CountersStep DEF IInv
<1> QED
  BY <1>1, <1>2, PTL DEF Spec

(* The breaker's variables keep their types.                                *)
THEOREM TypeCorrect == Spec => []TypeOK
<1>1. IInv => TypeOK
  BY DEF IInv
<1> QED
  BY Inductive, <1>1, PTL

(* A closed circuit has fewer failure records than would trip it.           *)
THEOREM ClosedHasRoom == Spec => []ClosedBelowThreshold
<1>1. IInv => ClosedBelowThreshold
  BY DEF IInv
<1> QED
  BY Inductive, <1>1, PTL

(* No success that completes a recovery is lost.                            *)
THEOREM NoLostClose == Spec => []NoMissedClose
<1>1. IInv => NoMissedClose
  BY DEF IInv
<1> QED
  BY Inductive, <1>1, PTL

(* The bar of an open circuit is that of its last opening.                  *)
THEOREM BarIsFresh == Spec => []BarFromOpening
<1>1. IInv => BarFromOpening
  BY DEF IInv
<1> QED
  BY Inductive, <1>1, PTL

(* The upstream rests for the timeout after every opening.                  *)
THEOREM UpstreamRests == Spec => CoolDown
<1>1. IInv /\ [Next]_vars =>
        [\A c \in Calls : call[c] = "new" /\ call'[c] = "running" =>
           overridden \/ now >= openedAt + Timeout]_vars
  <2> SUFFICES ASSUME IInv, Next, NEW d \in Calls,
                      call[d] = "new", call'[d] = "running"
               PROVE  overridden \/ now >= openedAt + Timeout
    OBVIOUS
  <2> USE DEF IInv, TypeOK
  <2>1. ASSUME NEW c \in Calls, Admit(c)
        PROVE  overridden \/ now >= openedAt + Timeout
    BY <2>1 DEF Admit, Ripe, BarFromOpening
  <2>2. ASSUME NEW c \in Calls, Reject(c) \/ Succeed(c) \/ Fail(c) PROVE FALSE
    BY <2>2 DEF Reject, Succeed, Fail
  <2>3. ASSUME forceOpen \/ forceClose \/ reset \/ getFailureCount \/ Tick PROVE FALSE
    BY <2>3 DEF forceOpen, forceClose, reset, getFailureCount, Tick
  <2> QED
    BY <2>1, <2>2, <2>3 DEF Next
<1> QED
  BY Inductive, <1>1, PTL DEF Spec, CoolDown

(* Records are no more than the calls that failed within the window.        *)
LEMMA RecordsAreCalls ==
  ASSUME IInv, NEW c \in Calls, Fail(c)
  PROVE  LET recent == cleanFailures(failures \cup {[call |-> c, at |-> now]})
         IN  Cardinality(recent) <= Cardinality(RecentlyFailed')
<1> DEFINE recorded == failures \cup {[call |-> c, at |-> now]}
           recent == cleanFailures(recorded)
           who == [f \in recent |-> f.call]
<1> USE DEF IInv, TypeOK
<1>1. /\ call' = [call EXCEPT ![c] = "failed"]
      /\ endedAt' = [endedAt EXCEPT ![c] = now]
      /\ now' = now /\ call[c] = "running"
  BY DEF Fail
<1>2. \A f \in recorded : /\ f \in [call : Calls, at : 0..MaxTime]
                          /\ call'[f.call] = "failed" /\ endedAt'[f.call] = f.at
  BY <1>1 DEF Records
<1>3. \A f \in recent : f \in recorded /\ f.at + WindowSize >= now
  BY DEF cleanFailures
<1> HIDE DEF recent, recorded
<1>4. who \in [recent -> RecentlyFailed']
  BY <1>1, <1>2, <1>3 DEF RecentlyFailed
<1>5. \A f, g \in recent : who[f] = who[g] => f = g
  BY <1>2, <1>3
<1>6. who \in Injection(recent, RecentlyFailed')
  BY <1>4, <1>5 DEF Injection, IsInjective
<1>7. IsFiniteSet(RecentlyFailed')
  BY BreakerAssumption, FS_Subset DEF RecentlyFailed
<1>8. Cardinality(recent) <= Cardinality(RecentlyFailed')
  BY <1>6, <1>7, FS_Injection
<1> QED
  BY <1>8 DEF recent, recorded

(* A closed circuit trips on enough recent failures only.                   *)
THEOREM TripsAreEarned == Spec => TripIsEarned
<1>1. IInv =>
        [\A c \in Calls : Fail(c) /\ state = "CLOSED" /\ state' = "OPEN" =>
           Cardinality(RecentlyFailed') >= FailureThreshold]_vars
  <2> SUFFICES ASSUME IInv, NEW c \in Calls, Fail(c), state = "CLOSED", state' = "OPEN"
               PROVE  Cardinality(RecentlyFailed') >= FailureThreshold
    OBVIOUS
  <2> DEFINE recorded == failures \cup {[call |-> c, at |-> now]}
             recent == cleanFailures(recorded)
  <2>1. Cardinality(recent) >= FailureThreshold
    BY DEF Fail, onFailure
  <2>2. Cardinality(recent) <= Cardinality(RecentlyFailed')
    BY RecordsAreCalls
  <2>3. IsFiniteSet(recorded) /\ IsFiniteSet(recent) /\ IsFiniteSet(RecentlyFailed')
    <3>1. IsFiniteSet(recorded)
      BY FS_AddElement DEF IInv, Records
    <3>2. IsFiniteSet(RecentlyFailed')
      BY BreakerAssumption, FS_Subset DEF RecentlyFailed
    <3> QED
      BY <3>1, <3>2, CleanFacts
  <2>4. Cardinality(recent) \in Nat /\ Cardinality(RecentlyFailed') \in Nat
    BY <2>3, FS_CardinalityType
  <2> QED
    BY <2>1, <2>2, <2>4, BreakerAssumption
<1> QED
  BY Inductive, <1>1, PTL DEF Spec, TripIsEarned
=============================================================================
