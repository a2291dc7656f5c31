--------------------------- MODULE CircuitBreaker ---------------------------
(****************************************************************************)
(* The circuit breaker of core/network/external/circuit_breaker.ts, with    *)
(* calls that overlap: execute admits a call in one step and learns its     *)
(* outcome in a later one, in whatever state the breaker is by then.        *)
(****************************************************************************)
EXTENDS Naturals, FiniteSets

CONSTANTS
  Calls,               \* invocations of execute()
  FailureThreshold,    \* config.failureThreshold
  SuccessThreshold,    \* config.successThreshold
  Timeout,             \* config.timeout, in ticks
  WindowSize,          \* config.windowSize, in ticks
  MaxTime              \* bound: the clock stops there

ASSUME BreakerAssumption ==
  /\ IsFiniteSet(Calls)
  /\ FailureThreshold \in Nat \ {0} /\ SuccessThreshold \in Nat \ {0}
  /\ Timeout \in Nat /\ WindowSize \in Nat /\ MaxTime \in Nat

VARIABLES
  state,               \* the circuit's state
  failures,            \* failure records: who failed and when
  successes,           \* successes counted in HALF_OPEN
  nextAttemptTime,     \* before it an OPEN circuit rejects
  now,                 \* Date.now()
  call,                \* call[c]: what became of invocation c
  \* History, read by the properties only:
  endedAt,             \* endedAt[c]: when c's outcome was known
  openedAt,            \* when the circuit last opened
  overridden,          \* reset() ran since then; closing the circuit runs it
  recovered            \* successes since HALF_OPEN was last entered

history == <<endedAt, openedAt, overridden, recovered>>
vars == <<state, failures, successes, nextAttemptTime, now, call,
          endedAt, openedAt, overridden, recovered>>

Init ==
  /\ state = "CLOSED"
  /\ failures = {}
  /\ successes = 0
  /\ nextAttemptTime = 0
  /\ now = 0
  /\ call = [c \in Calls |-> "new"]
  /\ endedAt = [c \in Calls |-> 0]
  /\ openedAt = 0
  /\ overridden = TRUE
  /\ recovered = 0

-----------------------------------------------------------------------------
\* Mutant: nothing is ever dropped.
cleanNothing(fs) == fs

\* The records of fs the window still covers.
cleanFailures(fs) == {f \in fs : f.at + WindowSize >= now}

\* transitionTo(OPEN) followed by the new nextAttemptTime.
Trip ==
  /\ state' = "OPEN"
  /\ nextAttemptTime' = now + Timeout
  /\ openedAt' = now
  /\ overridden' = FALSE

\* The fields reset() clears; the state is not among them.
ResetCounters ==
  /\ failures' = {}
  /\ successes' = 0
  /\ nextAttemptTime' = 0
  /\ overridden' = TRUE

\* execute rejects: the circuit is open and its time has not come.
Reject(c) ==
  /\ call[c] = "new"
  /\ state = "OPEN" /\ now < nextAttemptTime
  /\ call' = [call EXCEPT ![c] = "rejected"]
  /\ UNCHANGED <<state, failures, successes, nextAttemptTime, now, history>>

\* Mutant: an open circuit does not look at the time.
AdmitAtAnyTime(c) ==
  /\ call[c] = "new"
  /\ state' = IF state = "OPEN" THEN "HALF_OPEN" ELSE state
  /\ recovered' = IF state = "OPEN" THEN 0 ELSE recovered
  /\ call' = [call EXCEPT ![c] = "running"]
  /\ UNCHANGED <<failures, successes, nextAttemptTime, now, endedAt, openedAt,
                 overridden>>

\* execute starts fn, an open circuit whose time has come going half-open.
Admit(c) ==
  /\ call[c] = "new"
  /\ \/ /\ state # "OPEN"
        /\ UNCHANGED <<state, recovered>>
     \/ /\ state = "OPEN" /\ now >= nextAttemptTime
        /\ state' = "HALF_OPEN"
        /\ recovered' = 0
  /\ call' = [call EXCEPT ![c] = "running"]
  /\ UNCHANGED <<failures, successes, nextAttemptTime, now, endedAt, openedAt,
                 overridden>>

\* Mutant: > for >= at the success threshold.
onSuccessOneLate ==
  /\ successes' = IF state = "HALF_OPEN" THEN successes + 1 ELSE successes
  /\ recovered' = IF state = "HALF_OPEN" THEN recovered + 1 ELSE recovered
  /\ state' = IF successes' > SuccessThreshold THEN "CLOSED" ELSE state
  /\ failures' = IF state = "CLOSED" THEN cleanFailures(failures) ELSE failures
  /\ UNCHANGED <<nextAttemptTime, openedAt, overridden>>

\* onSuccess.
onSuccess ==
  \/ /\ state = "HALF_OPEN"
     /\ recovered' = recovered + 1
     /\ \/ /\ successes + 1 >= SuccessThreshold
           /\ state' = "CLOSED"
           /\ ResetCounters
           /\ UNCHANGED openedAt
        \/ /\ successes + 1 < SuccessThreshold
           /\ successes' = successes + 1
           /\ UNCHANGED <<state, failures, nextAttemptTime, openedAt, overridden>>
  \/ /\ state = "CLOSED"
     /\ failures' = cleanFailures(failures)
     /\ UNCHANGED <<state, successes, nextAttemptTime, openedAt, overridden,
                    recovered>>
  \/ /\ state = "OPEN"
     /\ UNCHANGED <<state, failures, successes, nextAttemptTime, openedAt,
                    overridden, recovered>>

\* Mutant: > for >= at the failure threshold.
onFailureOneLate(c) ==
  LET recorded == failures \cup {[call |-> c, at |-> now]} IN
  /\ failures' = recorded
  /\ UNCHANGED <<successes, recovered>>
  /\ IF state = "HALF_OPEN" \/ Cardinality(recorded) > FailureThreshold
     THEN Trip
     ELSE UNCHANGED <<state, nextAttemptTime, openedAt, overridden>>

\* Mutant: a late failure of an open circuit moves its bar.
onFailureExtending(c) ==
  /\ failures' = failures \cup {[call |-> c, at |-> now]}
  /\ nextAttemptTime' = now + Timeout
  /\ IF state = "OPEN"
     THEN UNCHANGED <<state, openedAt, overridden>>
     ELSE state' = "OPEN" /\ openedAt' = now /\ overridden' = FALSE
  /\ UNCHANGED <<successes, recovered>>

\* onFailure, for the call c that failed.
onFailure(c) ==
  LET recorded == failures \cup {[call |-> c, at |-> now]} IN
  /\ UNCHANGED <<successes, recovered>>
  /\ \/ /\ state = "HALF_OPEN"
        /\ failures' = recorded
        /\ Trip
     \/ /\ state = "CLOSED"
        /\ failures' = cleanFailures(recorded)
        /\ \/ /\ Cardinality(cleanFailures(recorded)) >= FailureThreshold
              /\ Trip
           \/ /\ Cardinality(cleanFailures(recorded)) < FailureThreshold
              /\ UNCHANGED <<state, nextAttemptTime, openedAt, overridden>>
     \/ /\ state = "OPEN"
        /\ failures' = recorded
        /\ UNCHANGED <<state, nextAttemptTime, openedAt, overridden>>

\* A running call ends well; the await of fn() resumes in onSuccess.
Succeed(c) ==
  /\ call[c] = "running"
  /\ call' = [call EXCEPT ![c] = "ok"]
  /\ endedAt' = [endedAt EXCEPT ![c] = now]
  /\ onSuccess
  /\ UNCHANGED now

\* A running call throws; the await of fn() resumes in onFailure.
Fail(c) ==
  /\ call[c] = "running"
  /\ call' = [call EXCEPT ![c] = "failed"]
  /\ endedAt' = [endedAt EXCEPT ![c] = now]
  /\ onFailure(c)
  /\ UNCHANGED now

\* The operator's controls.
forceOpen ==
  /\ Trip
  /\ UNCHANGED <<failures, successes, now, call, endedAt, recovered>>

forceClose ==
  /\ state' = "CLOSED"
  /\ ResetCounters
  /\ UNCHANGED <<now, call, endedAt, openedAt, recovered>>

reset ==
  /\ ResetCounters
  /\ UNCHANGED <<state, now, call, endedAt, openedAt, recovered>>

\* getFailureCount and getStats clean the records as they count them.
getFailureCount ==
  /\ failures' = cleanFailures(failures)
  /\ UNCHANGED <<state, successes, nextAttemptTime, now, call, history>>

Tick ==
  /\ now < MaxTime
  /\ now' = now + 1
  /\ UNCHANGED <<state, failures, successes, nextAttemptTime, call, history>>

Next ==
  \/ \E c \in Calls : Reject(c) \/ Admit(c) \/ Succeed(c) \/ Fail(c)
  \/ forceOpen \/ forceClose \/ reset \/ getFailureCount
  \/ Tick

Spec == Init /\ [][Next]_vars

\* The breaker as UpstreamClient uses it: nobody touches the controls.
UnattendedNext ==
  \/ \E c \in Calls : Reject(c) \/ Admit(c) \/ Succeed(c) \/ Fail(c)
  \/ Tick

UnattendedSpec == Init /\ [][UnattendedNext]_vars

-----------------------------------------------------------------------------
(* Properties.                                                              *)

\* Every variable has its type; a failure record is that of a failed call.
TypeOK ==
  /\ state \in {"CLOSED", "OPEN", "HALF_OPEN"}
  /\ failures \in SUBSET [call : Calls, at : 0..MaxTime]
  /\ successes \in Nat
  /\ nextAttemptTime \in 0..(MaxTime + Timeout)
  /\ now \in 0..MaxTime
  /\ call \in [Calls -> {"new", "running", "ok", "failed", "rejected"}]
  /\ endedAt \in [Calls -> 0..MaxTime]
  /\ openedAt \in 0..MaxTime
  /\ overridden \in BOOLEAN
  /\ recovered \in Nat

\* Failures recorded while the circuit was open or half-open never linger into
\* a closed circuit: closed, it always has fewer records than would trip it.
ClosedBelowThreshold ==
  state = "CLOSED" => Cardinality(failures) < FailureThreshold

\* The success count never reaches its threshold without closing the circuit,
\* whatever operator calls come between.
NoMissedClose == successes < SuccessThreshold

\* An open circuit's bar is the time of the opening plus the timeout: neither
\* late failures of earlier calls nor earlier openings move it.
BarFromOpening ==
  state = "OPEN" /\ ~overridden => nextAttemptTime = openedAt + Timeout

\* From an opening to the end of its timeout the upstream gets no new call,
\* unless an operator closes or resets the circuit in between.
CoolDown ==
  [][\A c \in Calls : call[c] = "new" /\ call'[c] = "running" =>
       overridden \/ now >= openedAt + Timeout]_vars

\* Calls whose failure the window covers at the present time.
RecentlyFailed == {c \in Calls : call[c] = "failed" /\ endedAt[c] + WindowSize >= now}

\* A closed circuit trips by itself only on FailureThreshold calls that did
\* fail within the window.
TripIsEarned ==
  [][\A c \in Calls : Fail(c) /\ state = "CLOSED" /\ state' = "OPEN" =>
       Cardinality(RecentlyFailed') >= FailureThreshold]_vars

\* What "Success threshold to close circuit from half-open" says: a half-open
\* circuit closes by itself after SuccessThreshold successes. False: successes
\* of an earlier, failed recovery still count.
RecoveryIsEarned ==
  [][\A c \in Calls : Succeed(c) /\ state = "HALF_OPEN" /\ state' = "CLOSED" =>
       recovered' >= SuccessThreshold]_vars
=============================================================================
