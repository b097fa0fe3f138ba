---------------------------- MODULE CircuitBreaker ----------------------------
(***************************************************************************)
(* pkg/util/circuitbreaker, as the resilience wrapper of                   *)
(* pkg/resilience/circuitbreaker.go uses it: every request of a proxy asks *)
(* for permission, runs, and reports its result with the stateID it got.   *)
(* Requests run concurrently; AcquirePermission and RecordResult each run  *)
(* under cb.lock and are one step.  SetState is the administrative call of *)
(* the package's API.                                                      *)
(***************************************************************************)
EXTENDS CallWindow, Sequences

CONSTANTS
  Callers,                    \* goroutines that execute requests
  FailureRateThreshold, SlowCallRateThreshold,
  SlidingWindowType,          \* "Count" or "Time"
  SlidingWindowSize, Permitted, MinimumNumberOfCalls,
  SlowCallDurationThreshold, MaxWaitDurationInHalfOpen, WaitDurationInOpen,
  ForcedStates,               \* the states SetState is called with
  MaxTime,                    \* bound on the clock
  MaxForced,                  \* bound on the calls of SetState
  MaxResults                  \* bound on the results alive in a window

ASSUME CallersFinite == IsFiniteSet(Callers)

ASSUME PolicyAssumption ==
  /\ FailureRateThreshold \in 1 .. 100 /\ SlowCallRateThreshold \in 1 .. 100
  /\ SlidingWindowType \in {"Count", "Time"}
  /\ SlidingWindowSize \in Nat \ {0}
  /\ Permitted \in Nat /\ MinimumNumberOfCalls \in Nat
  /\ SlowCallDurationThreshold \in Nat
  /\ MaxWaitDurationInHalfOpen \in Nat /\ WaitDurationInOpen \in Nat
  /\ MaxTime \in Nat /\ MaxForced \in Nat /\ MaxResults \in Nat

States == {"Disabled", "Closed", "HalfOpen", "Open", "ForceOpen"}

ASSUME ForcedAssumption == ForcedStates \subseteq States

VARIABLES
  now,        \* the clock
  cb,         \* the CircuitBreaker: state, transitTime, stateID, window, halfOpenCalls
  calls,      \* caller -> the permitted call it is executing, or Idle
  forced,     \* how often SetState was called
  recorded    \* history: the results, with their second, of the calls that were
              \* permitted in the current state and that its window covers

vars == <<now, cb, calls, forced, recorded>>

Idle == [id |-> 0, start |-> 0]

-----------------------------------------------------------------------------

ClosedWindow(t) ==
  IF SlidingWindowType = "Count" THEN NewCountBasedWindow(SlidingWindowSize)
  ELSE NewTimeBasedWindow(SlidingWindowSize, t)

NewWindow(state, oldWindow, t) ==
  IF state = "Closed" THEN ClosedWindow(t)
  ELSE IF state = "HalfOpen" THEN NewCountBasedWindow(Permitted) ELSE oldWindow

\* Fault: the stateID survives the transition.
transitTo_SameID(c, state, t) ==
  [c EXCEPT !.state = state, !.transitTime = t, !.window = NewWindow(state, @, t),
            !.halfOpenCalls = IF state = "HalfOpen" THEN 0 ELSE @]

\* Fault: the permissions of the last half open state are not reset.
transitTo_NoReset(c, state, t) ==
  [c EXCEPT !.state = state, !.transitTime = t, !.stateID = @ + 1,
            !.window = NewWindow(state, @, t)]

transitTo(c, state, t) ==
  IF c.state = state THEN c
  ELSE [state |-> state, transitTime |-> t, stateID |-> c.stateID + 1,
        window |-> NewWindow(state, c.window, t),
        halfOpenCalls |-> IF state = "HalfOpen" THEN 0 ELSE c.halfOpenCalls]

\* A breaker that waited long enough in Open is HalfOpen for the next call.
AfterOpenWait(c, t) ==
  IF c.state = "Open" /\ t - c.transitTime >= WaitDurationInOpen
  THEN transitTo(c, "HalfOpen", t) ELSE c

HalfOpenExpired(c, t) ==
  /\ MaxWaitDurationInHalfOpen > 0
  /\ t - c.transitTime > MaxWaitDurationInHalfOpen

\* Fault: one permission too many.
AcquirePermission_OneMore(c, t) ==
  LET h == AfterOpenWait(c, t)
      ok == \/ h.state \in {"Disabled", "Closed"}
            \/ h.state = "HalfOpen" /\ h.halfOpenCalls <= Permitted
  IN [ok |-> ok,
      cb |-> IF ok /\ h.state = "HalfOpen" THEN [h EXCEPT !.halfOpenCalls = @ + 1] ELSE h]

\* What AcquirePermission returns and leaves behind, at instant t.
AcquirePermission(c, t) ==
  LET h == AfterOpenWait(c, t)
  IN IF h.state \in {"Disabled", "Closed"} THEN [ok |-> TRUE, cb |-> h]
     ELSE IF h.state \in {"Open", "ForceOpen"} THEN [ok |-> FALSE, cb |-> h]
     ELSE IF h.halfOpenCalls < Permitted
     THEN [ok |-> TRUE, cb |-> [h EXCEPT !.halfOpenCalls = @ + 1]]
     ELSE [ok |-> FALSE,
           cb |-> IF HalfOpenExpired(h, t) THEN transitTo(h, "Open", t) ELSE h]

MinCalls(c) ==
  IF c.state = "HalfOpen" THEN Min({MinimumNumberOfCalls, Permitted})
  ELSE MinimumNumberOfCalls

\* The state the breaker moves to after a push.
Decide(c, t) ==
  IF c.window.total < MinCalls(c) THEN c
  ELSE IF \/ FailureRate(c.window) >= FailureRateThreshold
          \/ SlowRate(c.window) >= SlowCallRateThreshold
  THEN transitTo(c, "Open", t)
  ELSE IF c.state = "HalfOpen" THEN transitTo(c, "Closed", t) ELSE c

CallResult(hasErr, d) ==
  IF hasErr THEN "Failure"
  ELSE IF d >= SlowCallDurationThreshold THEN "Slow" ELSE "Success"

RecordResult(c, id, result, t) ==
  IF id # c.stateID THEN c
  ELSE Decide([c EXCEPT !.window = Push(@, result, t)], t)

-----------------------------------------------------------------------------

Init ==
  /\ now = 0
  /\ cb = transitTo([state |-> "Disabled", transitTime |-> 0, stateID |-> 0,
                     window |-> NewCountBasedWindow(0), halfOpenCalls |-> 0],
                    "Closed", 0)
  /\ calls = [c \in Callers |-> Idle]
  /\ forced = 0
  /\ recorded = <<>>

\* The part of a history, oldest first, that the window covers at instant t.
Covered(history, t) ==
  LET size == cb.window.size
      past == IF cb.window.kind = "Time"
              THEN Cardinality({i \in DOMAIN history : history[i].sec <= t \div Second - size})
              ELSE IF Len(history) > size THEN Len(history) - size ELSE 0
  IN SubSeq(history, past + 1, Len(history))

\* History follows the breaker: it starts afresh with every transition.
Remember(history) ==
  recorded' = IF cb'.stateID # cb.stateID THEN <<>> ELSE history

\* Bound: a closed breaker admits a call only while few results are alive.
RoomForResult ==
  cb.state \in {"Closed", "Disabled"} /\ cb.window.kind = "Time" =>
     Len(Covered(recorded, now)) + Cardinality({c \in Callers : calls[c] # Idle}) < MaxResults

\* Wrap / Execute: permission granted, the handler starts.
Call(c) ==
  LET a == AcquirePermission(cb, now)
  IN /\ calls[c] = Idle
     /\ RoomForResult
     /\ a.ok
     /\ cb' = a.cb
     /\ calls' = [calls EXCEPT ![c] = [id |-> a.cb.stateID, start |-> now]]
     /\ Remember(recorded)
     /\ UNCHANGED <<now, forced>>

\* Wrap / Execute: permission refused, the request is short circuited.
ShortCircuit(c) ==
  LET a == AcquirePermission(cb, now)
  IN /\ calls[c] = Idle
     /\ ~ a.ok
     /\ cb' = a.cb
     /\ Remember(recorded)
     /\ UNCHANGED <<now, calls, forced>>

\* The handler returned, or panicked (hasErr): its result is recorded.
Return(c, hasErr) ==
  LET result == CallResult(hasErr, now - calls[c].start)
      entry == [res |-> result, sec |-> now \div Second]
  IN /\ calls[c] # Idle
     /\ cb' = RecordResult(cb, calls[c].id, result, now)
     /\ calls' = [calls EXCEPT ![c] = Idle]
     /\ Remember(IF calls[c].id = cb.stateID
                 THEN Covered(Append(recorded, entry), now) ELSE recorded)
     /\ UNCHANGED <<now, forced>>

SetState(s) ==
  /\ forced < MaxForced /\ forced' = forced + 1
  /\ cb' = transitTo(cb, s, now)
  /\ Remember(recorded)
  /\ UNCHANGED <<now, calls>>

Tick ==
  /\ now < MaxTime
  /\ now' = now + 1
  /\ UNCHANGED <<cb, calls, forced, recorded>>

Next ==
  \/ \E c \in Callers : Call(c)
  \/ \E c \in Callers : ShortCircuit(c)
  \/ \E c \in Callers, hasErr \in BOOLEAN : Return(c, hasErr)
  \/ \E s \in ForcedStates : SetState(s)
  \/ Tick

Spec == Init /\ [][Next]_vars

\* Requests keep arriving, and a permitted handler returns or panics.
Fairness ==
  /\ WF_vars(\E c \in Callers : Call(c))
  /\ \A c \in Callers : WF_vars(\E hasErr \in BOOLEAN : Return(c, hasErr))

FairSpec == Spec /\ Fairness

-----------------------------------------------------------------------------
(* Properties *)

\* Type invariant: the breaker, the calls in flight and the history hold values
\* of their types; a call carries a stateID the breaker has already issued.
TypeOK ==
  /\ now \in Nat /\ forced \in Nat
  /\ cb.state \in States
  /\ cb.transitTime \in 0 .. now
  /\ cb.stateID \in Nat \ {0}
  /\ cb.halfOpenCalls \in 0 .. Permitted
  /\ cb.window.kind \in {"Count", "Time"}
  /\ calls \in [Callers -> [id : 0 .. cb.stateID, start : 0 .. now]]
  /\ recorded \in Seq([res : Results, sec : Int])

InFlight == {c \in Callers : calls[c] # Idle /\ calls[c].id = cb.stateID}

Count(result) == Cardinality({i \in DOMAIN recorded : recorded[i].res = result})

\* The running totals that Push and evict adjust by one bucket at a time are
\* exactly the counts over the results that the window is documented to cover,
\* the last SlidingWindowSize calls, the calls of the last SlidingWindowSize
\* seconds, or all calls of the half open state, and only over results of calls
\* permitted in the current state, however late the others return.
WindowExact ==
  cb.state \in {"Closed", "HalfOpen"} =>
    /\ cb.window.total = Len(recorded)
    /\ cb.window.slow = Count("Slow")
    /\ cb.window.failure = Count("Failure")

\* Half open, every permission is still in flight or was recorded: none is lost
\* to a late or discarded result, none is given beyond the permitted number,
\* and the window is never too small to keep them all.
HalfOpenBudget ==
  cb.state = "HalfOpen" =>
    /\ cb.halfOpenCalls <= Permitted
    /\ Cardinality(InFlight) + Len(recorded) = cb.halfOpenCalls

\* RecordResult relies on it: a call that passes the stateID check was permitted
\* in Closed or HalfOpen, so that the breaker is in one of them.
CallsOfPermittingState == InFlight # {} => cb.state \in {"Closed", "HalfOpen"}

\* As long as requests arrive and return, a half open breaker decides.
HalfOpenDecides == cb.state = "HalfOpen" ~> cb.state # "HalfOpen"

\* The reference documentation of maxWaitDurationInHalfOpenState: no request is
\* answered by a breaker that stays half open longer than that.
HalfOpenTimeLimit ==
  [][ (/\ MaxWaitDurationInHalfOpen > 0
       /\ cb.state = "HalfOpen" /\ cb'.state = "HalfOpen" /\ cb' # cb)
      => now - cb.transitTime <= MaxWaitDurationInHalfOpen ]_vars

=============================================================================
