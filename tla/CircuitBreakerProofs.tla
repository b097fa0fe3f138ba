------------------------- MODULE CircuitBreakerProofs -------------------------
(***************************************************************************)
(* For every policy and every number of concurrent callers: the breaker    *)
(* hands out no half open permission too many and loses none, and a call   *)
(* that passes the stateID check of RecordResult finds the breaker Closed  *)
(* or HalfOpen unless it was forced into Disabled.                         *)
(***************************************************************************)
EXTENDS CircuitBreaker, FiniteSetTheorems, SequenceTheorems, TLAPS

IsWindow(w) ==
  /\ {"kind", "size"} \subseteq DOMAIN w
  /\ w.kind \in {"Count", "Time"} /\ w.size \in Nat

\* The shape of the breaker's record; its window is opaque but for kind and size.
IsBreaker(c) ==
  /\ c = [state |-> c.state, transitTime |-> c.transitTime, stateID |-> c.stateID,
          window |-> c.window, halfOpenCalls |-> c.halfOpenCalls]
  /\ c.state \in States
  /\ c.transitTime \in Nat
  /\ c.stateID \in Nat \ {0}
  /\ c.halfOpenCalls \in 0 .. Permitted
  /\ IsWindow(c.window)
  /\ c.state = "HalfOpen" => c.window.kind = "Count" /\ c.window.size = Permitted

\* The breaker only permits calls in the states RecordResult expects; Open states
\* have none in flight, and a half open one accounts for every permission.
IInv ==
  /\ IsBreaker(cb)
  /\ now \in Nat /\ forced \in Nat
  /\ cb.transitTime <= now
  /\ calls \in [Callers -> [id : Nat, start : Nat]]
  /\ \A c \in Callers : calls[c].id <= cb.stateID /\ calls[c].start <= now
  /\ recorded \in Seq([res : Results, sec : Int])
  /\ "Disabled" \notin ForcedStates => cb.state # "Disabled"
  /\ cb.state \in {"Open", "ForceOpen"} => InFlight = {}
  /\ cb.state = "HalfOpen" => Cardinality(InFlight) + Len(recorded) = cb.halfOpenCalls

\* New windows are windows, with the size they were asked for.
LEMMA WindowFacts ==
  /\ \A n \in Nat : IsWindow(NewCountBasedWindow(n)) /\ NewCountBasedWindow(n).kind = "Count"
            /\ NewCountBasedWindow(n).size = n
  /\ \A t : IsWindow(ClosedWindow(t))
  BY PolicyAssumption DEF IsWindow, NewCountBasedWindow, NewTimeBasedWindow, ClosedWindow

\* A push keeps the kind and the size of the window.
LEMMA PushFacts ==
  ASSUME NEW w, IsWindow(w), NEW r, NEW t
  PROVE  IsWindow(Push(w, r, t)) /\ Push(w, r, t).kind = w.kind /\ Push(w, r, t).size = w.size
<1>1. IsWindow(CountPush(w, r)) /\ CountPush(w, r).kind = w.kind /\ CountPush(w, r).size = w.size
  BY DEF IsWindow, CountPush
<1> DEFINE e == Evict(w, t)
<1>2. IsWindow(e) /\ e.kind = w.kind /\ e.size = w.size
  BY DEF IsWindow, Evict
<1>3. IsWindow(TimePush(w, r, t)) /\ TimePush(w, r, t).kind = w.kind /\ TimePush(w, r, t).size = w.size
  BY <1>2 DEF IsWindow, TimePush
<1> QED BY <1>1, <1>3 DEF Push

\* The states that a transition goes to are states.
LEMMA InStates == "Closed" \in States /\ "HalfOpen" \in States /\ "Open" \in States
  BY DEF States

\* transitTo either does nothing or enters the given state with a fresh stateID,
\* and enters HalfOpen with no permission handed out.
LEMMA TransitFacts ==
  ASSUME NEW c, IsBreaker(c), NEW s \in States, NEW t \in Nat
  PROVE  /\ IsBreaker(transitTo(c, s, t))
         /\ transitTo(c, s, t).state = s
         /\ transitTo(c, s, t).transitTime \in {c.transitTime, t}
         /\ c.state = s => transitTo(c, s, t) = c
         /\ c.state # s => transitTo(c, s, t).stateID = c.stateID + 1
         /\ c.state # s /\ s = "HalfOpen" =>
              transitTo(c, s, t).halfOpenCalls = 0
  BY PolicyAssumption, WindowFacts DEF transitTo, IsBreaker, NewWindow, States

\* AcquirePermission leaves a breaker behind; it keeps the stateID or moves on to
\* a fresh one, and a permission is given only in Disabled, Closed, or HalfOpen
\* with one more permission counted.
LEMMA AcquireFacts ==
  ASSUME NEW c, IsBreaker(c), NEW t \in Nat
  PROVE  LET a == AcquirePermission(c, t)
             d == a.cb
         IN /\ IsBreaker(d)
            /\ d.stateID >= c.stateID
            /\ d.transitTime \in {c.transitTime, t}
            /\ d.stateID = c.stateID => d.state = c.state
            /\ d.state \in {c.state, "HalfOpen", "Open"}
            /\ a.ok => d.state \in {"Disabled", "Closed", "HalfOpen"}
            /\ d.state = "HalfOpen" =>
                 d.halfOpenCalls = (IF d.stateID = c.stateID THEN c.halfOpenCalls ELSE 0)
                                   + (IF a.ok THEN 1 ELSE 0)
<1> DEFINE h == AfterOpenWait(c, t)
<1>1. /\ IsBreaker(h)
      /\ h = c \/ (h.state = "HalfOpen" /\ h.stateID = c.stateID + 1 /\ h.halfOpenCalls = 0)
      /\ h.transitTime \in {c.transitTime, t}
  <2>1. IsBreaker(transitTo(c, "HalfOpen", t))
        /\ (c.state = "Open" => LET d == transitTo(c, "HalfOpen", t) IN
              d.state = "HalfOpen" /\ d.stateID = c.stateID + 1 /\ d.halfOpenCalls = 0)
        /\ transitTo(c, "HalfOpen", t).transitTime \in {c.transitTime, t}
    BY TransitFacts, InStates
  <2> QED BY <2>1 DEF AfterOpenWait
<1> DEFINE o == transitTo(h, "Open", t)
<1>2. h.state = "HalfOpen" => IsBreaker(o) /\ o.state = "Open" /\ o.stateID = h.stateID + 1
                             /\ o.transitTime \in {h.transitTime, t}
  BY <1>1, TransitFacts, InStates
<1>3. CASE h.state # "HalfOpen"
  <2>1. \/ AcquirePermission(c, t) = [ok |-> TRUE, cb |-> h] /\ h.state \in {"Disabled", "Closed"}
        \/ AcquirePermission(c, t) = [ok |-> FALSE, cb |-> h]
    BY <1>1, <1>3 DEF AcquirePermission, IsBreaker, States
  <2> QED BY <1>1, <1>3, <2>1 DEF IsBreaker
<1>4. CASE h.state = "HalfOpen" /\ h.halfOpenCalls < Permitted
  <2> DEFINE d == [h EXCEPT !.halfOpenCalls = @ + 1]
  <2>1. IsBreaker(d) /\ d.state = h.state /\ d.stateID = h.stateID
        /\ d.halfOpenCalls = h.halfOpenCalls + 1 /\ d.transitTime = h.transitTime
    BY <1>1, <1>4, PolicyAssumption DEF IsBreaker
  <2>2. AcquirePermission(c, t) = [ok |-> TRUE, cb |-> d]
    BY <1>4 DEF AcquirePermission
  <2> QED BY <1>1, <1>4, <2>1, <2>2 DEF IsBreaker
<1>5. CASE h.state = "HalfOpen" /\ ~ (h.halfOpenCalls < Permitted)
  <2>1. AcquirePermission(c, t) = [ok |-> FALSE, cb |-> IF HalfOpenExpired(h, t) THEN o ELSE h]
    BY <1>5 DEF AcquirePermission
  <2> QED BY <1>1, <1>2, <1>5, <2>1 DEF IsBreaker
<1> QED BY <1>3, <1>4, <1>5

\* RecordResult ignores a call of another state; otherwise it pushes and stays, or
\* moves to Open or Closed with a fresh stateID.
LEMMA RecordFacts ==
  ASSUME NEW c, IsBreaker(c), NEW id, NEW r, NEW t \in Nat
  PROVE  LET d == RecordResult(c, id, r, t)
         IN /\ IsBreaker(d)
            /\ d.transitTime \in {c.transitTime, t}
            /\ id # c.stateID => d = c
            /\ \/ d.stateID = c.stateID /\ d.state = c.state /\ d.halfOpenCalls = c.halfOpenCalls
               \/ d.stateID = c.stateID + 1 /\ d.state \in {"Open", "Closed"}
<1>1. CASE id # c.stateID
  BY <1>1 DEF RecordResult, IsBreaker
<1>2. CASE id = c.stateID
  <2> DEFINE p == [c EXCEPT !.window = Push(@, r, t)]
  <2>1. IsBreaker(p) /\ p.stateID = c.stateID /\ p.state = c.state
        /\ p.halfOpenCalls = c.halfOpenCalls /\ p.transitTime = c.transitTime
    <3>1. p = [state |-> c.state, transitTime |-> c.transitTime, stateID |-> c.stateID,
               window |-> Push(c.window, r, t), halfOpenCalls |-> c.halfOpenCalls]
      BY DEF IsBreaker
    <3>2. /\ IsWindow(Push(c.window, r, t))
          /\ Push(c.window, r, t).kind = c.window.kind /\ Push(c.window, r, t).size = c.window.size
      BY PushFacts DEF IsBreaker
    <3> QED BY <3>1, <3>2 DEF IsBreaker
  <2>2. RecordResult(c, id, r, t) \in {p, transitTo(p, "Open", t), transitTo(p, "Closed", t)}
    BY <1>2 DEF RecordResult, Decide
  <2> HIDE DEF p
  <2>3. \A s \in States :
          /\ IsBreaker(transitTo(p, s, t)) /\ transitTo(p, s, t).state = s
          /\ transitTo(p, s, t).transitTime \in {c.transitTime, t}
          /\ transitTo(p, s, t) = p \/ transitTo(p, s, t).stateID = c.stateID + 1
    BY <2>1, TransitFacts
  <2> QED BY <1>2, <2>1, <2>2, <2>3, InStates
<1> QED BY <1>1, <1>2

\* NewCircuitBreaker: the breaker starts in Closed with no call in flight.
LEMMA Initial == Init => IInv
<1> SUFFICES ASSUME Init PROVE IInv
  OBVIOUS
<1>1. cb = [state |-> "Closed", transitTime |-> 0, stateID |-> 1,
            window |-> ClosedWindow(0), halfOpenCalls |-> 0]
  BY DEF Init, transitTo, NewWindow
<1>2. IsBreaker(cb)
  BY <1>1, WindowFacts, PolicyAssumption DEF IsBreaker, States
<1> QED BY <1>1, <1>2 DEF Init, IInv, Idle

\* A call that is in flight in the current state leaves it.
LEMMA InFlightStep ==
  ASSUME IInv, NEW c \in Callers
  PROVE  /\ IsFiniteSet(InFlight) /\ Cardinality(InFlight) \in Nat
         /\ c \in InFlight => Cardinality(InFlight \ {c}) = Cardinality(InFlight) - 1
         /\ c \notin InFlight => Cardinality(InFlight \cup {c}) = Cardinality(InFlight) + 1
<1>1. IsFiniteSet(InFlight)
  BY CallersFinite, FS_Subset DEF InFlight
<1> QED BY <1>1, FS_CardinalityType, FS_RemoveElement, FS_AddElement

\* A permission that AcquirePermission grants is counted and in flight.
LEMMA CallStep == ASSUME IInv, NEW c \in Callers, Call(c) PROVE IInv'
<1> DEFINE a == AcquirePermission(cb, now)
           d == a.cb
<1>1. /\ IsBreaker(d) /\ d.stateID >= cb.stateID /\ d.transitTime \in {cb.transitTime, now}
      /\ d.stateID = cb.stateID => d.state = cb.state
      /\ d.state \in {cb.state, "HalfOpen", "Open"}
      /\ a.ok => d.state \in {"Disabled", "Closed", "HalfOpen"}
      /\ d.state = "HalfOpen" =>
           d.halfOpenCalls = (IF d.stateID = cb.stateID THEN cb.halfOpenCalls ELSE 0)
                             + (IF a.ok THEN 1 ELSE 0)
  BY AcquireFacts DEF IInv
<1> HIDE DEF a
<1>2. a.ok /\ cb' = d /\ calls[c] = Idle /\ now' = now /\ forced' = forced
      /\ calls' = [calls EXCEPT ![c] = [id |-> d.stateID, start |-> now]]
      /\ recorded' = IF d.stateID # cb.stateID THEN <<>> ELSE recorded
  BY DEF Call, a, Remember
<1>3. d.stateID \in Nat \ {0} /\ cb.stateID \in Nat \ {0}
  BY <1>1 DEF IInv, IsBreaker
<1>4. /\ calls' \in [Callers -> [id : Nat, start : Nat]]
      /\ \A x \in Callers : calls'[x].id <= d.stateID /\ calls'[x].start <= now
  BY <1>1, <1>2, <1>3 DEF IInv
<1>5. recorded' \in Seq([res : Results, sec : Int]) /\ Len(recorded) \in Nat
  BY <1>2, LenProperties DEF IInv
<1>6. /\ d.stateID = cb.stateID => InFlight' = InFlight \cup {c} /\ c \notin InFlight
      /\ d.stateID # cb.stateID => InFlight' = {c}
  BY <1>1, <1>2, <1>3 DEF IInv, InFlight, Idle
<1>7. d.state = "HalfOpen" => Cardinality(InFlight') + Len(recorded') = d.halfOpenCalls
  <2>1. CASE d.stateID = cb.stateID
    <3>1. Cardinality(InFlight') = Cardinality(InFlight) + 1 /\ Cardinality(InFlight) \in Nat
      BY <2>1, <1>6, InFlightStep
    <3> QED BY <1>1, <1>2, <1>5, <2>1, <3>1 DEF IInv
  <2>2. CASE d.stateID # cb.stateID
    <3>1. Cardinality(InFlight') = 1
      BY <2>2, <1>6, FS_Singleton
    <3>2. recorded' = <<>> /\ Len(<<>>) = 0
      BY <1>2, <2>2
    <3> QED BY <1>1, <1>2, <2>2, <3>1, <3>2
  <2> QED BY <2>1, <2>2
<1> QED BY <1>1, <1>2, <1>4, <1>5, <1>7 DEF IInv

\* A refusal changes at most the state, from Open to HalfOpen or back.
LEMMA ShortCircuitStep == ASSUME IInv, NEW c \in Callers, ShortCircuit(c) PROVE IInv'
<1> DEFINE a == AcquirePermission(cb, now)
           d == a.cb
<1>1. /\ IsBreaker(d) /\ d.stateID >= cb.stateID /\ d.transitTime \in {cb.transitTime, now}
      /\ d.stateID = cb.stateID => d.state = cb.state
      /\ d.state \in {cb.state, "HalfOpen", "Open"}
      /\ d.state = "HalfOpen" =>
           d.halfOpenCalls = (IF d.stateID = cb.stateID THEN cb.halfOpenCalls ELSE 0)
                             + (IF a.ok THEN 1 ELSE 0)
  BY AcquireFacts DEF IInv
<1> HIDE DEF a
<1>2. ~ a.ok /\ cb' = d /\ calls' = calls /\ now' = now /\ forced' = forced
      /\ recorded' = IF d.stateID # cb.stateID THEN <<>> ELSE recorded
  BY DEF ShortCircuit, a, Remember
<1>3. d.stateID \in Nat \ {0} /\ cb.stateID \in Nat \ {0}
  BY <1>1 DEF IInv, IsBreaker
<1>4. recorded' \in Seq([res : Results, sec : Int])
  BY <1>2 DEF IInv
<1>5. /\ d.stateID = cb.stateID => InFlight' = InFlight
      /\ d.stateID # cb.stateID => InFlight' = {}
  BY <1>1, <1>2, <1>3 DEF IInv, InFlight
<1>6. d.state = "HalfOpen" => Cardinality(InFlight') + Len(recorded') = d.halfOpenCalls
  <2>1. d.stateID # cb.stateID => recorded' = <<>> /\ Len(<<>>) = 0 /\ Cardinality({}) = 0
    BY <1>2, FS_EmptySet
  <2>2. d.state = "HalfOpen" => d.halfOpenCalls =
                                 IF d.stateID = cb.stateID THEN cb.halfOpenCalls ELSE 0
    BY <1>1, <1>2 DEF IInv, IsBreaker
  <2>3. d.stateID = cb.stateID => recorded' = recorded
    BY <1>2
  <2>4. d.stateID = cb.stateID /\ d.state = "HalfOpen" =>
          Cardinality(InFlight) + Len(recorded) = cb.halfOpenCalls
    BY <1>1 DEF IInv
  <2>5. CASE d.stateID = cb.stateID
    BY <1>5, <2>2, <2>3, <2>4, <2>5
  <2>6. CASE d.stateID # cb.stateID
    <3>1. Cardinality(InFlight') = 0
      BY <1>5, <2>1, <2>6
    <3>2. Len(recorded') = 0
      BY <2>1, <2>6
    <3> QED BY <2>2, <2>6, <3>1, <3>2
  <2> QED BY <2>5, <2>6
<1> QED BY <1>1, <1>2, <1>3, <1>4, <1>5, <1>6 DEF IInv

\* RecordResult moves a call from the calls in flight to the results, or discards it.
LEMMA ReturnStep ==
  ASSUME IInv, NEW c \in Callers, NEW hasErr \in BOOLEAN, Return(c, hasErr) PROVE IInv'
<1> DEFINE id == calls[c].id
           r == CallResult(hasErr, now - calls[c].start)
           d == RecordResult(cb, id, r, now)
           longer == Append(recorded, [res |-> r, sec |-> now \div Second])
<1>1. /\ IsBreaker(d) /\ d.transitTime \in {cb.transitTime, now}
      /\ id # cb.stateID => d = cb
      /\ \/ d.stateID = cb.stateID /\ d.state = cb.state /\ d.halfOpenCalls = cb.halfOpenCalls
         \/ d.stateID = cb.stateID + 1 /\ d.state \in {"Open", "Closed"}
  BY RecordFacts DEF IInv
<1>2. /\ calls[c] # Idle /\ cb' = d /\ now' = now /\ forced' = forced
      /\ calls' = [calls EXCEPT ![c] = Idle]
      /\ recorded' = IF d.stateID # cb.stateID THEN <<>>
                     ELSE IF id = cb.stateID THEN Covered(longer, now) ELSE recorded
  BY DEF Return, Remember
<1>3. d.stateID \in Nat \ {0} /\ cb.stateID \in Nat \ {0}
  BY <1>1 DEF IInv, IsBreaker
<1>4. /\ longer \in Seq([res : Results, sec : Int])
      /\ Len(longer) = Len(recorded) + 1 /\ Len(recorded) \in Nat
  <2>1. r \in Results /\ now \div Second \in Int
    <3>1. r \in Results
      BY DEF CallResult, Results
    <3>2. now \div Second \in Int
      BY SecondAssumption DEF IInv
    <3> QED BY <3>1, <3>2
  <2> QED BY <2>1, AppendProperties, LenProperties DEF IInv
<1> HIDE DEF longer
<1>5. Covered(longer, now) \in Seq([res : Results, sec : Int])
  <2> DEFINE old == {i \in DOMAIN longer : longer[i].sec <= now \div Second - cb.window.size}
             past == IF cb.window.kind = "Time" THEN Cardinality(old)
                     ELSE IF Len(longer) > cb.window.size THEN Len(longer) - cb.window.size ELSE 0
  <2>1. IsFiniteSet(1 .. Len(longer)) /\ DOMAIN longer = 1 .. Len(longer)
    BY <1>4, FS_Interval, LenProperties
  <2>2. Cardinality(old) \in Nat
    BY <2>1, FS_Subset, FS_CardinalityType
  <2>3. Covered(longer, now) = SubSeq(longer, past + 1, Len(longer))
    BY DEF Covered
  <2>4. past \in Nat
    BY <2>2, <1>4 DEF IInv, IsBreaker, IsWindow
  <2> HIDE DEF past
  <2>5. \A i \in past + 1 .. Len(longer) : longer[i] \in [res : Results, sec : Int]
    <3>1. \A i \in past + 1 .. Len(longer) : i \in 1 .. Len(longer)
      BY <1>4, <2>4
    <3> QED BY <1>4, <3>1, ElementOfSeq
  <2> QED BY <1>4, <2>3, <2>4, <2>5, SubSeqProperties
<1>6. /\ calls' \in [Callers -> [id : Nat, start : Nat]]
      /\ \A x \in Callers : calls'[x].id <= d.stateID /\ calls'[x].start <= now
  BY <1>1, <1>2, <1>3 DEF IInv, Idle
<1>7. /\ c \in InFlight <=> id = cb.stateID
      /\ d.stateID = cb.stateID => InFlight' = InFlight \ {c}
      /\ d.stateID # cb.stateID => InFlight' = {}
  BY <1>1, <1>2, <1>3 DEF IInv, InFlight, Idle
<1>8. d.state = "HalfOpen" => Cardinality(InFlight') + Len(recorded') = d.halfOpenCalls
  <2> SUFFICES ASSUME d.state = "HalfOpen"
               PROVE  Cardinality(InFlight') + Len(recorded') = d.halfOpenCalls
    OBVIOUS
  <2>1. d.stateID = cb.stateID /\ cb.state = "HalfOpen" /\ d.halfOpenCalls = cb.halfOpenCalls
    BY <1>1, <1>3
  <2>2. CASE id # cb.stateID
    <3>1. InFlight' = InFlight /\ recorded' = recorded
      BY <1>2, <1>7, <2>1, <2>2
    <3> QED BY <2>1, <3>1 DEF IInv
  <2>3. CASE id = cb.stateID
    <3>1. Cardinality(InFlight') = Cardinality(InFlight) - 1 /\ Cardinality(InFlight) \in Nat
      BY <1>7, <2>1, <2>3, InFlightStep
    <3>2. Cardinality(InFlight) + Len(recorded) = cb.halfOpenCalls
      BY <2>1 DEF IInv
    <3>3. Cardinality(InFlight') \in Nat
      <4>1. IsFiniteSet(InFlight')
        BY <1>7, <2>1, InFlightStep, FS_Subset
      <4> QED BY <4>1, FS_CardinalityType
    <3>4. Len(longer) <= cb.window.size /\ cb.window.kind = "Count"
      <4>1. /\ cb.halfOpenCalls \in 0 .. Permitted /\ cb.window.size = Permitted
            /\ cb.window.kind = "Count"
        BY <2>1 DEF IInv, IsBreaker
      <4> QED BY <1>4, <3>1, <3>2, <3>3, <4>1, PolicyAssumption
    <3>5. recorded' = SubSeq(longer, 1, Len(longer))
      <4>1. cb.window.size \in Nat
        BY DEF IInv, IsBreaker, IsWindow
      <4>2. Covered(longer, now) = SubSeq(longer, 0 + 1, Len(longer))
        BY <1>4, <3>4, <4>1 DEF Covered
      <4> QED BY <1>2, <2>1, <2>3, <4>2
    <3>6. Len(recorded') = Len(recorded) + 1
      <4>1. SubSeq(longer, 1, Len(longer)) = longer
        BY <1>4, SubSeqFull
      <4> QED BY <1>4, <3>5, <4>1
    <3>7. Len(recorded) \in Nat
      BY <1>4
    <3> QED BY <2>1, <3>1, <3>2, <3>3, <3>6, <3>7
  <2> QED BY <2>2, <2>3
<1>9. recorded' \in Seq([res : Results, sec : Int])
  BY <1>2, <1>5 DEF IInv
<1> QED BY <1>1, <1>2, <1>3, <1>6, <1>7, <1>8, <1>9 DEF IInv

\* A forced transition leaves the calls of earlier states behind.
LEMMA SetStateStep == ASSUME IInv, NEW s \in ForcedStates, SetState(s) PROVE IInv'
<1>1. s \in States /\ s \in ForcedStates
  BY ForcedAssumption
<1> DEFINE d == transitTo(cb, s, now)
<1>2. /\ IsBreaker(d) /\ d.state = s /\ d.transitTime \in {cb.transitTime, now}
      /\ cb.state = s => d = cb
      /\ cb.state # s => d.stateID = cb.stateID + 1
      /\ cb.state # s /\ s = "HalfOpen" => d.halfOpenCalls = 0
  BY <1>1, TransitFacts DEF IInv
<1> HIDE DEF d
<1>3. /\ cb' = d /\ calls' = calls /\ now' = now /\ forced' = forced + 1
      /\ recorded' = IF d.stateID # cb.stateID THEN <<>> ELSE recorded
  BY DEF SetState, d, Remember
<1>4. d.stateID \in Nat \ {0} /\ cb.stateID \in Nat \ {0}
  BY <1>2 DEF IInv, IsBreaker
<1>5. CASE cb.state = s
  <2>1. cb' = cb /\ recorded' = recorded /\ InFlight' = InFlight
    BY <1>2, <1>3, <1>5 DEF InFlight
  <2> QED BY <1>3, <2>1 DEF IInv
<1>6. CASE cb.state # s
  <2>1. InFlight' = {} /\ recorded' = <<>>
    BY <1>2, <1>3, <1>4, <1>6 DEF IInv, InFlight
  <2>2. Cardinality({}) = 0 /\ Len(<<>>) = 0 /\ <<>> \in Seq([res : Results, sec : Int])
    BY FS_EmptySet
  <2> QED BY <1>1, <1>2, <1>3, <1>4, <1>6, <2>1, <2>2 DEF IInv
<1> QED BY <1>5, <1>6

\* Every step of a caller, of the administrator and of the clock keeps IInv.
LEMMA Inductive == IInv /\ [Next]_vars => IInv'
<1> SUFFICES ASSUME IInv, [Next]_vars PROVE IInv'
  OBVIOUS
<1>1. ASSUME NEW c \in Callers, Call(c) PROVE IInv'
  BY <1>1, CallStep
<1>2. ASSUME NEW c \in Callers, ShortCircuit(c) PROVE IInv'
  BY <1>2, ShortCircuitStep
<1>3. ASSUME NEW c \in Callers, NEW hasErr \in BOOLEAN, Return(c, hasErr) PROVE IInv'
  BY <1>3, ReturnStep
<1>4. ASSUME NEW s \in ForcedStates, SetState(s) PROVE IInv'
  BY <1>4, SetStateStep
<1>5. CASE Tick
  <2>1. cb' = cb /\ calls' = calls /\ recorded' = recorded /\ forced' = forced /\ now' = now + 1
        /\ InFlight' = InFlight
    BY <1>5 DEF Tick, InFlight
  <2>2. now \in Nat /\ cb.transitTime \in Nat /\ \A c \in Callers : calls[c].start \in Nat
    BY DEF IInv, IsBreaker
  <2> QED BY <2>1, <2>2 DEF IInv
<1>6. CASE UNCHANGED vars
  BY <1>6 DEF vars, IInv, InFlight
<1> QED BY <1>1, <1>2, <1>3, <1>4, <1>5, <1>6 DEF Next

\* IInv holds in every reachable state of the breaker.
LEMMA Invariance == Spec => []IInv
  BY Initial, Inductive, PTL DEF Spec

\* Type correctness of the breaker, the calls and the history under any interleaving
\* of AcquirePermission, RecordResult and SetState.
THEOREM TypeCorrect == Spec => []TypeOK
<1>1. IInv => TypeOK
  BY DEF IInv, TypeOK, IsBreaker, IsWindow
<1> QED BY <1>1, Invariance, PTL

\* AcquirePermission conserves the half open permissions: none too many, none lost.
THEOREM BudgetKept == Spec => []HalfOpenBudget
<1>1. IInv => HalfOpenBudget
  BY PolicyAssumption DEF IInv, HalfOpenBudget, IsBreaker
<1> QED BY <1>1, Invariance, PTL

\* The comment in RecordResult is right as long as nobody disables the breaker.
THEOREM PermittingState ==
  "Disabled" \notin ForcedStates => (Spec => []CallsOfPermittingState)
<1> SUFFICES ASSUME "Disabled" \notin ForcedStates PROVE Spec => []CallsOfPermittingState
  OBVIOUS
<1>1. IInv => CallsOfPermittingState
  BY DEF IInv, CallsOfPermittingState, IsBreaker, States
<1> QED BY <1>1, Invariance, PTL
=============================================================================
