--------------------------- MODULE MCCircuitBreaker ---------------------------
(* Small instances of CircuitBreaker for TLC: the breaker that the constants  *)
(* describe, and one like it over a time based window.  The initial state     *)
(* picks the one that runs.                                                   *)
EXTENDS CircuitBreaker

CONSTANTS Breakers, MaxTimeOfTimed

VARIABLE breaker

Timed == INSTANCE CircuitBreaker WITH
  Second <- 2, SlidingWindowType <- "Time", SlidingWindowSize <- 2,
  MaxWaitDurationInHalfOpen <- 1, MaxTime <- MaxTimeOfTimed, ForcedStates <- {}, MaxForced <- 0

MCInit == breaker \in Breakers /\ IF breaker = "timed" THEN Timed!Init ELSE Init

MCNext ==
  /\ IF breaker = "timed" THEN Timed!Next ELSE Next
  /\ UNCHANGED breaker

MCCall(c) == IF breaker = "timed" THEN Timed!Call(c) ELSE Call(c)
MCReturn(c, hasErr) == IF breaker = "timed" THEN Timed!Return(c, hasErr) ELSE Return(c, hasErr)

MCFairness ==
  /\ WF_vars(\E c \in Callers : MCCall(c))
  /\ \A c \in Callers : WF_vars(\E hasErr \in BOOLEAN : MCReturn(c, hasErr))

MCSpec == MCInit /\ [][MCNext]_<<vars, breaker>> /\ MCFairness
=============================================================================
