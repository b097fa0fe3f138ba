------------------------------ MODULE CallWindow ------------------------------
(***************************************************************************)
(* The two sliding windows of pkg/util/circuitbreaker: a ring of single    *)
(* results (CountBasedWindow) and a ring of one-second buckets             *)
(* (TimeBasedWindow).  Both keep running totals beside the ring, which     *)
(* Push and evict adjust incrementally.                                    *)
(*                                                                         *)
(* Instants are natural numbers of ticks, Second ticks to the second.      *)
(***************************************************************************)
EXTENDS Integers, FiniteSetsExt

CONSTANT Second

ASSUME SecondAssumption == Second \in Nat \ {0}

Results == {"Success", "Slow", "Failure"}

One(b) == IF b THEN 1 ELSE 0

-----------------------------------------------------------------------------
(* CountBasedWindow *)

NewCountBasedWindow(size) ==
  [kind |-> "Count", size |-> size, total |-> 0, slow |-> 0, failure |-> 0,
   bucketIdx |-> 0, bucket |-> [i \in 0 .. size - 1 |-> "Unknown"]]

\* Evict the result the next slot still holds, then store the new one there.
CountPush(w, result) ==
  LET old == w.bucket[w.bucketIdx]
  IN [w EXCEPT !.total = @ - One(old # "Unknown") + 1,
               !.slow = @ - One(old = "Slow") + One(result = "Slow"),
               !.failure = @ - One(old = "Failure") + One(result = "Failure"),
               !.bucket[w.bucketIdx] = result,
               !.bucketIdx = IF @ + 1 >= w.size THEN 0 ELSE @ + 1]

-----------------------------------------------------------------------------
(* TimeBasedWindow.  beginAt is truncated to the second, so that it is kept *)
(* as a number of seconds.                                                  *)

EmptyBucket == [total |-> 0, slow |-> 0, failure |-> 0]

NewTimeBasedWindow(size, now) ==
  [kind |-> "Time", size |-> size, total |-> 0, slow |-> 0, failure |-> 0,
   beginAt |-> now \div Second, firstBucket |-> 0,
   bucket |-> [i \in 0 .. size - 1 |-> EmptyBucket]]

SecondsSince(w, now) == (now - w.beginAt * Second) \div Second

\* Fault: a long idle period empties one bucket too few.
Evict_OneLess(w, now) ==
  LET evicts == SecondsSince(w, now) - w.size
      out == {(w.firstBucket + i) % w.size : i \in 0 .. Min({evicts, w.size}) - 1}
  IN IF evicts <= 0 THEN w
     ELSE [w EXCEPT
            !.beginAt = @ + evicts,
            !.total = @ - MapThenSumSet(LAMBDA i : w.bucket[i].total, out),
            !.slow = @ - MapThenSumSet(LAMBDA i : w.bucket[i].slow, out),
            !.failure = @ - MapThenSumSet(LAMBDA i : w.bucket[i].failure, out),
            !.bucket = [i \in DOMAIN @ |-> IF i \in out THEN EmptyBucket ELSE @[i]],
            !.firstBucket = (@ + Min({evicts, w.size})) % w.size]

\* Empty the buckets that have slid out of the window, oldest first.
Evict(w, now) ==
  LET evicts == SecondsSince(w, now) - w.size + 1
      out == {(w.firstBucket + i) % w.size : i \in 0 .. Min({evicts, w.size}) - 1}
  IN IF SecondsSince(w, now) < w.size THEN w
     ELSE [w EXCEPT
            !.beginAt = @ + evicts,
            !.total = @ - MapThenSumSet(LAMBDA i : w.bucket[i].total, out),
            !.slow = @ - MapThenSumSet(LAMBDA i : w.bucket[i].slow, out),
            !.failure = @ - MapThenSumSet(LAMBDA i : w.bucket[i].failure, out),
            !.bucket = [i \in DOMAIN @ |-> IF i \in out THEN EmptyBucket ELSE @[i]],
            !.firstBucket = (@ + Min({evicts, w.size})) % w.size]

TimePush(w, result, now) ==
  LET e == Evict(w, now)
      idx == (e.firstBucket + SecondsSince(e, now)) % e.size
      Add(counts) == [counts EXCEPT !.total = @ + 1,
                                    !.slow = @ + One(result = "Slow"),
                                    !.failure = @ + One(result = "Failure")]
  IN Add([e EXCEPT !.bucket[idx] = Add(@)])

-----------------------------------------------------------------------------

Push(w, result, now) ==
  IF w.kind = "Count" THEN CountPush(w, result) ELSE TimePush(w, result, now)

FailureRate(w) == (w.failure * 100) \div w.total

SlowRate(w) == (w.slow * 100) \div w.total

=============================================================================
