----------------------------- MODULE RateLimiter ------------------------------
(***************************************************************************)
(* pkg/util/ratelimiter (RateLimiter and MultiRateLimiter), as the         *)
(* RateLimiter filter and the MQTT proxy use it.                           *)
(*                                                                         *)
(* A limiter counts tokens of several sorts: RateLimiter has one sort,     *)
(* MultiRateLimiter one for requests and one for bytes.  A request that is *)
(* permitted may have to wait for a later period; the tokens of future     *)
(* periods are reserved by letting the count exceed the limit of one       *)
(* period.  acquirePermission runs under rl.lock and is one step.  The     *)
(* states Normal and Limiting only feed the listener and are one here.     *)
(*                                                                         *)
(* The limiter is the one of a URL rule of the filter.  The filter of a    *)
(* pipeline is replaced as a whole when the pipeline is updated (Inherit): *)
(* the next generation takes the limiter of an equal rule over when its    *)
(* policy is unchanged.  Requests that are still under way in the previous *)
(* generation, whose rule is left without a limiter, are not modelled.     *)
(***************************************************************************)
EXTENDS Integers, Sequences, FiniteSetsExt

CONSTANTS
  Policies,         \* records: timeout, refresh, limit (sort -> tokens), counts
  MaxLimiterTime,   \* bound on the clock
  MaxRequests,      \* bound on the permitted requests
  MaxUpdates        \* bound on the updates of the filter, and on SetState

VARIABLES
  limNow,     \* the clock
  policy,     \* the policy of the current generation
  rl,         \* its limiter: disabled, startTime, cycle, tokens
  granted,    \* history: the requests permitted by this policy since startTime:
              \* the period each may proceed in, its tokens, and its wait
  updates

limiterVars == <<limNow, policy, rl, granted, updates>>

Sorts(p) == DOMAIN p.limit

NewLimiter(p, t) ==
  [disabled |-> FALSE, startTime |-> t, cycle |-> 0, tokens |-> [s \in Sorts(p) |-> 0]]

\* How many periods can be reserved, the current one included.
Periods(p) == p.timeout \div p.refresh + 1

MaxTokens(p, s) == p.limit[s] * Periods(p)

Cycle(p, r, t) == (t - r.startTime) \div p.refresh

\* Fault: what was reserved for later periods is forgotten.
TokensAt_Forget(p, r, t) ==
  [s \in Sorts(p) |-> IF Cycle(p, r, t) = r.cycle THEN r.tokens[s] ELSE 0]

\* Fault: the periods that passed are not counted.
TokensAt_NoRefresh(p, r, t) == r.tokens

\* The tokens permitted from the beginning of the current period.
TokensAt(p, r, t) ==
  [s \in Sorts(p) |-> Max({0, r.tokens[s] - (Cycle(p, r, t) - r.cycle) * p.limit[s]})]

\* Fault: a period too many can be reserved.
Rejects_Late(p, tokens) == \E s \in Sorts(p) : tokens[s] > MaxTokens(p, s)

Rejects(p, tokens) == \E s \in Sorts(p) : tokens[s] >= MaxTokens(p, s)

\* What the caller has to wait for.
Wait(p, r, t, tokens) ==
  IF \A s \in Sorts(p) : tokens[s] < p.limit[s] THEN 0
  ELSE Max({0} \cup
           {r.startTime + p.refresh * (Cycle(p, r, t) + tokens[s] \div p.limit[s]) - t :
              s \in Sorts(p)})

-----------------------------------------------------------------------------

LimiterInit ==
  /\ limNow = 0 /\ policy \in Policies /\ rl = NewLimiter(policy, 0)
  /\ granted = <<>> /\ updates = 0

\* acquirePermission, permitted.
Permit(count) ==
  LET tokens == TokensAt(policy, rl, limNow)
      wait == Wait(policy, rl, limNow, tokens)
  IN /\ Len(granted) < MaxRequests
     /\ ~rl.disabled /\ ~Rejects(policy, tokens)
     /\ rl' = [rl EXCEPT !.tokens = [s \in Sorts(policy) |-> tokens[s] + count[s]],
                         !.cycle = Cycle(policy, rl, limNow)]
     /\ granted' = Append(granted, [period |-> Cycle(policy, rl, limNow + wait),
                                    count |-> count, wait |-> wait])
     /\ UNCHANGED <<limNow, policy, updates>>

\* A limiter that is disabled permits everything.
PermitDisabled == rl.disabled /\ UNCHANGED limiterVars

\* acquirePermission, rejected.
Reject ==
  /\ ~rl.disabled /\ Rejects(policy, TokensAt(policy, rl, limNow))
  /\ UNCHANGED limiterVars

\* reload of the filter: the limiter of an unchanged rule and policy is kept.
InheritLimiter(p) ==
  IF p = policy THEN UNCHANGED <<rl, policy, granted>>
  ELSE rl' = NewLimiter(p, limNow) /\ policy' = p /\ granted' = <<>>

UpdateFilter ==
  /\ updates < MaxUpdates /\ updates' = updates + 1
  /\ \E p \in Policies : InheritLimiter(p)
  /\ UNCHANGED limNow

\* SetState: a limiter that is enabled again starts afresh.
SetDisabled(off) ==
  /\ updates < MaxUpdates /\ updates' = updates + 1
  /\ off # rl.disabled
  /\ rl' = IF off THEN [rl EXCEPT !.disabled = TRUE] ELSE NewLimiter(policy, limNow)
  /\ granted' = <<>>
  /\ UNCHANGED <<limNow, policy>>

LimiterTick ==
  /\ limNow < MaxLimiterTime /\ limNow' = limNow + 1
  /\ UNCHANGED <<policy, rl, granted, updates>>

LimiterNext ==
  \/ \E count \in policy.counts : Permit(count)
  \/ PermitDisabled \/ Reject \/ UpdateFilter \/ LimiterTick
  \/ \E off \in BOOLEAN : SetDisabled(off)

LimiterSpec == LimiterInit /\ [][LimiterNext]_limiterVars

-----------------------------------------------------------------------------

\* The tokens of sort s that may be spent in the periods a to b.
Spent(s, a, b) ==
  MapThenSumSet(LAMBDA i : granted[i].count[s],
                {i \in DOMAIN granted : granted[i].period \in a .. b})

LastPeriod(t) == Cycle(policy, rl, t) + Periods(policy) - 1

(* ratelimiter.go:149: over any stretch of periods no more requests proceed *)
(* than the limits of these periods, whatever was reserved before; a single *)
(* request of several tokens may go over the limit with all but the first.  *)
WithinRate ==
  \A s \in Sorts(policy) : \A a \in 0 .. LastPeriod(limNow) : \A b \in a .. LastPeriod(limNow) :
    Spent(s, a, b) <= policy.limit[s] * (b - a + 1) + Max({c[s] : c \in policy.counts}) - 1

(* ratelimiter.go:181: nobody waits longer than the timeout of the policy,  *)
(* and nobody overtakes an earlier request.                                 *)
WaitsInOrder ==
  \A i \in DOMAIN granted :
    /\ granted[i].wait \in 0 .. policy.timeout
    /\ \A j \in i .. Len(granted) : granted[i].period <= granted[j].period

(* ratelimiter.go:156: a request is rejected only when the limits were used *)
(* up from some period on, to the last one it could have waited for.        *)
RejectsOnlyFull ==
  (~rl.disabled /\ Rejects(policy, TokensAt(policy, rl, limNow))) =>
    \E s \in Sorts(policy) : \E a \in 0 .. Cycle(policy, rl, limNow) :
      Spent(s, a, LastPeriod(limNow)) >= policy.limit[s] * (LastPeriod(limNow) - a + 1)
=============================================================================
