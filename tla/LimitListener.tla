---------------------------- MODULE LimitListener -----------------------------
(***************************************************************************)
(* pkg/util/limitlistener on pkg/util/sem: the listener of a traffic gate  *)
(* accepts a connection only when it holds a slot of a semaphore whose     *)
(* size can be changed while it is in use.                                 *)
(*                                                                         *)
(* The semaphore is golang.org/x/sync/semaphore.Weighted with a fixed      *)
(* capacity, far above any limit; what the limit leaves of it is held by   *)
(* the semaphore itself.  SetMaxCount notes the new limit under a lock and *)
(* starts a goroutine that gives weight back, or takes more: the           *)
(* goroutines of several calls run in any order, and one that takes weight *)
(* queues with the acceptor.                                               *)
(***************************************************************************)
EXTENDS Integers, Sequences, FiniteSetsExt, SequencesExt

CONSTANTS
  MaxCapacity,     \* maxCapacity
  Limits,          \* the limits that may be configured
  MaxResizes,      \* bound on the calls of SetMaxCount
  MaxConns         \* bound on the accepted connections

VARIABLES
  sem,             \* cur, the weight held, and waiters, the queue of Acquire
  realCapacity,
  resizing,        \* the goroutines of SetMaxCount that have not run: n - old
  acceptor,        \* Accept: "idle", "acquire", "accept", "stopped"
  listener,        \* "open", "closed" (the inner listener), "canceled" (ctx as well)
  conns,           \* the open connections
  closedConns,     \* accepted ones whose Close was called
  resizes          \* the calls of SetMaxCount

listenVars ==
  <<sem, realCapacity, resizing, acceptor, listener, conns, closedConns, resizes>>

-----------------------------------------------------------------------------
(* semaphore.Weighted.                                                      *)

FirstWeights(s, k) == MapThenSumSet(LAMBDA i : s.waiters[i].n, 1 .. k)

\* The waiters are served in their order, as far as the weight goes.
notifyWaiters(s) ==
  LET k == Max({j \in 0 .. Len(s.waiters) :
                  \A i \in 1 .. j : s.cur + FirstWeights(s, i) <= MaxCapacity})
  IN [cur |-> s.cur + FirstWeights(s, k),
      waiters |-> SubSeq(s.waiters, k + 1, Len(s.waiters))]

AcquireWeight(s, who, n) ==
  IF s.cur + n <= MaxCapacity /\ s.waiters = <<>> THEN [s EXCEPT !.cur = @ + n]
  ELSE [s EXCEPT !.waiters = Append(@, [who |-> who, n |-> n])]

ReleaseWeight(s, n) == notifyWaiters([s EXCEPT !.cur = @ - n])

\* A waiter whose context is done leaves; the next may fit if it was first.
LeaveQueue(s, i) ==
  LET left == [s EXCEPT !.waiters = RemoveAt(@, i)]
  IN IF i = 1 THEN notifyWaiters(left) ELSE left

-----------------------------------------------------------------------------

\* NewLimitListener and NewSem.
ListenInit ==
  /\ realCapacity \in Limits
  /\ sem = [cur |-> MaxCapacity - realCapacity, waiters |-> <<>>]
  /\ resizing = <<>> /\ acceptor = "idle" /\ listener = "open"
  /\ conns = 0 /\ closedConns = 0 /\ resizes = 0

Queued == {i \in DOMAIN sem.waiters : sem.waiters[i].who = "acceptor"}

\* Accept calls acquire.
Acquire ==
  /\ acceptor = "idle" /\ conns + closedConns < MaxConns
  /\ acceptor' = "acquire" /\ sem' = AcquireWeight(sem, "acceptor", 1)
  /\ UNCHANGED <<realCapacity, resizing, listener, conns, closedConns, resizes>>

\* acquire returns and Accept looks at the context.
Acquired ==
  /\ acceptor = "acquire"
  /\ \/ Queued = {} /\ listener # "canceled" /\ acceptor' = "accept" /\ UNCHANGED sem
     \/ /\ Queued = {} /\ listener = "canceled" /\ acceptor' = "stopped"
        /\ sem' = ReleaseWeight(sem, 1)
     \/ /\ listener = "canceled" /\ acceptor' = "stopped"
        /\ \E i \in Queued : sem' = LeaveQueue(sem, i)
  /\ UNCHANGED <<realCapacity, resizing, listener, conns, closedConns, resizes>>

\* The inner Accept returns a connection.
Connect ==
  /\ acceptor = "accept" /\ listener = "open"
  /\ acceptor' = "idle" /\ conns' = conns + 1
  /\ UNCHANGED <<sem, realCapacity, resizing, listener, closedConns, resizes>>

\* Fault: the slot is not returned.
AcceptFails_Keep ==
  /\ acceptor = "accept" /\ acceptor' = IF listener = "open" THEN "idle" ELSE "stopped"
  /\ UNCHANGED <<sem, realCapacity, resizing, listener, conns, closedConns, resizes>>

\* It returns an error; the server tries again when the error is temporary.
AcceptFails ==
  /\ acceptor = "accept" /\ acceptor' = IF listener = "open" THEN "idle" ELSE "stopped"
  /\ sem' = ReleaseWeight(sem, 1)
  /\ UNCHANGED <<realCapacity, resizing, listener, conns, closedConns, resizes>>

CloseConn ==
  /\ conns > 0 /\ conns' = conns - 1 /\ closedConns' = closedConns + 1
  /\ sem' = ReleaseWeight(sem, 1)
  /\ UNCHANGED <<realCapacity, resizing, acceptor, listener, resizes>>

\* Fault: every Close returns the slot.
CloseAgain_Release ==
  /\ closedConns > 0 /\ sem' = ReleaseWeight(sem, 1)
  /\ UNCHANGED <<realCapacity, resizing, acceptor, listener, conns, closedConns, resizes>>

\* Close of a connection that is closed: releaseOnce has run.
CloseAgain ==
  /\ closedConns > 0 /\ UNCHANGED listenVars

SetMaxCount(n) ==
  /\ resizes < MaxResizes /\ resizes' = resizes + 1
  /\ realCapacity' = n /\ resizing' = Append(resizing, n - realCapacity)
  /\ UNCHANGED <<sem, acceptor, listener, conns, closedConns>>

\* A goroutine of SetMaxCount runs.
Resize(i) ==
  /\ i \in DOMAIN resizing /\ resizing' = RemoveAt(resizing, i)
  /\ LET d == resizing[i]
     IN sem' = IF d > 0 THEN ReleaseWeight(sem, d)
               ELSE IF d < 0 THEN AcquireWeight(sem, "resize", -d)
               ELSE sem
  /\ UNCHANGED <<realCapacity, acceptor, listener, conns, closedConns, resizes>>

\* Close: the inner listener, then the context.
CloseListener ==
  /\ \/ listener = "open" /\ listener' = "closed"
     \/ listener = "closed" /\ listener' = "canceled"
  /\ UNCHANGED <<sem, realCapacity, resizing, acceptor, conns, closedConns, resizes>>

ListenNext ==
  \/ Acquire \/ Acquired \/ Connect \/ AcceptFails \/ CloseConn \/ CloseAgain
  \/ CloseListener
  \/ \E n \in Limits : SetMaxCount(n)
  \/ \E i \in DOMAIN resizing : Resize(i)

ListenSpec == ListenInit /\ [][ListenNext]_listenVars

-----------------------------------------------------------------------------

\* What goroutines of SetMaxCount still have to take.
ToTake ==
  MapThenSumSet(LAMBDA i : IF resizing[i] < 0 THEN -resizing[i] ELSE 0, DOMAIN resizing)
  + MapThenSumSet(LAMBDA i : IF sem.waiters[i].who = "resize" THEN sem.waiters[i].n ELSE 0,
                  DOMAIN sem.waiters)

ToGive == MapThenSumSet(LAMBDA i : IF resizing[i] > 0 THEN resizing[i] ELSE 0, DOMAIN resizing)

SlotHeld == IF acceptor = "accept" \/ (acceptor = "acquire" /\ Queued = {}) THEN 1 ELSE 0

(* semaphore.go:77, limitlistener.go:29: once the goroutines of SetMaxCount *)
(* have taken what they have to, however their calls raced with each other, *)
(* with the acceptor and with closing connections, no more connections than *)
(* the last limit are open; until then the excess is at most what they wait *)
(* for.  Closing a connection twice does not return its slot twice.         *)
WithinLimit == conns + SlotHeld <= realCapacity + ToTake

(* limitlistener.go:65,74: no slot is lost when Accept fails or when the    *)
(* listener is closed under an acceptor that waits for a slot or has just   *)
(* got one.                                                                 *)
NoSlotLost ==
  sem.cur <= MaxCapacity - realCapacity + ToGive - ToTake + conns + SlotHeld
=============================================================================
