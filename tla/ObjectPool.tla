------------------------------ MODULE ObjectPool ------------------------------
(***************************************************************************)
(* pkg/util/objectpool: the pool of connections of the gRPC proxy, for one *)
(* target.  A caller takes an object from the channel p.store, or creates  *)
(* one while the pool is not full, or waits on a condition variable.       *)
(*                                                                         *)
(* Objects are alike, so the channel is the number of them; whether one is *)
(* healthy is decided when it is looked at.  Put and putUnhealthyObject    *)
(* signal without the lock of the condition, and so does the goroutine     *)
(* that watches the context of a caller in slowGet.  What a caller does    *)
(* while it holds the lock is interleaved with these.                      *)
(*                                                                         *)
(* The phases of a caller:                                                 *)
(*   "idle"                                                                *)
(*   "get"     in Get, before fastGet                                      *)
(*   "lock"    in slowGet, waits for cond.L                                *)
(*   "look"    holds cond.L, before the select                             *)
(*   "create"  holds cond.L, the pool is not full                          *)
(*   "sleep"   holds cond.L, about to call Wait                            *)
(*   "wait"    in Wait                                                     *)
(*   "check"   has an object, before HealthCheck                           *)
(*   "use"     has an object                                               *)
(*   "drop", "dropput"      in putUnhealthyObject, from Get, from Put      *)
(*   "signal", "signalput"  about to signal, in Get, in Put                *)
(***************************************************************************)
EXTENDS Integers, Sequences, FiniteSets

CONSTANTS
  Callers,
  Capacity,      \* spec.MaxSize when the pool was made: the capacity of p.store
  InitSize,      \* spec.InitSize, the objects made with the pool
  MaxSizes       \* what an update of the proxy may set spec.MaxSize to

ASSUME PoolAssumption ==
  /\ Capacity \in Nat \ {0} /\ InitSize \in 0 .. Capacity /\ MaxSizes \subseteq Nat \ {0}
  /\ IsFiniteSet(Callers)

VARIABLES
  maxSize,       \* spec.MaxSize, which the generations of the proxy share
  largest,       \* history: the largest value it had
  size,          \* p.size
  store,         \* the objects in p.store
  phase,
  waiting,       \* the callers in cond.Wait, the first to be woken first
  canceled,      \* the callers whose context is done
  rung           \* those of them for whom Broadcast was called

poolVars == <<maxSize, largest, size, store, phase, waiting, canceled, rung>>

SlowPhases == {"lock", "look", "create", "sleep", "wait"}

Locked == {"look", "create", "sleep"}

LockFree == \A c \in Callers : phase[c] \notin Locked

Goto(c, p) == phase' = [phase EXCEPT ![c] = p]

-----------------------------------------------------------------------------

\* NewWithSpec; init may fail for some objects.
PoolInit ==
  /\ maxSize = Capacity /\ largest = Capacity /\ size \in 0 .. InitSize /\ store = size
  /\ phase = [c \in Callers |-> "idle"]
  /\ waiting = <<>> /\ canceled = {} /\ rung = {}

\* Get is called, with a context of its own.
Get(c) ==
  /\ phase[c] = "idle" /\ Goto(c, "get")
  /\ canceled' = canceled \ {c} /\ rung' = rung \ {c}
  /\ UNCHANGED <<maxSize, largest, size, store, waiting>>

fastGet(c) ==
  /\ phase[c] = "get"
  /\ \/ store > 0 /\ store' = store - 1 /\ Goto(c, "check") /\ UNCHANGED rung
     \/ store = 0 /\ Goto(c, "lock") /\ rung' = rung \ {c} /\ UNCHANGED store
  /\ UNCHANGED <<maxSize, largest, size, waiting, canceled>>

Lock(c) ==
  /\ phase[c] = "lock" /\ LockFree /\ Goto(c, "look")
  /\ UNCHANGED <<maxSize, largest, size, store, waiting, canceled, rung>>

\* Fault: one object too many is created.
Look_OneMore(c) ==
  /\ phase[c] = "look"
  /\ \/ c \in canceled /\ Goto(c, "idle") /\ UNCHANGED store
     \/ store > 0 /\ store' = store - 1 /\ Goto(c, "check")
     \/ /\ c \notin canceled /\ store = 0 /\ UNCHANGED store
        /\ Goto(c, IF size <= maxSize THEN "create" ELSE "sleep")
  /\ UNCHANGED <<maxSize, largest, size, waiting, canceled, rung>>

\* The select of slowGet, and the comparison with MaxSize after it.
Look(c) ==
  /\ phase[c] = "look"
  /\ \/ c \in canceled /\ Goto(c, "idle") /\ UNCHANGED store
     \/ store > 0 /\ store' = store - 1 /\ Goto(c, "check")
     \/ /\ c \notin canceled /\ store = 0 /\ UNCHANGED store
        /\ Goto(c, IF size < maxSize THEN "create" ELSE "sleep")
  /\ UNCHANGED <<maxSize, largest, size, waiting, canceled, rung>>

\* Fault: an object that was dialled is not counted.
Create_Uncounted(c) ==
  /\ phase[c] = "create" /\ (Goto(c, "check") \/ Goto(c, "sleep"))
  /\ UNCHANGED <<maxSize, largest, size, store, waiting, canceled, rung>>

\* new is called, with the lock held, and may fail.
Create(c) ==
  /\ phase[c] = "create"
  /\ \/ size' = size + 1 /\ Goto(c, "check")
     \/ Goto(c, "sleep") /\ UNCHANGED size
  /\ UNCHANGED <<maxSize, largest, store, waiting, canceled, rung>>

Sleep(c) ==
  /\ phase[c] = "sleep" /\ Goto(c, "wait") /\ waiting' = Append(waiting, c)
  /\ UNCHANGED <<maxSize, largest, size, store, canceled, rung>>

\* HealthCheck in Get.
CheckHealth(c) ==
  /\ phase[c] = "check" /\ (Goto(c, "use") \/ Goto(c, "drop"))
  /\ UNCHANGED <<maxSize, largest, size, store, waiting, canceled, rung>>

\* Put, with its HealthCheck.
Put(c) ==
  /\ phase[c] = "use"
  /\ \/ store < Capacity /\ store' = store + 1 /\ Goto(c, "signalput")
     \/ Goto(c, "dropput") /\ UNCHANGED store
  /\ UNCHANGED <<maxSize, largest, size, waiting, canceled, rung>>

\* putUnhealthyObject, under the lock.
Drop(c) ==
  /\ phase[c] \in {"drop", "dropput"} /\ LockFree /\ size' = size - 1
  /\ Goto(c, IF phase[c] = "drop" THEN "signal" ELSE "signalput")
  /\ UNCHANGED <<maxSize, largest, store, waiting, canceled, rung>>

\* Signal wakes the caller that waits longest.
Signal(c) ==
  LET next == IF phase[c] = "signal" THEN "get" ELSE "idle" IN
  /\ phase[c] \in {"signal", "signalput"}
  /\ IF waiting = <<>> THEN Goto(c, next) /\ UNCHANGED waiting
     ELSE /\ phase' = [phase EXCEPT ![c] = next, ![Head(waiting)] = "lock"]
          /\ waiting' = Tail(waiting)
  /\ UNCHANGED <<maxSize, largest, size, store, canceled, rung>>

\* The context of a caller in slowGet is done.
Cancel(c) ==
  /\ phase[c] \in SlowPhases /\ c \notin canceled /\ canceled' = canceled \cup {c}
  /\ UNCHANGED <<maxSize, largest, size, store, phase, waiting, rung>>

\* The goroutine that watches the context wakes every caller.
Broadcast(c) ==
  /\ c \in canceled \ rung /\ phase[c] \in SlowPhases /\ rung' = rung \cup {c}
  /\ phase' = [d \in Callers |-> IF phase[d] = "wait" THEN "lock" ELSE phase[d]]
  /\ waiting' = <<>>
  /\ UNCHANGED <<maxSize, largest, size, store, canceled>>

\* Inherit of the proxy: the pool is taken over, with the new maximum.
SetMaxSize(n) ==
  /\ maxSize' = n /\ largest' = IF n > largest THEN n ELSE largest
  /\ UNCHANGED <<size, store, phase, waiting, canceled, rung>>

CallerStep(c) ==
  \/ fastGet(c) \/ Lock(c) \/ Look(c) \/ Create(c) \/ Sleep(c) \/ CheckHealth(c)
  \/ Put(c) \/ Drop(c) \/ Signal(c) \/ Broadcast(c)

PoolNext ==
  \/ \E n \in MaxSizes : SetMaxSize(n)
  \/ \E c \in Callers : Get(c) \/ Cancel(c) \/ CallerStep(c)

PoolSpec == PoolInit /\ [][PoolNext]_poolVars

(* Every goroutine runs; the lock is fair (sync.Mutex hands over to a       *)
(* goroutine that waits for 1 ms).                                          *)
PoolFairness ==
  \A c \in Callers : WF_poolVars(CallerStep(c)) /\ SF_poolVars(Lock(c) \/ Drop(c))

PoolFairSpec == PoolSpec /\ PoolFairness

-----------------------------------------------------------------------------

HoldPhases == {"check", "use", "drop", "dropput"}

Holders == {c \in Callers : phase[c] \in HoldPhases}

(* objectpool.go:146,184,202: p.size counts the objects that exist, in the  *)
(* channel or with a caller, although the channel is used without the lock  *)
(* that guards p.size; an object is never forgotten or counted twice.       *)
SizeExact == size = store + Cardinality(Holders)

(* objectpool.go:146,202: when a caller returns an object, fewer objects    *)
(* than the largest maximum there was are in the channel, although an       *)
(* update may have lowered the maximum since.  So Put finds the channel     *)
(* full, and blocks, only after an update raised the maximum above the      *)
(* capacity the channel was made with.                                      *)
PutFindsRoom == \A c \in Callers : phase[c] = "use" => store < largest

(* objectpool.go:117-118, "we need to watch ctx.Done in another goroutine,  *)
(* so that we can stop the slow path when the context is done".             *)
SlowPathStops ==
  \A c \in Callers : (phase[c] \in SlowPhases /\ c \in canceled) ~> phase[c] \notin SlowPhases
=============================================================================
