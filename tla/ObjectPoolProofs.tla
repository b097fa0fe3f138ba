--------------------------- MODULE ObjectPoolProofs ---------------------------
(***************************************************************************)
(* The objects of a pool are counted exactly, for any number of callers,   *)
(* any capacity and any maximum an update may set; and the channel never   *)
(* has to take more objects than the largest maximum there was.            *)
(*                                                                         *)
(* Accounted is inductive: SizeExact has to know that a caller that is     *)
(* signalled holds no object (it waits), and the bound on size that only   *)
(* one caller at a time is between its look at p.size and the increment.   *)
(***************************************************************************)
EXTENDS ObjectPool, FiniteSetTheorems, SequenceTheorems, TLAPS

Phases ==
  {"idle", "get", "lock", "look", "create", "sleep", "wait", "check", "use",
   "drop", "dropput", "signal", "signalput"}

PoolTypeOK ==
  /\ maxSize \in Nat /\ largest \in Nat /\ size \in Int /\ store \in Nat
  /\ phase \in [Callers -> Phases] /\ waiting \in Seq(Callers)

WaitersWait ==
  /\ \A i \in 1 .. Len(waiting) : phase[waiting[i]] = "wait"
  /\ \A i, j \in 1 .. Len(waiting) : waiting[i] = waiting[j] => i = j

Accounted == PoolTypeOK /\ WaitersWait /\ SizeExact

OneLocked == \A c, d \in Callers : phase[c] \in Locked /\ phase[d] \in Locked => c = d

Bounded ==
  /\ OneLocked /\ maxSize <= largest /\ size <= largest
  /\ \A c \in Callers : phase[c] = "create" => size < largest

USE DEF HoldPhases

-----------------------------------------------------------------------------

(* A caller that gets an object is one holder more.                         *)
LEMMA HolderGained ==
  ASSUME phase \in [Callers -> Phases], NEW c \in Callers, phase[c] \notin HoldPhases,
         NEW p \in HoldPhases, phase' = [phase EXCEPT ![c] = p]
  PROVE  Cardinality(Holders)' = Cardinality(Holders) + 1 /\ Cardinality(Holders) \in Nat
<1>1. Holders' = Holders \cup {c} /\ c \notin Holders
  BY DEF Holders, Phases
<1>2. IsFiniteSet(Holders)
  BY FS_Subset, PoolAssumption DEF Holders
<1> QED
  BY <1>1, <1>2, FS_AddElement, FS_CardinalityType

(* A caller that gives its object away is one holder less.                  *)
LEMMA HolderLost ==
  ASSUME phase \in [Callers -> Phases], NEW c \in Callers, phase[c] \in HoldPhases,
         NEW p \in Phases \ HoldPhases, phase' = [phase EXCEPT ![c] = p]
  PROVE  Cardinality(Holders)' = Cardinality(Holders) - 1 /\ Cardinality(Holders) \in Nat
<1>1. Holders' = Holders \ {c} /\ c \in Holders
  BY DEF Holders, Phases
<1>2. IsFiniteSet(Holders)
  BY FS_Subset, PoolAssumption DEF Holders
<1> QED
  BY <1>1, <1>2, FS_RemoveElement, FS_CardinalityType

(* Steps between phases of the same sort do not change the holders.         *)
LEMMA HoldersSame ==
  ASSUME phase \in [Callers -> Phases], phase' \in [Callers -> Phases],
         \A d \in Callers : phase'[d] \in HoldPhases <=> phase[d] \in HoldPhases
  PROVE  Holders' = Holders
BY DEF Holders

(* The waiters are left alone by a caller that does not wait.               *)
LEMMA WaitersKept ==
  ASSUME PoolTypeOK, WaitersWait, NEW c \in Callers, phase[c] # "wait",
         NEW p \in Phases, phase' = [phase EXCEPT ![c] = p], waiting' = waiting
  PROVE  WaitersWait'
BY DEF PoolTypeOK, WaitersWait

-----------------------------------------------------------------------------

(* Every step of a caller keeps the account.                                *)
LEMMA AccountedStep ==
  ASSUME Accounted, [PoolNext]_poolVars
  PROVE  Accounted'
<1> USE DEF Accounted
<1>1. ASSUME NEW n \in MaxSizes, SetMaxSize(n)
      PROVE  Accounted'
  BY <1>1, PoolAssumption DEF SetMaxSize, PoolTypeOK, WaitersWait, SizeExact, Holders
<1>2. ASSUME NEW c \in Callers, NEW p \in Phases, Goto(c, p),
             phase[c] # "wait", p \in HoldPhases <=> phase[c] \in HoldPhases,
             waiting' = waiting, size' = size, store' = store, maxSize' = maxSize, largest' = largest
      PROVE  Accounted'
  <2>1. PoolTypeOK'
    BY <1>2 DEF PoolTypeOK, Goto
  <2>2. WaitersWait'
    BY <1>2, WaitersKept DEF PoolTypeOK, Goto
  <2>3. Holders' = Holders
    BY <1>2, <2>1, HoldersSame DEF PoolTypeOK, Goto
  <2> QED
    BY <1>2, <2>1, <2>2, <2>3 DEF SizeExact
<1>3. ASSUME NEW c \in Callers, NEW p \in HoldPhases, Goto(c, p), phase[c] # "wait",
             phase[c] \notin HoldPhases, waiting' = waiting, maxSize' = maxSize, largest' = largest,
             \/ store > 0 /\ store' = store - 1 /\ size' = size
             \/ store' = store /\ size' = size + 1
      PROVE  Accounted'
  <2>1. PoolTypeOK' /\ p \in Phases
    BY <1>3 DEF PoolTypeOK, Goto, Phases
  <2>2. WaitersWait'
    BY <1>3, <2>1, WaitersKept DEF PoolTypeOK, Goto
  <2>3. Cardinality(Holders)' = Cardinality(Holders) + 1 /\ Cardinality(Holders) \in Nat
    BY <1>3, HolderGained DEF PoolTypeOK, Goto
  <2> QED
    BY <1>3, <2>1, <2>2, <2>3 DEF SizeExact, PoolTypeOK
<1>4. ASSUME NEW c \in Callers, NEW p \in Phases \ HoldPhases, Goto(c, p),
             phase[c] \in HoldPhases, waiting' = waiting, maxSize' = maxSize, largest' = largest,
             \/ store' = store + 1 /\ size' = size
             \/ store' = store /\ size' = size - 1
      PROVE  Accounted'
  <2>1. PoolTypeOK'
    BY <1>4 DEF PoolTypeOK, Goto, Phases
  <2>2. WaitersWait'
    BY <1>4, WaitersKept DEF PoolTypeOK, Goto
  <2>3. Cardinality(Holders)' = Cardinality(Holders) - 1 /\ Cardinality(Holders) \in Nat
    BY <1>4, HolderLost DEF PoolTypeOK, Goto
  <2> QED
    BY <1>4, <2>1, <2>2, <2>3 DEF SizeExact, PoolTypeOK
<1>5. ASSUME NEW c \in Callers, Get(c) PROVE Accounted'
  BY <1>5, <1>2 DEF Get, Phases
<1>6. ASSUME NEW c \in Callers, fastGet(c) PROVE Accounted'
  <2>1. CASE store > 0 /\ store' = store - 1 /\ Goto(c, "check")
    BY <1>6, <2>1, <1>3 DEF fastGet
  <2>2. CASE Goto(c, "lock") /\ store' = store
    BY <1>6, <2>2, <1>2 DEF fastGet, Phases
  <2> QED
    BY <1>6, <2>1, <2>2 DEF fastGet
<1>7. ASSUME NEW c \in Callers, Lock(c) PROVE Accounted'
  BY <1>7, <1>2 DEF Lock, Phases
<1>8. ASSUME NEW c \in Callers, Look(c) PROVE Accounted'
  <2>1. CASE store > 0 /\ store' = store - 1 /\ Goto(c, "check")
    BY <1>8, <2>1, <1>3 DEF Look
  <2>2. CASE Goto(c, "idle") /\ store' = store
    BY <1>8, <2>2, <1>2 DEF Look, Phases
  <2>3. CASE Goto(c, "create") /\ store' = store
    BY <1>8, <2>3, <1>2 DEF Look, Phases
  <2>4. CASE Goto(c, "sleep") /\ store' = store
    BY <1>8, <2>4, <1>2 DEF Look, Phases
  <2> QED
    BY <1>8, <2>1, <2>2, <2>3, <2>4 DEF Look
<1>9. ASSUME NEW c \in Callers, Create(c) PROVE Accounted'
  <2>1. CASE size' = size + 1 /\ Goto(c, "check")
    BY <1>9, <2>1, <1>3 DEF Create
  <2>2. CASE size' = size /\ Goto(c, "sleep")
    BY <1>9, <2>2, <1>2 DEF Create, Phases
  <2> QED
    BY <1>9, <2>1, <2>2 DEF Create
<1>10. ASSUME NEW c \in Callers, Sleep(c) PROVE Accounted'
  <2>1. PoolTypeOK'
    BY <1>10 DEF Sleep, Goto, PoolTypeOK, Phases
  <2>2. Holders' = Holders
    BY <1>10, <2>1, HoldersSame DEF Sleep, Goto, PoolTypeOK
  <2>3. /\ Len(waiting') = Len(waiting) + 1
        /\ \A i \in 1 .. Len(waiting) : waiting'[i] = waiting[i]
        /\ waiting'[Len(waiting) + 1] = c
    BY <1>10, AppendProperties DEF Sleep, PoolTypeOK
  <2>4. \A i \in 1 .. Len(waiting) : waiting[i] # c /\ waiting[i] \in Callers
    BY <1>10 DEF Sleep, WaitersWait, PoolTypeOK
  <2>5. Len(waiting) \in Nat
    BY DEF PoolTypeOK
  <2>6. WaitersWait'
    BY <1>10, <2>3, <2>4, <2>5 DEF Sleep, Goto, WaitersWait, PoolTypeOK
  <2> QED
    BY <1>10, <2>1, <2>2, <2>6 DEF Sleep, SizeExact
<1>11. ASSUME NEW c \in Callers, CheckHealth(c) PROVE Accounted'
  BY <1>11, <1>2 DEF CheckHealth, Phases
<1>12. ASSUME NEW c \in Callers, Put(c) PROVE Accounted'
  <2>1. CASE store' = store + 1 /\ Goto(c, "signalput")
    BY <1>12, <2>1, <1>4 DEF Put, Phases
  <2>2. CASE store' = store /\ Goto(c, "dropput")
    BY <1>12, <2>2, <1>2 DEF Put, Phases
  <2> QED
    BY <1>12, <2>1, <2>2 DEF Put
<1>13. ASSUME NEW c \in Callers, Drop(c) PROVE Accounted'
  BY <1>13, <1>4 DEF Drop, Phases
<1>14. ASSUME NEW c \in Callers, Signal(c) PROVE Accounted'
  <2>1. CASE waiting = <<>>
    BY <1>14, <2>1, <1>2 DEF Signal, Phases
  <2>2. CASE waiting # <<>>
    <3> DEFINE h == Head(waiting)
               p == IF phase[c] = "signal" THEN "get" ELSE "idle"
    <3>1. /\ h = waiting[1] /\ h \in Callers /\ waiting' = Tail(waiting)
          /\ Len(waiting) \in Nat \ {0} /\ Len(waiting') = Len(waiting) - 1
          /\ waiting' \in Seq(Callers)
          /\ \A i \in 1 .. Len(waiting') : waiting'[i] = waiting[i + 1]
      <4>1. waiting \in Seq(Callers) /\ waiting' = Tail(waiting)
        BY <1>14, <2>2 DEF Signal, PoolTypeOK
      <4>2. Len(waiting) \in Nat \ {0}
        BY <4>1, <2>2, EmptySeq
      <4>3. /\ h = waiting[1] /\ h \in Callers /\ Tail(waiting) \in Seq(Callers)
            /\ Len(Tail(waiting)) = Len(waiting) - 1
            /\ \A i \in 1 .. Len(Tail(waiting)) : Tail(waiting)[i] = waiting[i + 1]
        BY <4>1, <2>2, HeadTailProperties
      <4> QED
        BY <4>1, <4>2, <4>3
    <3>2. phase[h] = "wait" /\ h # c /\ phase[c] \in {"signal", "signalput"}
      BY <1>14, <3>1 DEF WaitersWait, Signal
    <3>3. phase' = [phase EXCEPT ![c] = p, ![h] = "lock"] /\ p \in {"get", "idle"}
      BY <1>14, <2>2 DEF Signal
    <3> HIDE DEF h, p
    <3>4. PoolTypeOK'
      BY <1>14, <3>1, <3>3 DEF Signal, PoolTypeOK, Phases
    <3>5. Holders' = Holders
      BY <3>1, <3>2, <3>3, <3>4, HoldersSame DEF PoolTypeOK
    <3>6. \A i \in 1 .. Len(waiting') :
             i + 1 \in 1 .. Len(waiting) /\ waiting[i + 1] # h /\ phase[waiting[i + 1]] = "wait"
      BY <3>1 DEF WaitersWait
    <3>7. WaitersWait'
      <4>1. ASSUME NEW i \in 1 .. Len(waiting') PROVE phase'[waiting'[i]] = "wait"
        BY <4>1, <3>1, <3>2, <3>3, <3>6, ElementOfSeq DEF PoolTypeOK
      <4>2. ASSUME NEW i \in 1 .. Len(waiting'), NEW j \in 1 .. Len(waiting'),
                   waiting'[i] = waiting'[j]
            PROVE  i = j
        BY <4>2, <3>1, <3>6 DEF WaitersWait
      <4> QED
        BY <4>1, <4>2 DEF WaitersWait
    <3> QED
      BY <1>14, <3>4, <3>5, <3>7 DEF Signal, SizeExact
  <2> QED
    BY <2>1, <2>2
<1>15. ASSUME NEW c \in Callers, Cancel(c) PROVE Accounted'
  BY <1>15 DEF Cancel, PoolTypeOK, WaitersWait, SizeExact, Holders
<1>16. ASSUME NEW c \in Callers, Broadcast(c) PROVE Accounted'
  <2>1. PoolTypeOK' /\ Len(waiting') = 0
    BY <1>16, EmptySeq DEF Broadcast, PoolTypeOK, Phases
  <2>2. Holders' = Holders
    BY <1>16, <2>1, HoldersSame DEF Broadcast, PoolTypeOK
  <2>3. WaitersWait'
    BY <2>1 DEF WaitersWait
  <2> QED
    BY <1>16, <2>1, <2>2, <2>3 DEF Broadcast, SizeExact
<1>17. CASE UNCHANGED poolVars
  BY <1>17 DEF poolVars, PoolTypeOK, WaitersWait, SizeExact, Holders
<1> QED
  BY <1>1, <1>5, <1>6, <1>7, <1>8, <1>9, <1>10, <1>11, <1>12, <1>13, <1>14, <1>15, <1>16, <1>17
  DEF PoolNext, CallerStep

(* The initial state is accounted for.                                      *)
LEMMA InitAccounted == PoolInit => Accounted
<1> SUFFICES ASSUME PoolInit PROVE Accounted
  OBVIOUS
<1>1. Holders = {}
  BY DEF PoolInit, Holders
<1>2. PoolTypeOK /\ Len(waiting) = 0
  BY PoolAssumption, EmptySeq DEF PoolInit, PoolTypeOK, Phases
<1>3. WaitersWait
  BY <1>2 DEF WaitersWait
<1>4. SizeExact
  BY <1>1, <1>2, FS_EmptySet DEF SizeExact, PoolInit, PoolTypeOK
<1> QED
  BY <1>2, <1>3, <1>4 DEF Accounted

(* objectpool.go:146,184,202: p.size is exactly the number of objects, in   *)
(* the channel or with a caller.                                            *)
THEOREM SizeIsExact == PoolSpec => []SizeExact
<1>1. PoolInit => Accounted
  BY InitAccounted
<1>2. Accounted /\ [PoolNext]_poolVars => Accounted'
  BY AccountedStep
<1>3. Accounted => SizeExact
  BY DEF Accounted
<1> QED
  BY <1>1, <1>2, <1>3, PTL DEF PoolSpec

-----------------------------------------------------------------------------

(* A caller about to create an object has seen room for it, and the lock    *)
(* keeps the room until it has counted the object.                          *)
LEMMA BoundedStep ==
  ASSUME Accounted, Bounded, [PoolNext]_poolVars
  PROVE  Bounded'
<1> USE DEF Accounted, PoolTypeOK
<1>0. \A n \in MaxSizes : n \in Nat
  BY PoolAssumption
<1>1. ASSUME NEW n \in MaxSizes, SetMaxSize(n) PROVE Bounded'
  BY <1>1, <1>0 DEF SetMaxSize, Bounded, OneLocked
<1>2. ASSUME NEW c \in Callers, NEW p \in Phases, Goto(c, p), p # "create",
             p \in Locked => phase[c] \in Locked \/ LockFree,
             size' <= size, size' \in Int, maxSize' = maxSize, largest' = largest
      PROVE  Bounded'
  <2>1. \A d \in Callers \ {c} : phase'[d] = phase[d]
    BY <1>2 DEF Goto
  <2>2. phase'[c] = p
    BY <1>2 DEF Goto
  <2>3. OneLocked'
    BY <1>2, <2>1, <2>2 DEF Bounded, OneLocked, LockFree
  <2>4. \A d \in Callers : phase'[d] = "create" => size' < largest'
    BY <1>0, <1>2, <2>1, <2>2 DEF Bounded
  <2> QED
    BY <1>0, <1>2, <2>3, <2>4 DEF Bounded
<1>3. ASSUME NEW c \in Callers, Look(c) PROVE Bounded'
  <2>1. CASE Goto(c, "idle") \/ Goto(c, "check") \/ Goto(c, "sleep")
    BY <1>3, <2>1, <1>2 DEF Look, Phases, Locked
  <2>2. CASE Goto(c, "create") /\ size < maxSize
    <3>1. \A d \in Callers \ {c} : phase'[d] = phase[d]
      BY <2>2 DEF Goto
    <3>2. phase'[c] = "create" /\ phase[c] = "look"
      BY <1>3, <2>2 DEF Goto, Look
    <3>3. OneLocked'
      BY <3>1, <3>2 DEF Bounded, OneLocked, Locked
    <3> QED
      BY <1>0, <1>3, <2>2, <3>3 DEF Bounded, Look
  <2> QED
    BY <1>3, <2>1, <2>2 DEF Look
<1>4. ASSUME NEW c \in Callers, Create(c) PROVE Bounded'
  <2>1. CASE size' = size /\ Goto(c, "sleep")
    BY <1>4, <2>1, <1>2 DEF Create, Phases, Locked
  <2>2. CASE size' = size + 1 /\ Goto(c, "check")
    <3>1. \A d \in Callers \ {c} : phase'[d] = phase[d]
      BY <2>2 DEF Goto
    <3>2. phase'[c] = "check" /\ phase[c] = "create"
      BY <1>4, <2>2 DEF Goto, Create
    <3>3. OneLocked'
      BY <3>1, <3>2 DEF Bounded, OneLocked, Locked
    <3>4. \A d \in Callers : phase'[d] # "create"
      BY <3>1, <3>2 DEF Bounded, OneLocked, Locked
    <3>5. size < largest
      BY <3>2 DEF Bounded
    <3> QED
      BY <1>0, <1>4, <2>2, <3>3, <3>4, <3>5 DEF Bounded, Create
  <2> QED
    BY <1>4, <2>1, <2>2 DEF Create
<1>5. ASSUME NEW c \in Callers, Signal(c) PROVE Bounded'
  <2>1. CASE waiting = <<>>
    BY <1>5, <2>1, <1>2 DEF Signal, Phases, Locked
  <2>2. CASE waiting # <<>>
    <3>1. \A d \in Callers : phase'[d] \in {phase[d], "get", "idle", "lock"}
      BY <1>5, <2>2 DEF Signal
    <3>2. OneLocked'
      BY <3>1 DEF Bounded, OneLocked, Locked
    <3>3. \A d \in Callers : phase'[d] = "create" => phase[d] = "create"
      BY <3>1
    <3> QED
      BY <1>5, <3>2, <3>3 DEF Bounded, Signal
  <2> QED
    BY <2>1, <2>2
<1>6. ASSUME NEW c \in Callers, Broadcast(c) PROVE Bounded'
  <2>1. \A d \in Callers : phase'[d] \in {phase[d], "lock"}
    BY <1>6 DEF Broadcast
  <2>2. OneLocked'
    BY <2>1 DEF Bounded, OneLocked, Locked
  <2>3. \A d \in Callers : phase'[d] = "create" => phase[d] = "create"
    BY <2>1
  <2> QED
    BY <1>6, <2>2, <2>3 DEF Bounded, Broadcast
<1>7. ASSUME NEW c \in Callers, Get(c) \/ fastGet(c) \/ Lock(c) PROVE Bounded'
  <2>1. CASE Get(c)
    BY <2>1, <1>2 DEF Get, Phases, Locked
  <2>2. CASE fastGet(c)
    BY <2>2, <1>2 DEF fastGet, Phases, Locked
  <2>3. CASE Lock(c)
    BY <2>3, <1>2 DEF Lock, Phases, Locked
  <2> QED
    BY <1>7, <2>1, <2>2, <2>3
<1>8. ASSUME NEW c \in Callers, Sleep(c) \/ CheckHealth(c) \/ Put(c) PROVE Bounded'
  <2>1. CASE Sleep(c)
    BY <2>1, <1>2 DEF Sleep, Phases, Locked
  <2>2. CASE CheckHealth(c)
    BY <2>2, <1>2 DEF CheckHealth, Phases, Locked
  <2>3. CASE Put(c)
    BY <2>3, <1>2 DEF Put, Phases, Locked
  <2> QED
    BY <1>8, <2>1, <2>2, <2>3
<1>9. ASSUME NEW c \in Callers, Drop(c) PROVE Bounded'
  BY <1>9, <1>2 DEF Drop, Phases, Locked
<1>10. ASSUME NEW c \in Callers, Cancel(c) PROVE Bounded'
  BY <1>10 DEF Cancel, Bounded, OneLocked
<1>11. CASE UNCHANGED poolVars
  BY <1>11 DEF poolVars, Bounded, OneLocked
<1> QED
  BY <1>1, <1>3, <1>4, <1>5, <1>6, <1>7, <1>8, <1>9, <1>10, <1>11 DEF PoolNext, CallerStep

(* objectpool.go:146,202: whatever maxima the updates set, an object that   *)
(* is returned finds fewer objects in the channel than the largest of them. *)
THEOREM PutHasRoom == PoolSpec => []PutFindsRoom
<1>1. PoolInit => Accounted /\ Bounded
  BY InitAccounted, PoolAssumption DEF PoolInit, Bounded, OneLocked, Locked
<1>2. Accounted /\ Bounded /\ [PoolNext]_poolVars => Accounted' /\ Bounded'
  BY AccountedStep, BoundedStep
<1>3. Accounted /\ Bounded => PutFindsRoom
  <2> SUFFICES ASSUME Accounted, Bounded, NEW c \in Callers, phase[c] = "use"
               PROVE  store < largest
    BY DEF PutFindsRoom
  <2>1. c \in Holders
    BY DEF Holders
  <2>2. IsFiniteSet(Holders)
    BY FS_Subset, PoolAssumption DEF Holders
  <2>3. Cardinality(Holders) \in Nat /\ Cardinality(Holders) # 0
    BY <2>1, <2>2, FS_CardinalityType, FS_EmptySet
  <2> QED
    BY <2>3 DEF Accounted, PoolTypeOK, SizeExact, Bounded
<1> QED
  BY <1>1, <1>2, <1>3, PTL DEF PoolSpec
=============================================================================
