----------------------------- MODULE SyncerProofs -----------------------------
(***************************************************************************)
(* Syncer implements ConfigStream, for every set of configurations and     *)
(* every capacity of the channel.  The invariant follows the snapshots on  *)
(* their way: from the consumer through the channel to the one that is     *)
(* about to be sent, each was read at the revision it carries, is not      *)
(* older than the one before it, and differs from it.                      *)
(***************************************************************************)
EXTENDS Syncer, FiniteSetTheorems, SequenceTheorems, TLAPS

Consumed == [config |-> seen, rev |-> seenAt]

Before(i) == IF i = 1 THEN Consumed ELSE ch[i - 1]

Last == IF Len(ch) = 0 THEN Consumed ELSE ch[Len(ch)]

\* The snapshot s was read at its revision, after and other than p.
Follows(p, s) ==
  /\ s.rev \in 1 .. Len(history) /\ s.config = history[s.rev]
  /\ p.rev <= s.rev /\ p.config # s.config

IInv ==
  /\ history \in Seq(Configs) /\ Len(history) >= 1
  /\ seen \in Configs /\ seenAt \in Nat /\ done \in BOOLEAN
  /\ data \in [config : Configs, rev : Nat] /\ data.rev <= Len(history)
  /\ pc \in {"first", "select", "send", "ended"}
  /\ ch \in Seq([config : Configs, rev : Nat])
  /\ \A i \in 1 .. Len(ch) : Follows(Before(i), ch[i])
  /\ pc = "send" => Follows(Last, data)
  /\ pc \in {"first", "select"} => data = Last
  /\ pc = "ended" => done

-----------------------------------------------------------------------------

(* isDataEqual, which compares sizes and then the pairs of one map only, is *)
(* equality of the contents.                                                *)
LEMMA Compare ==
  ASSUME NEW c \in Configs, NEW d \in Configs
  PROVE  isDataEqual(c, d) <=> c = d
<1>1. ASSUME isDataEqual(c, d) PROVE c = d
  <2>1. DOMAIN c \subseteq DOMAIN d
    BY <1>1 DEF isDataEqual
  <2>2. DOMAIN c = DOMAIN d
    BY <2>1, <1>1, SyncerAssumption, FS_Subset DEF isDataEqual
  <2>3. \A k \in DOMAIN c : c[k] = d[k]
    BY <1>1 DEF isDataEqual
  <2>4. c = [k \in DOMAIN c |-> c[k]] /\ d = [k \in DOMAIN d |-> d[k]]
    BY SyncerAssumption
  <2> QED BY <2>2, <2>3, <2>4, Zenon
<1>2. ASSUME c = d PROVE isDataEqual(c, d)
  BY <1>2 DEF isDataEqual
<1> QED BY <1>1, <1>2

\* newSyncer: nothing was pulled, sent or seen.
LEMMA Initial == Init => IInv
<1> SUFFICES ASSUME Init PROVE IInv
  OBVIOUS
<1>1. PICK c \in Configs : history = <<c>>
  BY DEF Init, StreamInit
<1>2. history \in Seq(Configs) /\ Len(history) = 1
  BY <1>1
<1>3. /\ seen = Empty /\ seenAt = 0 /\ done = FALSE /\ pc = "first" /\ ch = <<>>
      /\ data = [config |-> Empty, rev |-> 0] /\ Empty \in Configs
  BY SyncerAssumption DEF Init, StreamInit
<1>4. data = Last
  BY <1>3 DEF Last, Consumed
<1>5. ch \in Seq([config : Configs, rev : Nat]) /\ Len(ch) = 0
  BY <1>3
<1>6. /\ data \in [config : Configs, rev : Nat] /\ data.rev <= Len(history)
      /\ Len(history) >= 1 /\ seenAt \in Nat /\ seen \in Configs
  BY <1>2, <1>3
<1>7. \A i \in 1 .. Len(ch) : Follows(Before(i), ch[i])
  BY <1>5
<1>8. pc # "send" /\ pc # "ended" /\ pc \in {"first", "select", "send", "ended"}
  BY <1>3
<1> QED BY <1>2, <1>3, <1>4, <1>5, <1>6, <1>7, <1>8, Zenon DEF IInv

(* What a pull does to data, whatever made the goroutine pull.              *)
LEMMA PullStep ==
  ASSUME IInv, pc \in {"first", "select"}, PullCompareSend,
         UNCHANGED <<streamVars, ch>>
  PROVE  IInv'
<1> USE DEF IInv, streamVars
<1>1. Last' = Last /\ \A i \in 1 .. Len(ch) : Before(i)' = Before(i)
  BY DEF Last, Before, Consumed
<1>2. \A p, s : Follows(p, s)' = Follows(p, s)
  BY DEF Follows
<1>3. CASE pc' = "select" /\ data' = data
  BY <1>1, <1>2, <1>3
<1>4. CASE pc' = "send" /\ data' = [config |-> Store, rev |-> Len(history)]
           /\ data.config # Store
  <2>1. Store \in Configs /\ Len(history) \in 1 .. Len(history)
    BY DEF Store
  <2>2. Follows(data, data')
    BY <1>4, <2>1 DEF Follows, Store
  <2>3. Follows(Last, data')
    BY <2>2
  <2>4. data' \in [config : Configs, rev : Nat] /\ data'.rev <= Len(history)
    BY <1>4, <2>1
  <2> HIDE DEF PullCompareSend
  <2> QED BY <1>1, <1>2, <1>4, <2>3, <2>4
<1>5. data.config \in Configs /\ Store \in Configs
  BY DEF Store
<1> QED BY <1>3, <1>4, <1>5, Compare DEF PullCompareSend

\* A snapshot that enters the channel follows the last one in it.
LEMMA SendStep == IInv /\ Send => IInv'
<1> SUFFICES ASSUME IInv, Send PROVE IInv'
  OBVIOUS
<1> USE DEF IInv, Send, streamVars
<1>1. /\ ch' \in Seq([config : Configs, rev : Nat]) /\ Len(ch') = Len(ch) + 1
      /\ ch'[Len(ch) + 1] = data /\ \A i \in 1 .. Len(ch) : ch'[i] = ch[i]
      /\ Len(ch) \in Nat
  BY AppendProperties
<1>2. Last' = data
  BY <1>1 DEF Last
<1>3. \A p, s : Follows(p, s)' = Follows(p, s)
  BY DEF Follows
<1>4. \A i \in 1 .. Len(ch) : Before(i)' = Before(i)
  BY <1>1 DEF Before, Consumed
<1>5. \A i : i = Len(ch) + 1 => Before(i)' = Last
  BY <1>1 DEF Before, Last, Consumed
<1>6. \A i \in 1 .. Len(ch') : Follows(Before(i), ch[i])'
  BY <1>1, <1>3, <1>4, <1>5
<1> QED BY <1>1, <1>2, <1>6

\* Receiving from the channel is a delivery of the abstract stream.
LEMMA ReceiveStep == IInv /\ Receive => IInv' /\ Deliver
<1> SUFFICES ASSUME IInv, Receive PROVE IInv' /\ Deliver
  OBVIOUS
<1> USE DEF IInv, Receive
<1>1. /\ ch' \in Seq([config : Configs, rev : Nat]) /\ Len(ch') = Len(ch) - 1
      /\ \A i \in 1 .. Len(ch') : ch'[i] = ch[i + 1]
      /\ Len(ch) \in Nat \ {0}
  <2> DEFINE S == [config : Configs, rev : Nat]
  <2>1. ch \in Seq(S) /\ ch # <<>> /\ ch' = Tail(ch)
    OBVIOUS
  <2> HIDE DEF S
  <2>2. /\ Tail(ch) \in Seq(S) /\ Len(Tail(ch)) = Len(ch) - 1
        /\ \A i \in 1 .. Len(Tail(ch)) : Tail(ch)[i] = ch[i + 1]
    BY <2>1, HeadTailProperties
  <2>3. Len(ch) \in Nat \ {0}
    BY <2>1, EmptySeq
  <2> QED BY <2>1, <2>2, <2>3 DEF S
<1>a. ch[1] \in [config : Configs, rev : Nat] /\ Head(ch) = ch[1]
  <2>1. 1 \in 1 .. Len(ch)
    BY <1>1
  <2>2. ch[1] \in [config : Configs, rev : Nat]
    BY <2>1, ElementOfSeq
  <2> QED BY <2>2
<1>2. Consumed' = ch[1]
  BY <1>1, <1>a DEF Consumed
<1>3. Follows(Consumed, ch[1])
  BY <1>1 DEF Before
<1>4. Deliver
  BY <1>a, <1>3 DEF Deliver, Follows, Consumed
<1>5. \A p, s : Follows(p, s)' = Follows(p, s)
  BY DEF Follows
<1>6. \A i \in 1 .. Len(ch') : Before(i)' = ch[i]
  BY <1>1, <1>2 DEF Before
<1>7. \A i \in 1 .. Len(ch') : Follows(Before(i), ch[i])'
  BY <1>1, <1>5, <1>6 DEF Before
<1>8. Last' = Last
  <2>1. CASE Len(ch) = 1
    BY <1>1, <1>2, <2>1 DEF Last
  <2>2. CASE Len(ch) > 1
    <3>1. Len(ch') \in 1 .. Len(ch') /\ Len(ch') + 1 = Len(ch)
      BY <1>1, <2>2
    <3>2. ch'[Len(ch')] = ch[Len(ch)]
      BY <1>1, <3>1
    <3> QED BY <3>1, <3>2, <2>2 DEF Last
  <2> QED BY <1>1, <2>1, <2>2
<1> QED BY <1>1, <1>a, <1>4, <1>5, <1>7, <1>8

\* A write to the prefix makes no snapshot under way wrong.
LEMMA WriteStep == IInv /\ Write => IInv'
<1> SUFFICES ASSUME IInv, Write PROVE IInv'
  OBVIOUS
<1> USE DEF IInv, Write, Change
<1>1. /\ history' \in Seq(Configs) /\ Len(history') = Len(history) + 1
      /\ \A r \in 1 .. Len(history) : history'[r] = history[r]
  OBVIOUS
<1>2. Last' = Last /\ \A i \in 1 .. Len(ch) : Before(i)' = Before(i)
  BY DEF Last, Before, Consumed
<1>3. \A p, s : Follows(p, s) => Follows(p, s)'
  BY <1>1 DEF Follows
<1> QED BY <1>1, <1>2, <1>3

(* Every step keeps the invariant and is a step of the stream or leaves it. *)
LEMMA Step == IInv /\ [Next]_vars => IInv' /\ [StreamNext]_streamVars
<1> SUFFICES ASSUME IInv, [Next]_vars PROVE IInv' /\ [StreamNext]_streamVars
  OBVIOUS
<1>1. CASE FirstPull
  BY <1>1, PullStep DEF FirstPull, streamVars
<1>2. CASE OnTicker
  BY <1>2, PullStep DEF OnTicker, streamVars
<1>3. CASE OnResponse
  BY <1>3, PullStep DEF OnResponse, streamVars
<1>4. CASE Send
  BY <1>4, SendStep DEF Send, streamVars
<1>5. CASE Receive
  BY <1>5, ReceiveStep DEF StreamNext
<1>6. CASE Write
  BY <1>6, WriteStep DEF Write, StreamNext
<1>7. CASE UNCHANGED <<history, seen, seenAt, data, ch>> /\ done' \in BOOLEAN
           /\ (done => done') /\ (pc' = pc \/ (pc' = "ended" /\ done))
  <2>1. Last' = Last /\ \A i \in 1 .. Len(ch) : Before(i)' = Before(i)
    BY <1>7 DEF Last, Before, Consumed
  <2>2. \A p, s : Follows(p, s)' = Follows(p, s)
    BY <1>7 DEF Follows
  <2>3. IInv'
    BY <1>7, <2>1, <2>2 DEF IInv
  <2>4. [StreamNext]_streamVars
    BY <1>7 DEF IInv, streamVars, StreamNext, CloseStream
  <2> QED BY <2>3, <2>4
<1>8. CASE ReceiveClosed
  <2>1. UNCHANGED <<history, done, data, ch, pc>> /\ seen' = Empty
        /\ ch = <<>> /\ pc = "ended" /\ seenAt' = seenAt
    BY <1>8 DEF ReceiveClosed, EndOfStream, syncerVars
  <2>2. IInv'
    BY <2>1, SyncerAssumption DEF IInv
  <2> QED BY <1>8, <2>2 DEF StreamNext, ReceiveClosed
<1>9. CASE OnCanceled \/ Cancel \/ UNCHANGED vars
  BY <1>7, <1>9 DEF IInv, OnCanceled, Cancel, vars, streamVars, syncerVars
<1>10. CASE Return
  BY <1>7, <1>10 DEF IInv, Return, streamVars
<1>11. CASE Close
  BY <1>7, <1>11 DEF IInv, Close, CloseStream, syncerVars
<1> QED
  BY <1>1, <1>2, <1>3, <1>4, <1>5, <1>6, <1>8, <1>9, <1>10, <1>11 DEF Next

\* IInv holds in every reachable state of the syncer.
LEMMA Invariance == Spec => []IInv
<1>1. Init => IInv
  BY Initial
<1>2. IInv /\ [Next]_vars => IInv'
  BY Step
<1> QED BY <1>1, <1>2, PTL DEF Spec

(* Whatever etcd, the watch and the ticker do, the consumer of SyncPrefix   *)
(* sees the abstract stream: never an older snapshot after a newer one, and *)
(* never the same contents twice in a row.                                  *)
THEOREM Refinement == Spec => ImplementsStream
<1>1. Init => StreamInit
  BY DEF Init
<1>2. IInv /\ [Next]_vars => [StreamNext]_streamVars
  BY Step
<1> QED BY <1>1, <1>2, Invariance, PTL DEF Spec, ImplementsStream, StreamSpec

(* The comparison of the syncer is exact in every reachable state.          *)
THEOREM ComparisonExact == Spec => []ComparesContents
<1>1. IInv => ComparesContents
  BY Compare DEF IInv, ComparesContents
<1> QED BY <1>1, Invariance, PTL
=============================================================================
