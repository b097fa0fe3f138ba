-------------------------------- MODULE Syncer --------------------------------
(***************************************************************************)
(* pkg/cluster/syncer.go: the goroutine that turns an etcd prefix into a   *)
(* channel of snapshots.  A watch response or the ticker makes it pull the *)
(* prefix, and a pull that differs from the last one sent is sent.  etcd,  *)
(* its watch stream and the writers are external; the consumer is the      *)
(* reader of the channel (ObjectRegistry.run, for one).                    *)
(***************************************************************************)
EXTENDS ConfigStream, FiniteSets

CONSTANT ChanCap      \* capacity of the channel; 10 in the code

ASSUME SyncerAssumption ==
  /\ Empty \in Configs /\ DOMAIN Empty = {}
  /\ \A c \in Configs : IsFiniteSet(DOMAIN c) /\ c = [k \in DOMAIN c |-> c[k]]
  /\ ChanCap \in Nat \ {0} /\ MaxRevision \in Nat

VARIABLES
  watch,         \* "on", or "canceled" by etcd: no further response will come
  responses,     \* TRUE while unread responses are in watchChan
  data,          \* the last snapshot that was sent, and its revision
  pc,            \* "first" pull, "select", "send" (blocked on the channel) or "ended"
  ch             \* the channel: snapshots with their revisions

syncerVars == <<watch, responses, data, pc, ch>>
vars == <<streamVars, syncerVars>>

-----------------------------------------------------------------------------

\* Fault: maps of the same size are taken for equal.
isDataEqual_SizeOnly(data1, data2) ==
  Cardinality(DOMAIN data1) = Cardinality(DOMAIN data2)

isDataEqual(data1, data2) ==
  /\ Cardinality(DOMAIN data1) = Cardinality(DOMAIN data2)
  /\ \A k \in DOMAIN data1 : k \in DOMAIN data2 /\ data1[k] = data2[k]

\* Fault: the comparison is skipped.
PullCompareSend_Always ==
  \/ pc' = "select" /\ UNCHANGED data
  \/ data' = [config |-> Store, rev |-> Len(history)] /\ pc' = "send"

\* A failed pull is given up until the next response or tick.  The revision is
\* a history variable: the code keeps the key-value pairs only.
PullCompareSend ==
  \/ pc' = "select" /\ UNCHANGED data
  \/ IF isDataEqual(data.config, Store) THEN pc' = "select" /\ UNCHANGED data
     ELSE pc' = "send" /\ data' = [config |-> Store, rev |-> Len(history)]

Init ==
  /\ StreamInit
  /\ watch = "on" /\ responses = FALSE
  /\ data = [config |-> Empty, rev |-> 0] /\ pc = "first" /\ ch = <<>>

\* The pull before the loop; the watch is already established.
FirstPull ==
  /\ pc = "first" /\ PullCompareSend
  /\ UNCHANGED <<streamVars, watch, responses, ch>>

OnTicker ==
  /\ pc = "select" /\ PullCompareSend
  /\ UNCHANGED <<streamVars, watch, responses, ch>>

OnResponse ==
  /\ pc = "select" /\ responses
  /\ responses' = FALSE /\ PullCompareSend
  /\ UNCHANGED <<streamVars, watch, ch>>

\* Restart a canceled watch: it starts at the current revision, and nothing
\* is pulled here.
OnCanceled ==
  /\ pc = "select" /\ watch = "canceled"
  /\ watch' = "on" /\ responses' = FALSE
  /\ UNCHANGED <<streamVars, data, pc, ch>>

\* Fault: a snapshot is dropped instead of waiting for the consumer.
Send_Drop ==
  /\ pc = "send" /\ pc' = "select"
  /\ ch' = IF Len(ch) < ChanCap THEN Append(ch, data) ELSE ch
  /\ UNCHANGED <<streamVars, watch, responses, data>>

\* Fault: the channel is taken for unbounded.
Send_Unbounded ==
  /\ pc = "send"
  /\ ch' = Append(ch, data) /\ pc' = "select"
  /\ UNCHANGED <<streamVars, watch, responses, data>>

Send ==
  /\ pc = "send" /\ Len(ch) < ChanCap
  /\ ch' = Append(ch, data) /\ pc' = "select"
  /\ UNCHANGED <<streamVars, watch, responses, data>>

\* s.done was closed: run returns and its goroutine closes the channel.
Return ==
  /\ pc = "select" /\ done
  /\ pc' = "ended"
  /\ UNCHANGED <<streamVars, watch, responses, data, ch>>

-----------------------------------------------------------------------------
(* The environment: etcd and its writers, the consumer, and Close.          *)

Write ==
  /\ Change
  /\ responses' = (responses \/ watch = "on")
  /\ UNCHANGED <<watch, data, pc, ch>>

Cancel ==
  /\ watch = "on" /\ watch' = "canceled"
  /\ UNCHANGED <<streamVars, responses, data, pc, ch>>

Receive ==
  /\ ch # <<>>
  /\ seen' = Head(ch).config /\ seenAt' = Head(ch).rev /\ ch' = Tail(ch)
  /\ UNCHANGED <<history, done, watch, responses, data, pc>>

ReceiveClosed ==
  /\ ch = <<>> /\ pc = "ended"
  /\ EndOfStream
  /\ UNCHANGED syncerVars

Close == CloseStream /\ UNCHANGED syncerVars

Next ==
  \/ FirstPull \/ OnTicker \/ OnResponse \/ OnCanceled \/ Send \/ Return
  \/ Write \/ Cancel \/ Receive \/ ReceiveClosed \/ Close

Spec == Init /\ [][Next]_vars

(* The ticker fires for ever and etcd answers, the goroutine runs, the      *)
(* consumer keeps receiving.  Nothing is assumed of the watch.              *)
Fairness ==
  /\ WF_vars(FirstPull)
  /\ WF_vars(OnTicker /\ data'.config = Store)
  /\ WF_vars(Send)
  /\ WF_vars(Receive)

FairSpec == Spec /\ Fairness

-----------------------------------------------------------------------------

Snapshots == [config : Configs, rev : 0 .. MaxRevision]

\* Types of the goroutine's locals and of the channel of SyncPrefix.
TypeOK ==
  /\ history \in Seq(Configs) /\ Len(history) \in 1 .. (MaxRevision + 1)
  /\ seen \in Configs /\ seenAt \in 0 .. MaxRevision /\ done \in BOOLEAN
  /\ watch \in {"on", "canceled"} /\ responses \in BOOLEAN
  /\ data \in Snapshots /\ pc \in {"first", "select", "send", "ended"}
  /\ ch \in Seq(Snapshots) /\ Len(ch) <= ChanCap

(* The comparison of syncer.go:87 holds exactly for equal contents.         *)
ComparesContents ==
  \A c \in Configs : isDataEqual(data.config, c) <=> data.config = c

(* Watches that are canceled, ticks, failed pulls and a full channel: what  *)
(* the consumer of SyncPrefix gets is the abstract stream.                  *)
ImplementsStream == StreamSpec

(* syncer.go:148: although responses are lost with a canceled watch and a   *)
(* restarted watch pulls nothing, the consumer ends up with the contents of *)
(* the prefix once the writers pause, unless the syncer is closed.          *)
ConsumerConverges == <>[](done \/ seen = Store)
=============================================================================
