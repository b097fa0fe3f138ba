----------------------------- MODULE ConfigStream -----------------------------
(***************************************************************************)
(* What a Syncer (pkg/cluster/syncer.go) promises to the consumer of its   *)
(* channel, without watches, tickers, comparisons and buffers: snapshots   *)
(* of the prefix, none older than the one before it, and never the same    *)
(* contents twice in a row.  Once the syncer was closed the closed channel *)
(* yields the nil map, which a consumer cannot tell from an empty prefix.  *)
(***************************************************************************)
EXTENDS Integers, Sequences

CONSTANTS
  Configs,       \* the contents the prefix can have; maps from keys to values
  Empty,         \* the empty map
  MaxRevision    \* bound on the number of revisions

VARIABLES
  history,       \* history[r] is the contents of the prefix at revision r
  seen,          \* the last snapshot the consumer received
  seenAt,        \* the revision it was read at (0: none was received yet)
  done           \* Close was called

streamVars == <<history, seen, seenAt, done>>

Store == history[Len(history)]

StreamInit ==
  /\ history \in {<<c>> : c \in Configs}
  /\ seen = Empty /\ seenAt = 0 /\ done = FALSE

\* A write to the prefix, by any member of the cluster.
Change ==
  /\ Len(history) < MaxRevision
  /\ \E c \in Configs : history' = Append(history, c)
  /\ UNCHANGED <<seen, seenAt, done>>

Deliver ==
  /\ \E r \in 1 .. Len(history) :
       r >= seenAt /\ history[r] # seen /\ seen' = history[r] /\ seenAt' = r
  /\ UNCHANGED <<history, done>>

CloseStream == ~done /\ done' = TRUE /\ UNCHANGED <<history, seen, seenAt>>

EndOfStream == done /\ seen' = Empty /\ UNCHANGED <<history, seenAt, done>>

StreamNext == Change \/ Deliver \/ CloseStream \/ EndOfStream

StreamSpec == StreamInit /\ [][StreamNext]_streamVars
=============================================================================
