---------------------------- MODULE RegistryWatch -----------------------------
(***************************************************************************)
(* The ObjectRegistry with watchers that come and go and apply the events  *)
(* they receive to a map of their own, as the Supervisor and the           *)
(* RawConfigTrafficController do.  The snapshots are arbitrary: whatever   *)
(* the syncer delivers, an object that was replaced by one of another kind *)
(* or category and the empty snapshot of a closed syncer included.         *)
(***************************************************************************)
EXTENDS ObjectRegistry, SequencesExt

VARIABLE handled       \* watcher -> the map its owner made of the events

watchVars == <<registryVars, handled>>

WatchInit == RegistryInit /\ handled = [w \in Watchers |-> Nothing]

Receive == (\E c \in Configs : applyConfig(c)) /\ UNCHANGED handled

Distribute == (\E w \in Watchers : Notify(w)) /\ UNCHANGED handled

Finish == Applied /\ UNCHANGED handled

\* An owner starts to watch, with an empty map; nothing comes of a second one
\* under the same name.
Open(w) ==
  /\ NewWatcher(w)
  /\ handled' = IF w \in watchers THEN handled ELSE [handled EXCEPT ![w] = Nothing]

Shut(w) == w \in watchers /\ CloseWatcher(w) /\ UNCHANGED handled

\* The owner takes an event from its channel and handles it.
Handle(w) ==
  /\ w \in watchers /\ eventChan[w] # <<>>
  /\ handled' = [handled EXCEPT ![w] = Replay(@, Head(eventChan[w]))]
  /\ eventChan' = [eventChan EXCEPT ![w] = Tail(@)]
  /\ UNCHANGED <<entities, watchers, view, applying, moved>>

WatchNext ==
  \/ Receive \/ Distribute \/ Finish
  \/ \E w \in Watchers : Open(w) \/ Shut(w) \/ Handle(w)

WatchSpec == WatchInit /\ [][WatchNext]_watchVars

-----------------------------------------------------------------------------

Maps == [Names -> AllSpecs \cup {None}]

\* Types of the fields of ObjectRegistry and of its watchers.
TypeOK ==
  /\ entities \in Maps /\ watchers \subseteq Watchers
  /\ view \in [Watchers -> Maps] /\ handled \in [Watchers -> Maps]
  /\ DOMAIN eventChan = Watchers /\ moved \subseteq Names
  /\ \A w \in Watchers : Len(eventChan[w]) <= EventCap
  /\ applying.busy => applying.todo \subseteq watchers

\* The entity under the name n, if the filter of w selects it.
SelectedEntity(w, n) ==
  IF entities[n] # None /\ Selects(w, entities[n]) THEN entities[n] ELSE None

(* object.go:336: what Entities() returns to a watcher that the registry is *)
(* not about to notify has every entity that its filter selects.  It has    *)
(* nothing else, except for a name that was taken over by an object of      *)
(* another category: the watcher of the first one is not told, and keeps    *)
(* it, even when the name is deleted.                                       *)
ViewExact ==
  \A w \in watchers, n \in Names :
    (~applying.busy \/ w \notin applying.todo) =>
      \/ view[w][n] = SelectedEntity(w, n)
      \/ n \in moved /\ SelectedEntity(w, n) = None

(* object.go:234-257: however many events wait in the channel, an owner     *)
(* that handles them one after the other arrives at the watcher's entities: *)
(* none is lost, and a deletion and a creation are never told in the wrong  *)
(* order.                                                                   *)
EventsExact ==
  \A w \in watchers : FoldLeft(Replay, handled[w], eventChan[w]) = view[w]

\* What an event tells of the name n fits what the owner of w has: an update or a
\* deletion of an object it has, a creation of one it has not.
Applicable(w, e, n) ==
  /\ n \in DOMAIN e.Create => handled[w][n] = None
  /\ n \in DOMAIN e.Update \cup DOMAIN e.Delete => handled[w][n] # None

\* What the handlers log as a BUG does not happen to the names outside S.
ApplicableExcept(S) ==
  \A w \in watchers :
    eventChan[w] # <<>> => \A n \in Names \ S : Applicable(w, Head(eventChan[w]), n)

(* object.go:221: whatever the snapshots skipped, and whenever the watcher  *)
(* was opened, the events for names that keep their category are ones that  *)
(* the owner can apply.                                                     *)
EventsApplicable == ApplicableExcept(moved)

(* supervisor.go:189,209,225, the handlers log it as "BUG: delete %s not    *)
(* found", "BUG: create %s already existed" or "BUG: update %s not found":  *)
(* an event tells of an object the owner cannot have, or lacks.             *)
NeverBUG == ApplicableExcept({})
=============================================================================
