---------------------------- MODULE ObjectRegistry ----------------------------
(***************************************************************************)
(* The ObjectRegistry of pkg/supervisor/object.go.  Its goroutine receives *)
(* snapshots of the configuration, compares each with the entities it      *)
(* holds, and tells every watcher what was deleted, created and updated    *)
(* among the objects its filter selects.  or.mutex is held from the        *)
(* comparison until the last watcher took its event, and a watcher whose   *)
(* channel is full makes the registry wait.                                *)
(*                                                                         *)
(* A snapshot is a function that gives every name a spec or None.  A spec  *)
(* is its kind and a version; two specs are Equal when they are the same.  *)
(***************************************************************************)
EXTENDS Objects, Integers, Sequences, FiniteSets, Functions

CONSTANTS
  Specs,         \* Specs[n] is the set of specs the object n may be given
  Kinds,         \* registered kinds; a spec of another kind is rejected
  CategoryOf,    \* kind -> category
  Watchers,      \* names of watchers
  Filter,        \* watcher -> the categories it selects
  EventCap       \* capacity of a watcher's channel; 10 in the code

ASSUME RegistryAssumption ==
  /\ DOMAIN Specs = Names /\ \A n \in Names : None \notin Specs[n]
  /\ EventCap \in Nat \ {0}

VARIABLES
  entities,      \* or.entities: name -> spec or None
  watchers,      \* the names in or.watchers
  view,          \* watcher -> watcher.entities
  eventChan,     \* watcher -> its channel
  applying,      \* the update being distributed, or Idle; or.mutex is held meanwhile
  moved          \* history: the names whose entity was replaced by one of another category

registryVars == <<entities, watchers, view, eventChan, applying, moved>>

Idle == [busy |-> FALSE]

AllSpecs == UNION {Specs[n] : n \in Names}

\* The snapshots of the configuration.
Configs == {c \in [Names -> AllSpecs \cup {None}] :
              \A n \in Names : c[n] \in Specs[n] \cup {None}}

Unlocked == ~applying.busy

-----------------------------------------------------------------------------

Valid(spec) == spec # None /\ spec.kind \in Kinds

\* FilterCategory
Selects(w, spec) == CategoryOf[spec.kind] \in Filter[w]

Event(Del, Cre, Upd) == [Delete |-> Del, Create |-> Cre, Update |-> Upd]

\* Those of the names S, with their specs in f, that the watcher's filter selects.
Selected(w, f, S) == Restrict(f, {n \in S : Selects(w, f[n])})

Deleted(old, config) == {n \in Names : old[n] # None /\ config[n] = None}

Created(old, config) == {n \in Names : old[n] = None /\ Valid(config[n])}

Updated(old, config) ==
  {n \in Names : old[n] # None /\ Valid(config[n]) /\ config[n] # old[n]}

\* The deletion of an object and the creation of another one under its name may
\* reach the registry in one snapshot, which makes an update of them.
Moved(old, config) ==
  {n \in Updated(old, config) : CategoryOf[old[n].kind] # CategoryOf[config[n].kind]}

\* Fault: an object whose new spec is invalid is forgotten.
NewEntities_Drop(old, config) ==
  [n \in Names |-> IF Valid(config[n]) THEN config[n] ELSE None]

NewEntities(old, config) ==
  [n \in Names |-> IF config[n] = None THEN None
                   ELSE IF Valid(config[n]) THEN config[n] ELSE old[n]]

\* Fault: an update is told as a creation.
EventFor_AsCreated(w, old, config) ==
  Event(Selected(w, old, Deleted(old, config)),
        Selected(w, config, Created(old, config) \cup Updated(old, config)),
        Selected(w, config, {}))

EventFor(w, old, config) ==
  Event(Selected(w, old, Deleted(old, config)),
        Selected(w, config, Created(old, config)),
        Selected(w, config, Updated(old, config)))

IsEmpty(e) == DOMAIN e.Delete \cup DOMAIN e.Create \cup DOMAIN e.Update = {}

\* What an event makes of a map from names to specs.
Replay(v, e) ==
  [n \in Names |-> IF n \in DOMAIN e.Update THEN e.Update[n]
                   ELSE IF n \in DOMAIN e.Create THEN e.Create[n]
                   ELSE IF n \in DOMAIN e.Delete THEN None ELSE v[n]]

-----------------------------------------------------------------------------

RegistryInit ==
  /\ entities = Nothing /\ watchers = {}
  /\ view = [w \in Watchers |-> Nothing]
  /\ eventChan = [w \in Watchers |-> <<>>]
  /\ applying = Idle /\ moved = {}

\* applyConfig takes the mutex and compares.
applyConfig(config) ==
  /\ Unlocked
  /\ entities' = NewEntities(entities, config)
  /\ applying' = [busy |-> TRUE, todo |-> watchers,
                  event |-> [w \in watchers |-> EventFor(w, entities, config)]]
  /\ moved' = moved \cup Moved(entities, config)
  /\ UNCHANGED <<watchers, view, eventChan>>

\* Fault: an event for a full channel is dropped.
Notify_Drop(w) ==
  /\ applying.busy /\ w \in applying.todo
  /\ LET e == applying.event[w]
     IN  /\ view' = [view EXCEPT ![w] = Replay(@, e)]
         /\ eventChan' = [eventChan EXCEPT ![w] =
              IF IsEmpty(e) \/ Len(@) = EventCap THEN @ ELSE Append(@, e)]
  /\ applying' = [applying EXCEPT !.todo = @ \ {w}]
  /\ UNCHANGED <<entities, watchers, moved>>

\* Fault: the channel is taken for unbounded.
Notify_Unbounded(w) ==
  /\ applying.busy /\ w \in applying.todo
  /\ LET e == applying.event[w]
     IN  /\ view' = [view EXCEPT ![w] = Replay(@, e)]
         /\ eventChan' = [eventChan EXCEPT ![w] = IF IsEmpty(e) THEN @ ELSE Append(@, e)]
  /\ applying' = [applying EXCEPT !.todo = @ \ {w}]
  /\ UNCHANGED <<entities, watchers, moved>>

\* applyConfig's loop over the watchers, in the order of a Go map: any.
Notify(w) ==
  /\ applying.busy /\ w \in applying.todo
  /\ LET e == applying.event[w]
     IN  /\ view' = [view EXCEPT ![w] = Replay(@, e)]
         /\ IF IsEmpty(e) THEN UNCHANGED eventChan
            ELSE /\ Len(eventChan[w]) < EventCap
                 /\ eventChan' = [eventChan EXCEPT ![w] = Append(@, e)]
  /\ applying' = [applying EXCEPT !.todo = @ \ {w}]
  /\ UNCHANGED <<entities, watchers, moved>>

\* applyConfig returns and the mutex is released.
Applied ==
  /\ applying.busy /\ applying.todo = {}
  /\ applying' = Idle
  /\ UNCHANGED <<entities, watchers, view, eventChan, moved>>

\* The first event, possibly empty, creates what the registry holds already.  For a
\* name that is taken nil is returned, and the registry keeps the watcher it has.
NewWatcher(w) ==
  /\ Unlocked
  /\ IF w \in watchers THEN UNCHANGED <<watchers, view, eventChan>>
     ELSE LET e == EventFor(w, Nothing, entities)
          IN  /\ watchers' = watchers \cup {w}
              /\ view' = [view EXCEPT ![w] = Replay(Nothing, e)]
              /\ eventChan' = [eventChan EXCEPT ![w] = <<e>>]
  /\ UNCHANGED <<entities, applying, moved>>

CloseWatcher(w) ==
  /\ Unlocked
  /\ watchers' = watchers \ {w}
  /\ UNCHANGED <<entities, view, eventChan, applying, moved>>
=============================================================================
