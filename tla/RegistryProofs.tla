---------------------------- MODULE RegistryProofs ----------------------------
(***************************************************************************)
(* The registry keeps every watcher's map exact, for every set of objects, *)
(* kinds, filters and watchers, but for what a name that changed its       *)
(* category leaves behind.  The invariant says what a watcher's map will   *)
(* be once the event that is being distributed was applied to it.          *)
(***************************************************************************)
EXTENDS RegistryWatch, TLAPS

\* The map of w after the event it is still to be sent, if there is one.
Coming(w) ==
  IF applying.busy /\ w \in applying.todo THEN Replay(view[w], applying.event[w])
  ELSE view[w]

\* A spec for the name n in the map of w is the entity that w selects, or left behind.
Fits(w, n, spec) ==
  spec = SelectedEntity(w, n) \/ (n \in moved /\ SelectedEntity(w, n) = None)

IInv ==
  /\ entities \in [Names -> AllSpecs \cup {None}]
  /\ \A n \in Names : entities[n] # None => entities[n] \in Specs[n] /\ Valid(entities[n])
  /\ watchers \subseteq Watchers
  /\ DOMAIN view = Watchers /\ view = [w \in Watchers |-> view[w]]
  /\ applying.busy \in BOOLEAN
  /\ applying.busy => applying.todo \subseteq watchers
  /\ applying.busy =>
       applying = [busy |-> TRUE, todo |-> applying.todo, event |-> applying.event]
  /\ \A w \in watchers, n \in Names : Fits(w, n, Coming(w)[n])

-----------------------------------------------------------------------------

(* A snapshot keeps the entities valid.                                     *)
LEMMA EntitiesTyped ==
  ASSUME IInv, NEW c \in Configs
  PROVE  /\ NewEntities(entities, c) \in [Names -> AllSpecs \cup {None}]
         /\ \A n \in Names : NewEntities(entities, c)[n] # None =>
              /\ NewEntities(entities, c)[n] \in Specs[n]
              /\ Valid(NewEntities(entities, c)[n])
BY DEF IInv, NewEntities, Configs, Valid, AllSpecs

(* The event that a comparison yields leads from a map that fits the        *)
(* entities to one that fits the new ones.                                  *)
LEMMA ReplayFits ==
  ASSUME IInv, NEW c \in Configs, NEW w \in Watchers, NEW v, NEW n \in Names, Fits(w, n, v[n]),
         entities' = NewEntities(entities, c), moved' = moved \cup Moved(entities, c)
  PROVE  \/ Replay(v, EventFor(w, entities, c))[n] = SelectedEntity(w, n)'
         \/ n \in moved' /\ SelectedEntity(w, n)' = None
<1> DEFINE e == EventFor(w, entities, c)
<1>1. /\ DOMAIN e.Delete = {m \in Deleted(entities, c) : Selects(w, entities[m])}
      /\ DOMAIN e.Create = {m \in Created(entities, c) : Selects(w, c[m])}
      /\ DOMAIN e.Update = {m \in Updated(entities, c) : Selects(w, c[m])}
      /\ \A m \in DOMAIN e.Create : e.Create[m] = c[m]
      /\ \A m \in DOMAIN e.Update : e.Update[m] = c[m]
  BY DEF EventFor, Event, Selected, Restrict
<1> HIDE DEF e
<1>2. /\ SelectedEntity(w, n)' =
           IF entities'[n] # None /\ Selects(w, entities'[n]) THEN entities'[n] ELSE None
      /\ SelectedEntity(w, n) =
           IF entities[n] # None /\ Selects(w, entities[n]) THEN entities[n] ELSE None
  BY DEF SelectedEntity, Selects
<1>3. entities'[n] = IF c[n] = None THEN None
                     ELSE IF Valid(c[n]) THEN c[n] ELSE entities[n]
  BY DEF NewEntities
<1>4. Replay(v, e)[n] = IF n \in DOMAIN e.Update THEN e.Update[n]
                 ELSE IF n \in DOMAIN e.Create THEN e.Create[n]
                 ELSE IF n \in DOMAIN e.Delete THEN None ELSE v[n]
  BY DEF Replay
<1>5. Valid(c[n]) => c[n] # None
  BY DEF Valid
<1>6. v[n] = SelectedEntity(w, n) \/ (n \in moved /\ SelectedEntity(w, n) = None)
  BY DEF Fits
<1>7. n \in moved => n \in moved'
  OBVIOUS
<1>8. \/ Replay(v, e)[n] = SelectedEntity(w, n)'
      \/ n \in moved' /\ SelectedEntity(w, n)' = None
  <2>1. CASE c[n] = None
    BY <1>1, <1>2, <1>3, <1>4, <1>5, <1>6, <1>7, <2>1 DEF Deleted, Created, Updated
  <2>2. CASE c[n] # None /\ ~Valid(c[n])
    BY <1>1, <1>2, <1>3, <1>4, <1>6, <1>7, <2>2 DEF Deleted, Created, Updated
  <2>3. CASE Valid(c[n]) /\ entities[n] = None
    BY <1>1, <1>2, <1>3, <1>4, <1>5, <1>6, <1>7, <2>3 DEF Deleted, Created, Updated
  <2>4. CASE Valid(c[n]) /\ entities[n] # None /\ c[n] # entities[n]
    <3>1. n \in Updated(entities, c) /\ n \notin Deleted(entities, c) /\ n \notin Created(entities, c)
      BY <1>5, <2>4 DEF Updated, Deleted, Created
    <3>2. CASE Selects(w, c[n])
      BY <1>1, <1>2, <1>3, <1>4, <1>5, <2>4, <3>1, <3>2
    <3>3. CASE ~Selects(w, c[n]) /\ Selects(w, entities[n])
      <4>1. CategoryOf[entities[n].kind] # CategoryOf[c[n].kind]
        BY <3>3 DEF Selects
      <4> QED
        BY <1>2, <1>3, <2>4, <3>1, <3>3, <4>1 DEF Moved
    <3>4. CASE ~Selects(w, c[n]) /\ ~Selects(w, entities[n])
      BY <1>1, <1>2, <1>3, <1>4, <1>6, <1>7, <2>4, <3>1, <3>4
    <3> QED
      BY <3>2, <3>3, <3>4
  <2>5. CASE Valid(c[n]) /\ entities[n] # None /\ c[n] = entities[n]
    BY <1>1, <1>2, <1>3, <1>4, <1>5, <1>6, <1>7, <2>5 DEF Deleted, Created, Updated
  <2> QED
    BY <2>1, <2>2, <2>3, <2>4, <2>5
<1> QED
  BY <1>8 DEF e

\* NewObjectRegistry: there is no watcher to be wrong about.
LEMMA Initial == WatchInit => IInv
<1> SUFFICES ASSUME WatchInit PROVE IInv
  OBVIOUS
<1>1. /\ entities = [n \in Names |-> None] /\ watchers = {}
      /\ view = [w \in Watchers |-> [n \in Names |-> None]]
      /\ applying = [busy |-> FALSE]
  BY DEF WatchInit, RegistryInit, Nothing, Idle
<1>2. applying.busy = FALSE
  BY <1>1
<1>3. /\ \A n \in Names : entities[n] = None
      /\ entities \in [Names -> AllSpecs \cup {None}]
  BY <1>1
<1>4. DOMAIN view = Watchers /\ view = [w \in Watchers |-> view[w]]
  BY <1>1
<1> QED BY <1>1, <1>2, <1>3, <1>4, Zenon DEF IInv

\* applyConfig's comparison prepares, for every watcher, the event it needs.
LEMMA ReceiveStep == IInv /\ Receive => IInv'
<1> SUFFICES ASSUME IInv, Receive PROVE IInv'
  OBVIOUS
<1>1. PICK c \in Configs : applyConfig(c)
  BY DEF Receive
<1>2. /\ entities' = NewEntities(entities, c) /\ applying.busy # TRUE
      /\ applying' = [busy |-> TRUE, todo |-> watchers,
                      event |-> [w \in watchers |-> EventFor(w, entities, c)]]
      /\ moved' = moved \cup Moved(entities, c)
      /\ UNCHANGED <<watchers, view>>
  BY <1>1 DEF applyConfig, Unlocked
<1>3. ASSUME NEW w \in watchers, NEW n \in Names PROVE Fits(w, n, Coming(w)[n])'
  <2>1. Fits(w, n, view[w][n]) /\ w \in Watchers
    BY <1>2 DEF IInv, Coming
  <2>2. Coming(w)' = Replay(view[w], EventFor(w, entities, c))
    BY <1>2 DEF Coming
  <2>3. \/ Replay(view[w], EventFor(w, entities, c))[n] = SelectedEntity(w, n)'
        \/ n \in moved' /\ SelectedEntity(w, n)' = None
    BY <1>2, <2>1, ReplayFits
  <2> QED BY <2>2, <2>3 DEF Fits
<1>4. /\ applying'.busy = TRUE /\ applying'.todo = watchers
      /\ applying' = [busy |-> TRUE, todo |-> applying'.todo, event |-> applying'.event]
  BY <1>2
<1> QED BY <1>2, <1>3, <1>4, EntitiesTyped DEF IInv

\* Telling one watcher brings its map up to date and leaves the others alone.
LEMMA DistributeStep == IInv /\ Distribute => IInv'
<1> SUFFICES ASSUME IInv, Distribute PROVE IInv'
  OBVIOUS
<1>1. PICK x \in Watchers : Notify(x)
  BY DEF Distribute
<1>2. /\ applying.busy = TRUE /\ x \in applying.todo /\ UNCHANGED <<entities, watchers, moved>>
      /\ view' = [view EXCEPT ![x] = Replay(view[x], applying.event[x])]
      /\ applying' = [applying EXCEPT !.todo = applying.todo \ {x}]
  BY <1>1 DEF Notify, IInv
<1>3. applying' = [busy |-> TRUE, todo |-> applying.todo \ {x}, event |-> applying.event]
  BY <1>2 DEF IInv
<1>4. /\ view'[x] = Replay(view[x], applying.event[x])
      /\ \A w \in Watchers \ {x} : view'[w] = view[w]
      /\ DOMAIN view' = Watchers /\ view' = [w \in Watchers |-> view'[w]]
  BY <1>2 DEF IInv
<1>5. ASSUME NEW w \in watchers, NEW n \in Names PROVE Fits(w, n, Coming(w)[n])'
  <2>1. Fits(w, n, Coming(w)[n]) /\ SelectedEntity(w, n)' = SelectedEntity(w, n)
    BY <1>2 DEF IInv, SelectedEntity
  <2>2. w \in Watchers
    BY DEF IInv
  <2>3. Coming(w)' = Coming(w)
    BY <1>2, <1>3, <1>4, <2>2 DEF Coming
  <2> QED BY <1>2, <2>1, <2>3 DEF Fits
<1> QED BY <1>2, <1>3, <1>4, <1>5 DEF IInv

\* When or.mutex is released every watcher has been told.
LEMMA FinishStep == IInv /\ Finish => IInv'
<1> SUFFICES ASSUME IInv, Finish PROVE IInv'
  OBVIOUS
<1>1. /\ applying.busy = TRUE /\ applying.todo = {} /\ applying' = [busy |-> FALSE]
      /\ UNCHANGED <<entities, watchers, view, moved>>
  BY DEF Finish, Applied, Idle, IInv
<1>2. \A w \in watchers : Coming(w)' = Coming(w)
  BY <1>1 DEF Coming
<1>3. \A w \in watchers, n \in Names : SelectedEntity(w, n)' = SelectedEntity(w, n)
  BY <1>1 DEF SelectedEntity
<1> QED BY <1>1, <1>2, <1>3 DEF IInv, Fits

\* NewWatcher: the first event creates exactly what the registry holds.
LEMMA OpenStep ==
  ASSUME IInv, NEW x \in Watchers, Open(x), x \notin watchers PROVE IInv'
<1>1. /\ ~applying.busy /\ watchers' = watchers \cup {x}
      /\ UNCHANGED <<entities, applying, moved>>
      /\ view' = [view EXCEPT ![x] = Replay(Nothing, EventFor(x, Nothing, entities))]
  BY DEF Open, NewWatcher, Unlocked
<1>2. /\ view'[x] = Replay(Nothing, EventFor(x, Nothing, entities))
      /\ \A w \in Watchers \ {x} : view'[w] = view[w]
      /\ DOMAIN view' = Watchers /\ view' = [w \in Watchers |-> view'[w]]
  BY <1>1 DEF IInv
<1>3. \A w \in Watchers, n \in Names : SelectedEntity(w, n)' = SelectedEntity(w, n)
  BY <1>1 DEF SelectedEntity
<1>4. \A n \in Names : view'[x][n] = SelectedEntity(x, n)
  <2> DEFINE e == EventFor(x, Nothing, entities)
  <2>1. /\ DOMAIN e.Delete = {} /\ DOMAIN e.Update = {}
        /\ DOMAIN e.Create = {n \in Names : Valid(entities[n]) /\ Selects(x, entities[n])}
        /\ \A n \in DOMAIN e.Create : e.Create[n] = entities[n]
    BY DEF EventFor, Event, Selected, Restrict, Deleted, Created, Updated, Nothing
  <2> HIDE DEF e
  <2>2. \A n \in Names : entities[n] # None <=> Valid(entities[n])
    BY DEF IInv, Valid
  <2>3. \A n \in Names : Replay(Nothing, e)[n] = SelectedEntity(x, n)
    BY <2>1, <2>2 DEF Replay, SelectedEntity, Nothing
  <2> QED BY <1>2, <2>3 DEF e
<1>5. ASSUME NEW w \in watchers', NEW n \in Names PROVE Fits(w, n, Coming(w)[n])'
  <2>1. w \in Watchers /\ Coming(w)' = view'[w]
    BY <1>1 DEF Coming, IInv
  <2>2. CASE w = x
    BY <1>3, <1>4, <2>1, <2>2 DEF Fits
  <2>3. CASE w # x
    <3>1. w \in watchers /\ Coming(w) = view[w] /\ view'[w] = view[w]
      BY <1>1, <1>2, <2>1, <2>3 DEF Coming
    <3>2. Fits(w, n, Coming(w)[n])
      BY <3>1 DEF IInv
    <3> QED BY <1>1, <1>3, <2>1, <3>1, <3>2 DEF Fits
  <2> QED BY <2>2, <2>3
<1> QED BY <1>1, <1>2, <1>5 DEF IInv

\* CloseWatcher, the handling of an event, and a second watcher of the same name
\* leave the maps alone.
LEMMA OtherStep ==
  ASSUME IInv, NEW x \in Watchers,
         Shut(x) \/ Handle(x) \/ (Open(x) /\ x \in watchers) \/ UNCHANGED watchVars
  PROVE  IInv'
<1>1. /\ UNCHANGED <<entities, view, applying, moved>> /\ watchers' \subseteq watchers
      /\ watchers' = watchers \/ ~applying.busy
  BY DEF Shut, CloseWatcher, Handle, Open, NewWatcher, watchVars, registryVars, Unlocked
<1>2. \A w \in Watchers : Coming(w)' = Coming(w)
  BY <1>1 DEF Coming
<1>3. \A w \in Watchers, n \in Names : SelectedEntity(w, n)' = SelectedEntity(w, n)
  BY <1>1 DEF SelectedEntity
<1> QED BY <1>1, <1>2, <1>3 DEF IInv, Fits

(* object.go:263,336: whatever the snapshots are and whenever watchers come *)
(* and go, the map of a watcher has exactly the entities its filter selects *)
(* and, of names that changed their category, some that it selects no more. *)
THEOREM ViewsExact == WatchSpec => []ViewExact
<1>1. WatchInit => IInv
  BY Initial
<1>2. IInv /\ [WatchNext]_watchVars => IInv'
  <2> SUFFICES ASSUME IInv, [WatchNext]_watchVars PROVE IInv'
    OBVIOUS
  <2>1. CASE UNCHANGED watchVars
    BY <2>1 DEF IInv, watchVars, registryVars, Coming, SelectedEntity, Fits
  <2>2. CASE Receive
    BY <2>2, ReceiveStep
  <2>3. CASE Distribute
    BY <2>3, DistributeStep
  <2>4. CASE Finish
    BY <2>4, FinishStep
  <2>5. CASE \E w \in Watchers : Open(w) /\ w \notin watchers
    BY <2>5, OpenStep
  <2>6. CASE \E w \in Watchers : Shut(w) \/ Handle(w) \/ (Open(w) /\ w \in watchers)
    BY <2>6, OtherStep
  <2> QED BY <2>1, <2>2, <2>3, <2>4, <2>5, <2>6 DEF WatchNext
<1>3. IInv => ViewExact
  BY DEF IInv, ViewExact, Coming, Fits
<1> QED BY <1>1, <1>2, <1>3, PTL DEF WatchSpec
=============================================================================
