--------------------------- MODULE RawConfigTraffic ---------------------------
(***************************************************************************)
(* pkg/object/rawconfigtrafficcontroller: the system controller that       *)
(* watches the traffic gates and pipelines of the registry and makes the   *)
(* TrafficController follow, in its default namespace.                     *)
(*                                                                         *)
(* Every generation of the controller runs a goroutine.  Inherit closes    *)
(* the done channel of the previous generation and starts a goroutine on   *)
(* the same watcher; the previous one may still be handling an event, and  *)
(* its select may even choose another event before it chooses done.        *)
(***************************************************************************)
EXTENDS ObjectRegistry, TrafficController

CONSTANTS
  Traffic,            \* the controller's watcher
  DefaultNamespace

VARIABLE gens         \* the goroutines of the generations, in order

NoWork == EventFor(Traffic, Nothing, Nothing)

Generation == [done |-> FALSE, up |-> TRUE, work |-> NoWork]

Handling(g) == ~IsEmpty(gens[g].work)

\* Init and reload(nil)
InitController ==
  /\ NewWatcher(Traffic)
  /\ gens' = <<Generation>>

\* Inherit, by the supervisor's goroutine.
InheritController ==
  gens' = Append([gens EXCEPT ![Len(gens)].done = TRUE], Generation)

\* The run loop of generation g takes an event, or returns.
TakeEvent(g) ==
  /\ gens[g].up /\ ~Handling(g) /\ eventChan[Traffic] # <<>>
  /\ gens' = [gens EXCEPT ![g].work = Head(eventChan[Traffic])]
  /\ eventChan' = [eventChan EXCEPT ![Traffic] = Tail(@)]
  /\ UNCHANGED <<entities, watchers, view, applying, moved, tc>>

RunReturns(g) ==
  /\ gens[g].up /\ ~Handling(g) /\ gens[g].done
  /\ gens' = [gens EXCEPT ![g].up = FALSE]
  /\ UNCHANGED <<registryVars, tc>>

Without(f, n) == Restrict(f, DOMAIN f \ {n})

\* handleEvent, one object at a time: each takes tc.mutex of its own.  The
\* deleted ones come first, then the created, then the updated ones.
handleDelete(g, n) ==
  LET e == gens[g].work IN
  /\ n \in DOMAIN e.Delete
  /\ tc' = Delete(tc, DefaultNamespace, n, Table(e.Delete[n]))
  /\ gens' = [gens EXCEPT ![g].work.Delete = Without(@, n)]

handleCreate(g, n) ==
  LET e == gens[g].work IN
  /\ DOMAIN e.Delete = {} /\ n \in DOMAIN e.Create
  /\ \E outcome \in OutcomesOf[e.Create[n].kind] :
       tc' = CreateIn(tc, DefaultNamespace, n, e.Create[n], outcome)
  /\ gens' = [gens EXCEPT ![g].work.Create = Without(@, n)]

\* Fault: an updated object is created anew.
handleUpdate_Create(g, n) ==
  LET e == gens[g].work IN
  /\ DOMAIN e.Delete = {} /\ DOMAIN e.Create = {} /\ n \in DOMAIN e.Update
  /\ tc' = [CreateIn(tc, DefaultNamespace, n, e.Update[n], "ok") EXCEPT !.lost = tc.lost]
  /\ gens' = [gens EXCEPT ![g].work.Update = Without(@, n)]

handleUpdate(g, n) ==
  LET e == gens[g].work IN
  /\ DOMAIN e.Delete = {} /\ DOMAIN e.Create = {} /\ n \in DOMAIN e.Update
  /\ \E outcome \in Outcomes(tc, DefaultNamespace, n, e.Update[n]) :
       tc' = Update(tc, DefaultNamespace, n, e.Update[n], outcome)
  /\ gens' = [gens EXCEPT ![g].work.Update = Without(@, n)]

HandleObject(g) ==
  /\ \E n \in Names : handleDelete(g, n) \/ handleCreate(g, n) \/ handleUpdate(g, n)
  /\ UNCHANGED registryVars

\* Close, in its three steps: close(done), CloseWatcher, Clean.
CloseDone == gens' = [gens EXCEPT ![Len(gens)].done = TRUE]

CloseClean == tc' = Clean(tc, DefaultNamespace)
=============================================================================
