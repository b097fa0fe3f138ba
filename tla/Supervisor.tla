------------------------------ MODULE Supervisor ------------------------------
(***************************************************************************)
(* pkg/supervisor/supervisor.go with its ObjectRegistry: how a member      *)
(* starts its system controllers, follows the configuration with its       *)
(* business controllers, and closes all of them.  The configuration is a   *)
(* prefix of etcd that other members edit and that the syncer of the       *)
(* registry hands over (ConfigStream: late, and not every revision).       *)
(***************************************************************************)
EXTENDS ObjectRegistry

CONSTANTS
  Super,            \* the supervisor's watcher
  SystemKinds,      \* the system controllers, which are named after their kinds
  MaxEdits          \* bound on the edits of the configuration

DefaultSpec(n) == [kind |-> n, ver |-> 0]

VARIABLES
  store,            \* the configuration in etcd
  edits,            \* number of edits so far
  pulled,           \* the snapshot the registry received last
  registry,         \* the registry's goroutine: "run", "closing" or "done"
  system,           \* s.systemControllers
  business,         \* s.businessControllers
  running,          \* name -> the specs of the instances that were started and not stopped
  failed,           \* history: the names of which an Init or Inherit panicked
  firstHandleDone,  \* the channel was closed
  pc                \* the supervisor: "new", "init", "run", "close", "closing", "closed"

controllerVars == <<system, business, running, failed>>
supervisorVars == <<controllerVars, firstHandleDone, pc>>
configVars == <<store, edits, pulled, registry>>
vars == <<registryVars, configVars, supervisorVars>>

-----------------------------------------------------------------------------
(* The configuration and the registry's goroutine.                          *)

IsSystem(spec) == Valid(spec) /\ CategoryOf[spec.kind] = "SystemController"

\* The API of some member creates, updates or deletes an object.  An update
\* keeps the kind; a system controller is not deleted.  createObject answers
\* that it does not create one either, and does so, under any name that is free.
Edit ==
  /\ edits < MaxEdits
  /\ \E n \in Names : \E s \in Specs[n] \cup {None} :
       /\ s # store[n]
       /\ s = None => ~IsSystem(store[n])
       /\ s # None /\ store[n] # None => s.kind = store[n].kind
       /\ store' = [store EXCEPT ![n] = s]
  /\ edits' = edits + 1
  /\ UNCHANGED <<pulled, registry>>

\* ObjectRegistry.run receives a snapshot.
ReceiveConfig ==
  /\ registry = "run" /\ store # pulled
  /\ applyConfig(store)
  /\ pulled' = store
  /\ UNCHANGED <<store, edits, registry>>

\* The channel of the closed syncer yields the nil map as long as the select
\* does not choose or.done.
ReceiveNil ==
  /\ registry = "closing"
  /\ applyConfig(Nothing)
  /\ UNCHANGED configVars

RegistryReturns ==
  /\ registry = "closing" /\ Unlocked
  /\ registry' = "done"
  /\ UNCHANGED <<registryVars, store, edits, pulled>>

RegistryStep ==
  /\ \/ ReceiveConfig \/ ReceiveNil \/ RegistryReturns
     \/ ((\E w \in Watchers : Notify(w)) \/ Applied) /\ UNCHANGED configVars
  /\ UNCHANGED supervisorVars

-----------------------------------------------------------------------------

Init ==
  /\ RegistryInit
  /\ store \in Configs /\ edits = 0 /\ pulled = Nothing /\ registry = "run"
  /\ system = Nothing /\ business = Nothing /\ running = [n \in Names |-> {}]
  /\ failed = {}
  /\ firstHandleDone = FALSE /\ pc = "new"

\* MustNew, after the registry was started.
MustNew ==
  /\ pc = "new" /\ NewWatcher(Super)
  /\ pc' = "init"
  /\ UNCHANGED <<configVars, controllerVars, firstHandleDone>>

\* initSystemControllers and syncSystemControllerInCluster for one of them,
\* then go s.run() after the last one.
initSystemController(n) ==
  /\ pc = "init" /\ system[n] = None
  /\ system' = [system EXCEPT ![n] = DefaultSpec(n)]
  /\ \E outcome \in OutcomesOf[n] :
       IF outcome = "ok"
       THEN running' = [running EXCEPT ![n] = @ \cup {DefaultSpec(n)}] /\ UNCHANGED failed
       ELSE failed' = failed \cup {n} /\ UNCHANGED running
  /\ store' = IF store[n] = None THEN [store EXCEPT ![n] = DefaultSpec(n)] ELSE store
  /\ pc' = IF \A k \in SystemKinds \ {n} : system[k] # None THEN "run" ELSE pc
  /\ UNCHANGED <<edits, pulled, registry, business, firstHandleDone>>

\* Fault: Inherit leaves its predecessor running.
Inherited_Keep(run, old, new, outcome) == run \cup {new}

\* What Inherit makes of the running instances of a name.
Inherited(run, old, new, outcome) ==
  IF outcome = "early" THEN run
  ELSE IF outcome = "late" THEN run \ {old} ELSE (run \ {old}) \cup {new}

\* What handleEvent makes of the entries of one name in the two maps, and of its
\* instances.
Entry(sys, bus, run, ok) == [system |-> sys, business |-> bus, running |-> run, ok |-> ok]

HandleDelete(x) ==
  IF x.business = None THEN {x}
  ELSE {Entry(x.system, None, x.running \ {x.business}, TRUE)}

InheritSystem(x, spec) ==
  {Entry(spec, x.business, Inherited(x.running, x.system, spec, outcome), outcome = "ok") :
     outcome \in InheritOutcomes(x.system, spec)}

\* A controller whose Init panicked is stored and does not run.
HandleCreate(x, spec) ==
  IF x.system # None THEN InheritSystem(x, spec)
  ELSE IF x.business # None THEN {x}
  ELSE {Entry(None, spec, IF outcome = "ok" THEN x.running \cup {spec} ELSE x.running,
              outcome = "ok") : outcome \in OutcomesOf[spec.kind]}

\* Fault: an update of a business controller is lost.
HandleUpdate_Skip(x, spec) ==
  IF x.system # None THEN InheritSystem(x, spec) ELSE {x}

HandleUpdate(x, spec) ==
  IF x.system # None THEN InheritSystem(x, spec)
  ELSE IF x.business = None THEN {x}
  ELSE {Entry(None, spec, Inherited(x.running, x.business, spec, outcome), outcome = "ok") :
          outcome \in InheritOutcomes(x.business, spec)}

\* The three loops of handleEvent, for the name n, which is in one of the maps of
\* the event at most: what may come of it.  Names do not depend on each other, so
\* that the order within a loop does not matter.
AfterEvent(e, n) ==
  LET x == Entry(system[n], business[n], running[n], TRUE)
  IN  IF n \in DOMAIN e.Delete THEN HandleDelete(x)
      ELSE IF n \in DOMAIN e.Create THEN HandleCreate(x, e.Create[n])
      ELSE IF n \in DOMAIN e.Update THEN HandleUpdate(x, e.Update[n]) ELSE {x}

handleEvent ==
  /\ pc = "run" /\ eventChan[Super] # <<>>
  /\ LET After == [n \in Names |-> AfterEvent(Head(eventChan[Super]), n)]
     IN  \E x \in {f \in [Names -> UNION Range(After)] : \A n \in Names : f[n] \in After[n]} :
           /\ system' = [n \in Names |-> x[n].system]
           /\ business' = [n \in Names |-> x[n].business]
           /\ running' = [n \in Names |-> x[n].running]
           /\ failed' = failed \cup {n \in Names : ~x[n].ok}
  /\ eventChan' = [eventChan EXCEPT ![Super] = Tail(@)]
  /\ firstHandleDone' = TRUE
  /\ UNCHANGED <<entities, watchers, view, applying, moved, configVars, pc>>

\* Close sends on s.done, which run may choose while events are waiting.
Close ==
  /\ pc = "run" /\ pc' = "close"
  /\ UNCHANGED <<registryVars, configVars, controllerVars, firstHandleDone>>

\* close: the watcher is closed, under or.mutex, then the registry.
closeWatcher ==
  /\ pc = "close" /\ CloseWatcher(Super)
  /\ registry' = "closing" /\ pc' = "closing"
  /\ UNCHANGED <<store, edits, pulled, controllerVars, firstHandleDone>>

\* The business controllers are closed, then the system controllers.
StopControllers ==
  /\ system' = [n \in Names |-> IF n \in SystemKinds THEN None ELSE system[n]]
  /\ running' = [n \in Names |-> running[n] \ {business[n], system[n]}]
  /\ pc' = "closed"
  /\ UNCHANGED <<business, failed, firstHandleDone>>

closeControllers == pc = "closing" /\ StopControllers /\ UNCHANGED <<registryVars, configVars>>

SupervisorStep ==
  \/ MustNew \/ handleEvent \/ Close \/ closeWatcher \/ closeControllers
  \/ (\E n \in SystemKinds : initSystemController(n)) /\ UNCHANGED registryVars

Next ==
  \/ Edit /\ UNCHANGED <<registryVars, supervisorVars>>
  \/ RegistryStep
  \/ SupervisorStep

Spec == Init /\ [][Next]_vars

(* The goroutines of the registry and of the supervisor run; edits and      *)
(* Close are free to happen or not.                                         *)
Fairness ==
  /\ WF_vars(RegistryStep /\ ~ReceiveNil) /\ WF_vars(MustNew)
  /\ WF_vars(\E n \in SystemKinds : initSystemController(n) /\ UNCHANGED registryVars)
  /\ WF_vars(handleEvent) /\ WF_vars(closeWatcher) /\ WF_vars(closeControllers)

FairSpec == Spec /\ Fairness
-----------------------------------------------------------------------------

\* The controllers that a map from names to specs asks for, system controllers
\* under a name of their own included.
WantedBusiness(config) ==
  [n \in Names |-> IF n \notin SystemKinds /\ Valid(config[n]) /\ Selects(Super, config[n])
                   THEN config[n] ELSE None]

\* The controllers under the name n are those of a map from names to specs.
Follows(config, n) ==
  /\ business[n] = WantedBusiness(config)[n]
  /\ n \in SystemKinds /\ config[n] # None => system[n] = config[n]

(* 6.1.Developer-Guide.md:91, "The supervisor has all references of running *)
(* objects": whatever was started and not stopped can be reached through    *)
(* the supervisor's maps.                                                   *)
HasReferences ==
  pc # "closed" => \A n \in Names : running[n] \subseteq {business[n], system[n]}

(* supervisor.go:215,233,312: of a name whose objects never panicked, the   *)
(* controllers in the maps are the ones that were started and not stopped:  *)
(* none was stopped behind their back, none is running that they lost,      *)
(* also when an object was replaced by one of another kind or category, and *)
(* after close nothing runs.                                                *)
ReferencesExact ==
  \A n \in Names \ failed :
    running[n] = IF pc = "closed" THEN {} ELSE {business[n], system[n]} \ {None}

(* supervisor.go:178: when no event is waiting, the controllers are those   *)
(* of the registry, a controller that panicked included.  A name that was   *)
(* taken over by an object of another category is not followed any more.    *)
FollowsRegistry ==
  (pc = "run" /\ Unlocked /\ eventChan[Super] = <<>>) =>
     \A n \in Names \ moved : Follows(entities, n)

(* Once the edits pause, the controllers are the configured ones, although  *)
(* the registry and the supervisor are behind by any number of revisions,   *)
(* and edits may have been folded into one.  An object whose spec became    *)
(* invalid keeps running with its last valid one, and a name whose category *)
(* changed in one snapshot is not followed any more.                        *)
Converges ==
  <>[](pc \in {"close", "closing", "closed"} \/
       \A n \in Names \ moved : store[n] = None \/ Valid(store[n]) => Follows(store, n))

(* supervisor.go:301: Close closes the supervisor: it does not wait for     *)
(* ever.                                                                    *)
CloseCompletes == pc = "close" ~> pc = "closed"
=============================================================================
