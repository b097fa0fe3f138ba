----------------------------- MODULE ControlPlane -----------------------------
(***************************************************************************)
(* The control plane of one member, from the configuration in etcd to the  *)
(* running traffic gates and pipelines: supervisor and registry, the       *)
(* RawConfigTrafficController with its generations, and the                *)
(* TrafficController.                                                      *)
(*                                                                         *)
(* The supervisor writes the spec of a system controller to etcd when it   *)
(* is not there yet.  Either way the registry reports it back, and the     *)
(* supervisor handles that as an update: the controller that was just      *)
(* started is inherited while it handles its first events.  The            *)
(* TrafficController's own Inherit hands the same namespaces on and has no *)
(* effect here.                                                            *)
(***************************************************************************)
EXTENDS Supervisor, RawConfigTraffic

CONSTANT Raw        \* the system controller RawConfigTrafficController

VARIABLE
  overlap           \* history: a generation was inherited while handling an event,
                    \* or took an event after it was inherited

planeVars == <<vars, tc, gens, overlap>>
trafficVars == <<tc, gens, overlap>>

ControlInit ==
  /\ Init
  /\ tc = NewTrafficController /\ gens = <<>> /\ overlap = FALSE

\* RawConfigTrafficController.Init registers its watcher.
StartController ==
  /\ initSystemController(Raw) /\ InitController
  /\ UNCHANGED <<tc, overlap>>

\* The supervisor's event may tell of the controller itself.
HandleEvent ==
  /\ handleEvent
  /\ LET e == Head(eventChan[Super]) IN
     IF Raw \in DOMAIN e.Create \cup DOMAIN e.Update
     THEN /\ InheritController
          /\ overlap' = (overlap \/ Handling(Len(gens)))
     ELSE UNCHANGED <<gens, overlap>>
  /\ UNCHANGED tc

\* The system controllers are closed one after the other: first
\* RawConfigTrafficController, then TrafficController.
CloseController ==
  /\ \/ /\ pc = "closing" /\ CloseDone /\ pc' = "unwatch"
        /\ UNCHANGED <<registryVars, controllerVars, firstHandleDone, tc>>
     \/ /\ pc = "unwatch" /\ CloseWatcher(Traffic) /\ pc' = "clean"
        /\ UNCHANGED <<controllerVars, firstHandleDone, tc, gens>>
     \/ /\ pc = "clean" /\ CloseClean /\ pc' = "cleaned"
        /\ UNCHANGED <<registryVars, controllerVars, firstHandleDone, gens>>
     \/ /\ pc = "cleaned" /\ StopControllers
        /\ tc' = CloseSpace(tc, DefaultNamespace)
        /\ UNCHANGED <<registryVars, gens>>
  /\ UNCHANGED <<configVars, overlap>>

\* getTrafficController would panic once the TrafficController was removed, and
\* take the process with it: no event is taken then.
ControllerStep(g) ==
  /\ \/ /\ TakeEvent(g) /\ pc # "closed"
        /\ overlap' = (overlap \/ gens[g].done)
     \/ (RunReturns(g) \/ HandleObject(g)) /\ UNCHANGED overlap
  /\ UNCHANGED <<configVars, supervisorVars>>

ControlNext ==
  \/ /\ \/ Edit /\ UNCHANGED <<registryVars, supervisorVars>>
        \/ RegistryStep \/ MustNew \/ Close \/ closeWatcher
     /\ UNCHANGED trafficVars
  \/ StartController \/ HandleEvent \/ CloseController
  \/ \E g \in 1 .. Len(gens) : ControllerStep(g)

ControlSpec == ControlInit /\ [][ControlNext]_planeVars

(* All goroutines run.  A select does not prefer an event to done for ever. *)
ControlFairness ==
  /\ WF_planeVars(RegistryStep /\ ~ReceiveNil /\ UNCHANGED trafficVars)
  /\ WF_planeVars(MustNew /\ UNCHANGED trafficVars) /\ WF_planeVars(StartController)
  /\ WF_planeVars(HandleEvent) /\ WF_planeVars(closeWatcher /\ UNCHANGED trafficVars)
  /\ WF_planeVars(CloseController)
  /\ \A g \in 1 .. MaxEdits + 2 :
       WF_planeVars(/\ g \in 1 .. Len(gens) /\ ControllerStep(g)
                    /\ gens[g].done => ~TakeEvent(g))

ControlFairSpec == ControlSpec /\ ControlFairness

-----------------------------------------------------------------------------

\* The traffic gates and pipelines a map from names to specs asks for.
WantedTraffic(config) ==
  [n \in Names |-> IF Valid(config[n]) /\ Selects(Traffic, config[n])
                   THEN config[n] ELSE None]

\* The names whose objects the TrafficController may have lost: a creation
\* overwrote one, or one panicked.
LostNames == {key[2] : key \in tc.lost}

Quiet ==
  /\ pc = "run" /\ Unlocked /\ Traffic \in watchers /\ eventChan[Traffic] = <<>>
  /\ \A g \in 1 .. Len(gens) : ~Handling(g)

\* Under the name n exactly what a map from names to specs asks for is stored and
\* is running.
TrafficFollows(config, n) ==
  LET wanted == WantedTraffic(config)[n] IN
  \A table \in Tables :
    IF wanted # None /\ Table(wanted) = table
    THEN /\ Has(tc, DefaultNamespace, n, table)
         /\ tc.spaces[DefaultNamespace][table][n] = wanted
         /\ InstancesOf(tc, DefaultNamespace, n, table) = {Instance(DefaultNamespace, n, wanted)}
    ELSE /\ ~Has(tc, DefaultNamespace, n, table)
         /\ InstancesOf(tc, DefaultNamespace, n, table) = {}

(* README.md:94: configuration is updated in place: with no event waiting   *)
(* or being handled, exactly the configured traffic objects are running,    *)
(* except under a name whose category or kind changed in one snapshot, or   *)
(* whose object panicked.                                                   *)
TrafficUpToDate ==
  Quiet => \A n \in Names \ (moved \cup LostNames) : TrafficFollows(entities, n)

(* rawconfigtrafficcontroller.go:98: as long as no two generations handle   *)
(* events at the same time, exactly the configured traffic objects are      *)
(* running when no event is waiting.                                        *)
TrafficUpToDateAlone == ~overlap => TrafficUpToDate

\* The supervisor cannot start RawConfigTrafficController: its Init waits for the
\* mutex of the registry, which waits for room in the channel of the supervisor,
\* and nobody receives from that before all system controllers were started.
StartStuck ==
  /\ pc = "init" /\ applying.busy
  /\ Super \in applying.todo /\ Len(eventChan[Super]) = EventCap

(* Once the edits pause, exactly the configured traffic objects run, unless *)
(* the supervisor got stuck while it started.                               *)
TrafficConverges ==
  <>[](\/ overlap \/ StartStuck \/ pc \notin {"new", "init", "run"}
       \/ \A n \in Names \ (moved \cup LostNames) :
            store[n] = None \/ Valid(store[n]) => TrafficFollows(store, n))

(* supervisor.go:295, "FirstHandleDone returns the firstHandleDone channel, *)
(* which will be closed after creating all objects at first time": unless   *)
(* it is closed before, a supervisor handles its first event.               *)
FirstHandles == <>(firstHandleDone \/ pc \notin {"new", "init", "run"})
=============================================================================
