---------------------------- MODULE MCControlPlane -----------------------------
(* Small instances of Supervisor and of ControlPlane for TLC.  The initial     *)
(* state picks the one that runs.                                              *)
EXTENDS ControlPlane

CONSTANTS
  Parts,
  MaxTrafficEdits,    \* bound on the edits in ControlPlane
  Panics              \* whether Init and Inherit panic for reasons of their own

VARIABLE part

K(k, v) == [kind |-> k, ver |-> v]

\* Raw stands for a system controller that is started with the supervisor, Status
\* for one that is only created through the API.  Biz closes its predecessor and
\* starts, Other asserts the type of its predecessor and closes it last.
MCKinds == {"Raw", "Status", "Biz", "Other", "HTTPServer", "MQTTProxy", "Pipeline"}
MCCategoryOf ==
  [k \in MCKinds |-> IF k \in {"Raw", "Status"} THEN "SystemController"
                     ELSE IF k \in {"Biz", "Other"} THEN "BusinessController"
                     ELSE IF k = "Pipeline" THEN "Pipeline" ELSE "TrafficGate"]
MCAsserting == {"Raw", "Other", "HTTPServer", "Pipeline"}
MCOutcomesOf ==
  [k \in MCKinds |->
     IF ~Panics \/ k \in {"Raw", "Status", "HTTPServer"} THEN {"ok"}
     ELSE IF k \in {"Biz", "MQTTProxy"} THEN {"ok", "late"} ELSE {"ok", "early"}]
MCPipelines == {K("Pipeline", 1)}
MCSpecs ==
  [n \in Names |->
     IF n = "Raw" THEN {K("Raw", 0), K("Raw", 1)}
     ELSE IF n = "b"
     THEN {K("Biz", 1), K("Biz", 2), K("Other", 1), K("Status", 1), K("HTTPServer", 1), K("Unknown", 1)}
     ELSE {K("HTTPServer", 1), K("HTTPServer", 2), K("MQTTProxy", 1)} \cup MCPipelines]
MCFilter ==
  [w \in {"super", "traffic"} |->
     IF w = "super" THEN {"SystemController", "BusinessController"}
     ELSE {"TrafficGate", "Pipeline"}]

\* One object besides the system controller is enough in each part.
InPart(config) ==
  IF part = "supervisor" THEN config["server"] = None ELSE config["b"] = None

mcVars == <<part, planeVars>>

\* What an earlier run of the member may have left in etcd: the part "traffic" begins with little of it.
MCInit ==
  /\ part \in Parts /\ ControlInit /\ InPart(store)
  /\ part # "supervisor" => store["Raw"] # K("Raw", 1) /\ store["server"] \in {None, K("HTTPServer", 1)}

SupervisorNext == part = "supervisor" /\ Next /\ UNCHANGED trafficVars

\* The properties of the part "traffic" hold of what follows an overlap by their
\* definition; the part "overlap" goes on there.
TrafficNext ==
  /\ part = "overlap" \/ (part = "traffic" /\ ~overlap)
  /\ ControlNext /\ edits' <= MaxTrafficEdits

MCNext == (SupervisorNext \/ TrafficNext) /\ InPart(store') /\ UNCHANGED part

MCSpec == MCInit /\ [][MCNext]_mcVars

Alone(A) == part = "supervisor" /\ A /\ UNCHANGED trafficVars
Composed(A) == part = "traffic" /\ A

\* Fairness and ControlFairness, each in its part.
MCFairness ==
  /\ WF_planeVars(Alone(RegistryStep /\ ~ReceiveNil)) /\ WF_planeVars(Alone(MustNew))
  /\ WF_planeVars(Alone((\E n \in SystemKinds : initSystemController(n)) /\ UNCHANGED registryVars))
  /\ WF_planeVars(Alone(handleEvent)) /\ WF_planeVars(Alone(closeWatcher))
  /\ WF_planeVars(Alone(closeControllers))
  /\ WF_planeVars(Composed(RegistryStep /\ ~ReceiveNil /\ UNCHANGED trafficVars))
  /\ WF_planeVars(Composed(MustNew /\ UNCHANGED trafficVars))
  /\ WF_planeVars(Composed(StartController)) /\ WF_planeVars(Composed(HandleEvent))
  /\ WF_planeVars(Composed(closeWatcher /\ UNCHANGED trafficVars))
  /\ WF_planeVars(Composed(CloseController))
  /\ \A g \in 1 .. MaxTrafficEdits + 2 :
       WF_planeVars(Composed(/\ g \in 1 .. Len(gens) /\ ControllerStep(g)
                             /\ gens[g].done => ~TakeEvent(g)))

MCFairSpec == MCSpec /\ MCFairness

(* Converges, in the part it is about.                                      *)
SupervisorConverges == part = "supervisor" => Converges

(* TrafficConverges, in the part it is about.                               *)
PlaneConverges == part = "traffic" => TrafficConverges
=============================================================================
