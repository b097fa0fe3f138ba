------------------------------ MODULE MCDataPlane -----------------------------
(* Small instances of the parts of the data plane, and of the registries that *)
(* its objects come from, for TLC.  The parts do not share state; the initial *)
(* state picks the one that runs.                                             *)
EXTENDS ServerRuntime, LimitListener, PipelineFlow, RateLimiter, ObjectPool,
        RegistryWatch, TrafficSpaces

CONSTANT Parts

VARIABLE part

S(p, n, o, r) == [proto |-> p, port |-> n, options |-> o, rules |-> r]
MCServerSpecs ==
  {S("http", 1, 1, 1), S("http", 1, 2, 1), S("http", 2, 1, 1), S("http", 1, 1, 2),
   S("http3", 1, 1, 1), S("http3", 2, 1, 1)}

N(f, a, j) == [filter |-> f, alias |-> a, jumpIf |-> j]
J(r, t) == [x \in {r} |-> t]
MCJumps ==
  {<<>>, J("r", "X"), J("r", "A"), J("", "X"), J("r", "END"), J("r", "X") @@ J("", "END")}
MCFlowNodes == {N("A", a, j) : a \in {"", "X"}, j \in MCJumps} \cup {N("END", "", <<>>)}
MCSideFlows == {<<>>, <<N("A", "", <<>>)>>}

P(timeout, refresh, limit, counts) ==
  [timeout |-> timeout, refresh |-> refresh, limit |-> limit, counts |-> counts]
MCPolicies ==
  {P(5, 2, <<2>>, {<<1>>}), P(1, 2, <<1>>, {<<1>>}),
   P(0, 3, <<2, 3>>, {<<1, 0>>, <<1, 2>>, <<1, 5>>}), P(0, 2, <<3>>, {<<2>>, <<4>>})}

K(k, v) == [kind |-> k, ver |-> v]
MCKinds == {"Biz", "HTTPServer", "MQTTProxy", "Pipeline"}
MCCategoryOf ==
  [k \in MCKinds |-> IF k = "Biz" THEN "BusinessController"
                     ELSE IF k = "Pipeline" THEN "Pipeline" ELSE "TrafficGate"]
\* a may become an object of another category, or of a kind nobody knows.  Names do
\* not depend on each other in a snapshot or an event, so that b stays out of them.
MCSpecs ==
  [n \in {"a", "b"} |->
     IF n = "a" THEN {K("Biz", 1), K("Biz", 2), K("HTTPServer", 1), K("Unknown", 1)} ELSE {}]
MCFilter ==
  [w \in {"super", "traffic"} |->
     IF w = "super" THEN {"BusinessController"} ELSE {"TrafficGate", "Pipeline"}]

\* An HTTPServer asserts the type of its predecessor, an MQTTProxy does not and may
\* panic after it closed it, a Pipeline may panic before.
MCAsserting == {"HTTPServer", "Pipeline"}
MCOutcomesOf ==
  [k \in MCKinds |-> IF k = "Pipeline" THEN {"ok", "early"}
                     ELSE IF k = "MQTTProxy" THEN {"ok", "late"} ELSE {"ok"}]
MCPipelines == {K("Pipeline", 1)}
MCObjectSpecs == {K("HTTPServer", 1), K("HTTPServer", 2), K("MQTTProxy", 1)} \cup MCPipelines

\* The initial state of a part that does not run does not matter.
OnlyIf(p, fixed) == part = p \/ fixed

MCInit ==
  /\ part \in Parts
  /\ RuntimeInit /\ OnlyIf("server", events[1].spec = S("http", 1, 1, 1))
  /\ ListenInit /\ OnlyIf("listener", realCapacity = 1)
  /\ LimiterInit /\ OnlyIf("limiter", policy.timeout = 1)
  /\ PoolInit /\ OnlyIf("pool", size = 0)
  /\ WatchInit /\ SpacesInit /\ FlowInit
  /\ OnlyIf("flow", Len(flows.main) + Len(flows.before) + Len(flows.after) = 0 /\ fallthrough = {})

MCNext ==
  /\ \/ part = "server" /\ RuntimeNext
        /\ UNCHANGED <<listenVars, flowVars, limiterVars, poolVars, watchVars, tc>>
     \/ part = "listener" /\ ListenNext
        /\ UNCHANGED <<runtimeVars, flowVars, limiterVars, poolVars, watchVars, tc>>
     \/ part = "flow" /\ FlowNext
        /\ UNCHANGED <<runtimeVars, listenVars, limiterVars, poolVars, watchVars, tc>>
     \/ part = "limiter" /\ LimiterNext
        /\ UNCHANGED <<runtimeVars, listenVars, flowVars, poolVars, watchVars, tc>>
     \/ part = "pool" /\ PoolNext
        /\ UNCHANGED <<runtimeVars, listenVars, flowVars, limiterVars, watchVars, tc>>
     \/ part = "registry" /\ WatchNext
        /\ UNCHANGED <<runtimeVars, listenVars, flowVars, limiterVars, poolVars, tc>>
     \/ part = "spaces" /\ SpacesNext
        /\ UNCHANGED <<runtimeVars, listenVars, flowVars, limiterVars, poolVars, watchVars>>
  /\ UNCHANGED part

mcVars == <<part, runtimeVars, listenVars, flowVars, limiterVars, poolVars, watchVars, tc>>

\* RuntimeFairness, in its part: the only liveness property is one of the server's.
MCFairness ==
  /\ WF_runtimeVars(part = "server" /\ fsm)
  /\ WF_runtimeVars(part = "server" /\ Check)
  /\ WF_runtimeVars(part = "server" /\ \E s \in servers : ListenUDP(s) \/ Serve(s) \/ Report(s))

MCSpec == MCInit /\ [][MCNext]_mcVars /\ MCFairness
=============================================================================
