# Easegress in TLA+

A model of [Easegress](../src) in TLA+: how the configuration in etcd becomes
running servers and pipelines, and what a request meets on its way. TLC checks
small instances (the `.cfg` files), TLAPS proves some of the invariants for
every value of the constants (the `*Proofs` modules). `PROJECT.json` maps every
definition to the lines it models and lists components, runs, hazards, findings
and theorems in a form a program can read; this file explains them.

All paths below are relative to `src/`.

## 1. The system and its parts

An Easegress member is one Go process. Members share an etcd prefix that holds
the specs of all objects.

**Control plane.** The admin API (`pkg/api`) edits the prefix. In every member a
*syncer* (`pkg/cluster/syncer.go`) turns the prefix into a channel of snapshots.
The *object registry* (`pkg/supervisor/object.go`) compares each snapshot with
what it holds and tells its watchers what was created, updated and deleted. Two
watchers matter: the *supervisor* (`pkg/supervisor/supervisor.go`) runs the
system and business controllers, and the *raw config traffic controller*
(`pkg/object/rawconfigtrafficcontroller`) makes the *traffic controller*
(`pkg/object/trafficcontroller`) run traffic gates (HTTP, gRPC and MQTT servers)
and pipelines, grouped in namespaces. An object is replaced by calling `Inherit`
on its next generation with the previous one as argument.

**Data plane.** A gate owns a *runtime* (`pkg/object/httpserver/runtime.go`,
`pkg/object/grpcserver/runtime.go`), a state machine around a listening server
whose connections a *limit listener* bounds. A request is routed to a *pipeline*
(`pkg/object/pipeline`), possibly between the flows of a *global filter*, and
walks through filters: *rate limiter*, proxies with *circuit breaker*, retry,
load balancer, and, for gRPC, a *connection pool*.

**Around them**: service registries, the MQTT broker, the mesh, FaaS, ingress and
AI controllers, status synchronisation, certificates.

### Inventory

| Part | Where | State |
|---|---|---|
| Syncer | `pkg/cluster/syncer.go` | modelled |
| Object registry | `pkg/supervisor/object.go` | modelled |
| Supervisor | `pkg/supervisor/supervisor.go` | modelled |
| Raw config traffic controller | `pkg/object/rawconfigtrafficcontroller` | modelled |
| Traffic controller | `pkg/object/trafficcontroller` | modelled |
| Circuit breaker | `pkg/util/circuitbreaker`, `pkg/resilience` | modelled |
| Connection limit | `pkg/util/limitlistener`, `pkg/util/sem` | modelled |
| HTTP, gRPC server | `pkg/object/{httpserver,grpcserver}` | the runtime; not the mux |
| Pipeline, global filter | `pkg/object/{pipeline,globalfilter}` | validation and the way of a request; not the generations |
| Rate limiter | `pkg/util/ratelimiter`, `pkg/filters/ratelimiter` | limiters and their inheritance; not requests in an old generation |
| Object pool | `pkg/util/objectpool`, `pkg/filters/proxies/grpcproxy` | Get, Put, wake-ups; not Close |
| Cluster client | `pkg/cluster` | watch and pull as the syncer sees them; not lease, session, mutex |
| MQTT proxy | `pkg/object/mqttproxy` | only the policies of its rate limiter |
| Object API, service registry, server pool and load balancer, HTTP proxy, retry, status sync, certificates, FaaS state machine | | planned, section 7 |
| Mesh, ingress, gateway, AI, WAF, other filters, protocols, command line, utilities | | not modelled, section 6 |

## 2. The modules

| Module | Models | State | Actions |
|---|---|---|---|
| `CallWindow` | `CountBasedWindow`, `TimeBasedWindow` | operators on window records | |
| `CircuitBreaker` | `AcquirePermission`, `RecordResult`, `SetState`, and `Wrap` of the resilience package | `cb` is the struct, `calls` the requests in flight, `recorded` a history of the results the window should cover | `Call`, `ShortCircuit`, `Return`, `SetState`, `Tick` |
| `ConfigStream` | the abstract promise of a syncer | revisions of the prefix, what the consumer saw last | `Change`, `Deliver`, `CloseStream`, `EndOfStream` |
| `Syncer` | `Syncer.run`; etcd's watch and the writers are external | `watch`, `responses`, the local `data`, the channel `ch` | one action per branch of the select, the blocking send, the environment |
| `Objects` | names, `None`, and what `InitWithRecovery` and `InheritWithRecovery` come to: done, a panic before the predecessor was closed, or one after | | |
| `ObjectRegistry` | `applyConfig`, `NewWatcher`, `CloseWatcher` | `or.entities`, `or.watchers`, each watcher's map and channel, the update under way (`or.mutex` is held) | `applyConfig`, `Notify`, `Applied`, `NewWatcher`, `CloseWatcher` |
| `RegistryWatch` | the registry with owners of watchers | plus `handled`, the map an owner makes of its events | snapshots of any contents; watchers open, close and handle events |
| `TrafficController` | `pkg/object/trafficcontroller` as functions from state to state, since every operation holds `tc.mutex` | namespaces, running instances, history `lost` | |
| `TrafficSpaces` | the traffic controller with clients that do what its interface lets them | `tc` | one action per operation |
| `Supervisor` | `MustNew`, `initSystemControllers`, `run`, `handleEvent`, `close`, over `ObjectRegistry` | controllers in the maps and instances that run | one per method; `handleEvent` is one step, because nobody else writes its maps |
| `RawConfigTraffic` | one goroutine per generation on one watcher | `gens` | take an event, handle one object, return, Inherit, Close |
| `ControlPlane` | the composition of the three above | | |
| `ServerRuntime` | the state machine of the HTTP and gRPC runtimes | `rt`, the event channel, the servers started so far with their phase and round, ports others hold | `fsm` (one handler per event), `Check` (the ticker), steps of a server's goroutine, `Reload`, `CloseRuntime` |
| `LimitListener` | `Accept`, `Close`, `SetMaxCount` over x/sync's weighted semaphore (external) | weight taken, its queue, connections, goroutines of `SetMaxCount` | |
| `PipelineFlow` | `ValidateJumpIf`, `doHandle`, `HandleWithBeforeAfter` | the request's place and the filters it ran | |
| `RateLimiter` | `acquirePermission` of both limiters, `reload` of the filter | `rl`, history `granted` | |
| `ObjectPool` | `Get`, `slowGet`, `Put` and the condition variable | `size`, number in `store`, phase of every caller | the steps between which another goroutine can act |
| `MC*` | constants of the instances | | |
| `*Proofs` | theorems | | |

Conventions. A definition has the name of the function it models where it can.
A name with a suffix such as `transitTo_NoReset` is a fault: a definition changed
the way a plausible mistake would change it. No specification uses it; it is
there to show that a property notices (`mutants` in `PROJECT.json` pairs each
property of each passing run with one). History variables are marked in the
modules (`recorded`, `seenAt` and the revisions in `Syncer`, `moved`,
`failed`, `lost`, `overlap`, `granted`, `ran`, `largest`).

Composition. `ControlPlane` extends `Supervisor` and `RawConfigTraffic`, which
share the variables of `ObjectRegistry`: an event of the registry for the traffic
controller's watcher is the same channel in both. The registry is fed by
`ReceiveConfig`, which corresponds to the delivery step of `ConfigStream` (a newer
snapshot, different from the last one, some skipped); `Syncer` is shown to implement
`ConfigStream`, and that is how the two halves of the control plane meet.

The MC modules put several instances side by side that share no state, or, in
`MCControlPlane`, are never active together; a variable `part` (`breaker` in
`MCCircuitBreaker`) picks one in the initial state, so that one run explores each of
them separately. `MCControlPlane` has the supervisor alone (`supervisor`), the
composition (`traffic`), and the composition beyond the first overlap of two
generations (`overlap`).

### Objects that are lost

Three things the code does take objects out of its own hands. Nothing in the model
prevents them, and the state remembers them by name:

* `moved` (registry): one snapshot replaced an entity by one of another category.
  The API refuses such an update, but a deletion and a creation may be folded into
  one snapshot. The watcher of the new category hears of an update of an object it
  does not have, the watcher of the old one hears nothing.
* `failed` (supervisor): Init or Inherit panicked. The entity is stored although
  nothing runs, or although the predecessor still does. Inherit of a kind that
  asserts its predecessor's type panics whenever the kind changed.
* `tc.lost` (traffic controller): the same, or a client created an object under a
  name that was taken. `CreateTrafficGate` and `CreatePipeline` do not look; the
  mesh and FaaS workers do create over what they stored.

Each of them has a run that shows it or a hazard that names it. The properties of
the passing runs say how far the damage goes: to that name, and for `moved` only in
one direction (`ViewExact`: what the filter selects is there).

## 3. The runs

Passing runs:

| Run | Instance | What it shows |
|---|---|---|
| `CircuitBreaker` | 2 callers; a count window of 3 with 1 forced transition and 4 ticks, and a time window of 2 s at 2 ticks per second with 7 ticks | Totals are the counts over what the window covers (`WindowExact`), also across idle periods longer than the window; every half open permission is in flight or recorded (`HalfOpenBudget`); a result that is accepted meets Closed or HalfOpen (`CallsOfPermittingState`); half open does not last for ever while requests come and go (`HalfOpenDecides`) |
| `Syncer` | 2 keys, 2 values, 3 revisions, channel of 1 | `Syncer` implements `ConfigStream` (`ImplementsStream`); the comparison is exact (`ComparesContents`); lost responses are made up for by the ticker (`ConsumerConverges`) |
| `ControlPlane`, part `supervisor` | the system controller Raw and one name under which two business controllers (one asserts its predecessor's type), a system controller, a traffic gate and an unknown kind come and go; 3 edits | Of a name that never panicked, the maps are what runs, and nothing runs after close (`ReferencesExact`); the maps follow the registry (`FollowsRegistry`) and end up as configured (`SupervisorConverges`), for names that kept their category |
| `ControlPlane`, part `traffic` | Raw and one name with two kinds of gates and a pipeline; 2 edits | Exactly the configured gates and pipelines are stored and run when nothing is under way (`TrafficUpToDateAlone`), and eventually (`PlaneConverges`), as long as no two generations of the controller handled events at once and the member did not get stuck at its start |
| `DataPlane` | see below | The runtime has a server of the current spec (`RunningServes`), blames no server for another's failure (`FailedIsDead`), leaves none behind (`NoServerLeft`), retries and closes (`RetriesAndCloses`). The connection limit holds under resizing (`WithinLimit`) and loses no slot (`NoSlotLost`). Jumps of validated flows land (`JumpsLand`) and filters run in the order written (`RunsAsWritten`). The rate limiter keeps the rate over every stretch of periods (`WithinRate`), is fair (`WaitsInOrder`) and rejects only when full (`RejectsOnlyFull`). The pool counts exactly (`SizeExact`), and there are never more objects than the largest maximum so far, so that Put blocks only after a maximum above the capacity (`PutFindsRoom`). A watcher's map has what its filter selects, and nothing else but moved names (`ViewExact`), its events lead there (`EventsExact`), and none is a BUG for the owner unless the name was moved (`EventsApplicable`). No namespace outlives its objects (`SpaceHasObjects`), and a stored object runs, once, with the current namespace, unless its name was lost (`InstancesExact`) |

Runs that end in a violation, each a disagreement between the code and what a
document or comment says of it:

| Run | Property | What happens |
|---|---|---|
| `CircuitBreaker_halfopen_limit` | `HalfOpenTimeLimit` | `maxWaitDurationInHalfOpenState` is only looked at when all permissions were given, so that the breaker may stay half open longer than documented |
| `Supervisor_kind` | `HasReferences` | an object is inherited by one of another kind, whose Inherit panics; it is overwritten in the map and keeps running |
| `Supervisor_close` | `CloseCompletes` | `applyConfig` waits, under `or.mutex`, for room in the supervisor's channel; `close` waits for `or.mutex` |
| `ControlPlane_overlap` | `TrafficUpToDate` | two generations of the raw config traffic controller handle consecutive events in the wrong order |
| `ControlPlane_start` | `FirstHandles` | `applyConfig` waits, under `or.mutex`, for room in the supervisor's channel, which nobody reads before the system controllers are started; one of them waits for `or.mutex` |
| `Registry_category` | `NeverBUG` | a name changes its category within one snapshot |
| `HTTPServer_http3` | `ClosesServers` | after an update from HTTP/3 to HTTP/1 `closeServer` closes the wrong server |
| `ObjectPool_cancel` | `SlowPathStops` | a broadcast without the lock is missed by a caller that is about to wait |

### Bounds, and why they are enough

* *Channels* have capacity 1 or 2 instead of 10: "full" and "not full" are the
  only cases the code tells apart, and with a small one the full case happens
  within few steps. In `MCControlPlane` the capacity is 1, so that the start of a
  member may block: the supervisor's watcher gets its first event, and a snapshot,
  before `go s.run()`. In the code this takes ten snapshots that change controllers.
* *Names, keys, callers, watchers*: two or three. Most properties relate two
  objects at most; the third caller of the pool lets two compete while another
  holds on. In the control plane names do not depend on each other, and one besides
  the system controller takes every kind of object.
* *Edits, revisions, reloads* (`MaxEdits`, `MaxTrafficEdits`, `MaxRevision`,
  `MaxReloads`), on top of what etcd has at the start (anything for the supervisor
  alone; Raw's default spec or none, and one gate or none, for the composition): enough
  for an update that overtakes another, a delete followed by a create, and both
  folded into one snapshot.
* *Time* (`MaxTime`, `MaxLimiterTime`): several times the longest interval of the
  policy. `MaxResults` bounds the results alive in a time window.
* `MaxInstances` bounds the instances a client of the traffic controller may lose.
* *Rounds and faults* of a server (`MaxRound`, `MaxFaults`): a failure that is
  reported after the restart of the restart.
* `DataPlane` limits: connection limits 1 to 3 with up to 3 resizes and 4
  connections, capacity 9 for `maxCapacity`; flows of up to 3 nodes; a pool of
  capacity 2 whose maximum becomes 1 and 3. The policies of more than one sort of
  tokens have timeout 0: the MQTT proxy, which alone builds them, sets no other.
  Waiting in several sorts at once is exercised by unit tests of the code only.

`CHECK_DEADLOCK FALSE` stands where a bound on edits, time or reloads ends the
behaviour, or the system is closed and stops.

### Fairness

* `CircuitBreaker`: requests keep arriving and a permitted handler returns or
  panics (`Wrap` records the result either way).
* `Syncer`: the ticker fires and a pull eventually succeeds, the goroutine runs
  and the consumer receives. Nothing is assumed of the watch.
* `ControlPlane`, in both parts, and `Supervisor_close`, `ControlPlane_start`: every goroutine runs. Edits and Close are free.
  A select between `done` and an event does not choose the event for ever
  (Go chooses at random), hence the conditions that exclude `ReceiveNil` and
  late `TakeEvent` from the fair steps.
* `DataPlane`: the state machine, the ticker and the goroutines of servers run.
* `ObjectPool_cancel`: every caller runs, and the mutex is fair, since
  `sync.Mutex` hands over to a goroutine that starves. The violation does not
  come from lack of fairness.

## 4. What is proved

TLAPS checks every proof; none of them assumes a bound on the number of callers,
objects or values. Constants are constrained only by the named `ASSUME`s of their
modules, which TLC evaluates for each instance.

* **`CircuitBreakerProofs`**: `TypeCorrect`, `BudgetKept`, `PermittingState`, from
  one inductive invariant. `HalfOpenBudget` alone is not inductive: a transition
  could leave calls of an earlier state in flight with the current `stateID`. `IInv`
  adds that no call carries a `stateID` the breaker has not issued, that nothing is
  in flight in Open and ForceOpen, and that the breaker is never Disabled unless
  `SetState` may disable it. Lemmas say what `transitTo`, `AcquirePermission` and
  `RecordResult` return; then one lemma per action.
* **`SyncerProofs`**: `Refinement` (`Spec => ImplementsStream`) and
  `ComparisonExact`. The invariant says that consecutive snapshots, in what the
  consumer saw, the channel, and `data`, differ and are not older; so that taking
  one is a `Deliver` step. Lemma `Compare` proves that equal size plus inclusion of
  one map's pairs is equality, for finite maps.
* **`RegistryProofs`**: `ViewsExact` (`WatchSpec => []ViewExact`). The invariant
  follows each watcher's map together with the event that is still to come to it
  while `or.mutex` is held. Nothing is assumed of the snapshots; the exemption for
  moved names is part of the invariant, which has to show that such a name can leave
  something behind in a watcher's map but never hide anything from it.
* **`ObjectPoolProofs`**: `SizeIsExact` and `PutHasRoom` (`PoolSpec => []PutFindsRoom`),
  for any sequence of new maxima. The first needs to know that the callers in the
  condition's queue hold no object, the second that only one caller is between its
  look at `p.size` and the increment, and that no maximum exceeds `largest`.

Only model-checked: everything else. Liveness (`HalfOpenDecides`,
`ConsumerConverges`, `SupervisorConverges`, `PlaneConverges`, `RetriesAndCloses`) is out
of the prover's reach, and so is what a fold over a sequence of events computes
(`EventsExact`, `WindowExact`), which needs induction over data.

## 5. Hazards

`PROJECT.json` lists the places where this code is most exposed, with the
property that would notice, or the reason there is none yet. Further ones, most of
parts that are not modelled:

* `pkg/object/mqttproxy/session_manager.go:64`: stores go through a queue,
  deletions do not; a store that waits brings a deleted session back.
* `pkg/object/mqttproxy/client.go:247`: a packet for a full client is dropped and
  must come from the resend task.
* `pkg/object/mqttproxy/broker.go:204`: when the list of sessions cannot be read,
  every connected client is closed.
* `pkg/filters/proxies/serverpool.go:138`: the load balancer is replaced and
  closed between the choice of a server and its return.
* `pkg/filters/proxies/httpproxy/pool.go:379`: state of one attempt reaches the
  next.
* `pkg/object/statussynccontroller/statussynccontroller.go:258`: a failed deletion
  is never tried again.
* `pkg/object/autocertmanager/autocertmanager.go:297`: leadership is checked
  before a renewal that takes minutes.
* `pkg/object/globalfilter/globalfilter.go:149`: pipelines of a previous
  generation are not closed.
* `pkg/supervisor/object.go:180`: after Close the registry applies nil maps as empty
  configurations (`ReceiveNil`), and an event in hand may start a gate after its
  namespace was cleaned; the process ends then, and nothing is claimed of it.
* `pkg/util/circuitbreaker/circuitbreaker.go:466`: results are recorded in the
  Disabled state as well, which only tests enter.
* `pkg/util/circuitbreaker/circuitbreaker.go:221`: a wall clock that is set back.
* `pkg/object/rawconfigtrafficcontroller/rawconfigtrafficcontroller.go:223`: an
  event may be chosen after `done` was closed.

## 6. What is not modelled, and why

* *Contents*: bodies, headers, routing patterns, encodings, certificates. The
  properties here are about control, and a spec is its kind and a version.
* *External services*: etcd beyond what the syncer sees of it (watch, pull,
  revisions), service registries, ACME, Kubernetes, providers. They appear as an
  environment that may do anything its protocol allows.
* *Sequential code on one request*: most filters, protocol adapters and utilities.
  Unit tests reach them.
* *The process*: start-up flags, signals, and the hand-over of listeners between
  two processes on a binary update.
* *The mesh, ingress, gateway, AI and WAF controllers*: large parts of their own,
  built on the traffic controller, of which `TrafficSpaces` models the operations in
  any order on one namespace.
* Within modelled parts: `GracefulStop` of the gRPC server is one step, so that
  `RetriesAndCloses` says that Close returns for the HTTP server, which allows 30 s,
  and for the gRPC server only if its streams end; the traffic controller's removal
  at the end of the process, after which an event would panic; the pool's
  `Close` is left out since nothing calls it; the listeners of circuit breaker and
  rate limiter, logging and metrics have no effect on state.

## 7. Plan

Done so far: the control plane from etcd to running objects, and the first layer of
the data plane. In order:

1. **Service registry** (`ServiceRegistry`): buckets, watchers with bounded
   channels, registration and deregistration. Aims: no deadlock between an event
   and `Stop`, one goroutine per registration, a watcher ends up with the
   instances of its service.
2. **Server pool** (`ServerPool`) driven by it: load balancer replaced under
   requests, health counters, sticky sessions; then retry, time limit and circuit
   breaker around one request, reusing `CircuitBreaker`.
3. **MQTT**: `MQTTBroker` (take-over, kick-out, session ownership between two
   brokers through etcd) and `MQTTSession` (publish, acknowledge, resend, wrap of
   packet numbers), with an abstract specification of at-least-once delivery.
4. **Object API and cluster mutex**: two members, leases that end, the version
   counter; backend pipelines that every member writes (`mux.go`).
5. **Generations of a pipeline** with requests under way: filters closed under a
   request, the rate limiter's rule without a limiter, the global filter.
6. **Smaller machines**: FaaS function states, status synchronisation, certificate
   renewal, agreement of the two HTTP routers over bounded inputs.
7. **Proofs**: `InstancesExact` of the traffic controller, `ReferencesExact` of
   the supervisor, `FailedIsDead` and `NoServerLeft` of the
   runtime, `WithinLimit` of the listener, `JumpsLand` of the flow.

The runs are combined where components are independent, so that new ones join an
existing run (`part`) rather than add one.
