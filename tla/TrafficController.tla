-------------------------- MODULE TrafficController ---------------------------
(***************************************************************************)
(* pkg/object/trafficcontroller: namespaces of traffic gates and           *)
(* pipelines.  Every operation runs under tc.mutex, which the generations  *)
(* of the controller share with the namespaces (Inherit), so an operation  *)
(* is one step and is written as a function from the old state, and from   *)
(* what Init or Inherit of the object comes to, to the new state.          *)
(*                                                                         *)
(* A traffic gate keeps the Namespace it was initialised with as its       *)
(* MuxMapper and finds its pipelines there.  A namespace is thrown away    *)
(* with its last object, and one of the same name that is created later is *)
(* another one: an instance is stale when its namespace was thrown away.   *)
(***************************************************************************)
EXTENDS Objects

CONSTANTS
  Namespaces,
  PipelineSpecs                \* the specs of kind Pipeline; others are traffic gates

VARIABLE tc     \* spaces: the namespaces
                \* running: the instances that were started and not stopped
                \* lost: history, the <<namespace, name, table>> where a creation
                \* overwrote an object or Init or Inherit panicked

Tables == {"gates", "pipes"}

NoSpace == [table \in {} |-> Nothing]

EmptySpace == [table \in Tables |-> Nothing]

NewTrafficController ==
  [spaces |-> [ns \in Namespaces |-> NoSpace], running |-> {}, lost |-> {}]

Exists(t, ns) == t.spaces[ns] # NoSpace

Has(t, ns, n, table) == Exists(t, ns) /\ t.spaces[ns][table][n] # None

\* The map of a namespace that holds objects of this kind.
Table(spec) == IF spec \in PipelineSpecs THEN "pipes" ELSE "gates"

Instance(ns, n, spec) == [ns |-> ns, name |-> n, spec |-> spec, stale |-> FALSE]

\* The instances that were started under a name.
InstancesOf(t, ns, n, table) ==
  {i \in t.running : i.ns = ns /\ i.name = n /\ Table(i.spec) = table}

\* The instance of the object stored under a name.
Stored(t, ns, n, table) ==
  {i \in InstancesOf(t, ns, n, table) : i.spec = t.spaces[ns][table][n]}

-----------------------------------------------------------------------------

\* The namespace is thrown away; instances that are left refer to it in vain.
DropSpace(t, ns) ==
  [t EXCEPT !.spaces[ns] = NoSpace,
            !.running = {[i EXCEPT !.stale = @ \/ i.ns = ns] : i \in t.running}]

\* Fault: a namespace is thrown away with its last pipeline.
cleanSpace_PipesOnly(t, ns) == IF t.spaces[ns]["pipes"] = Nothing THEN DropSpace(t, ns) ELSE t

cleanSpace(t, ns) == IF t.spaces[ns] = EmptySpace THEN DropSpace(t, ns) ELSE t

WithSpace(t, ns) ==
  IF Exists(t, ns) THEN t ELSE [t EXCEPT !.spaces[ns] = EmptySpace]

\* Store, with the instances that are running then.
StoreIn(t, ns, n, spec, run, isLost) ==
  [spaces |-> [t.spaces EXCEPT ![ns][Table(spec)][n] = spec],
   running |-> run,
   lost |-> IF isLost THEN t.lost \cup {<<ns, n, Table(spec)>>} ELSE t.lost]

\* CreateTrafficGate, CreatePipeline: InitWithRecovery and Store.  What was stored
\* under the name is overwritten, not closed.
CreateIn(t, ns, n, spec, outcome) ==
  LET s == WithSpace(t, ns)
  IN  StoreIn(s, ns, n, spec,
            s.running \cup {i \in {Instance(ns, n, spec)} : outcome = "ok"},
            outcome # "ok" \/ Has(t, ns, n, Table(spec)))

\* InheritWithRecovery and Store.
Inherit(t, ns, n, spec, outcome) ==
  LET old == {i \in Stored(t, ns, n, Table(spec)) : outcome # "early"}
      new == {i \in {Instance(ns, n, spec)} : outcome = "ok"}
  IN  StoreIn(t, ns, n, spec, (t.running \ old) \cup new, outcome # "ok")

\* What an update or an application of a spec may come to.
Outcomes(t, ns, n, spec) ==
  IF Has(t, ns, n, Table(spec)) THEN InheritOutcomes(t.spaces[ns][Table(spec)][n], spec)
  ELSE OutcomesOf[spec.kind]

\* UpdateTrafficGate, UpdatePipeline: an error when there is nothing to update.
Update(t, ns, n, spec, outcome) ==
  IF Has(t, ns, n, Table(spec)) THEN Inherit(t, ns, n, spec, outcome) ELSE t

\* ApplyTrafficGate, ApplyPipeline
Apply(t, ns, n, spec, outcome) ==
  IF ~Has(t, ns, n, Table(spec)) THEN CreateIn(t, ns, n, spec, outcome)
  ELSE IF t.spaces[ns][Table(spec)][n] = spec THEN t ELSE Inherit(t, ns, n, spec, outcome)

\* Fault: the namespace is kept.
Delete_NoClean(t, ns, n, table) ==
  IF ~Has(t, ns, n, table) THEN t
  ELSE [t EXCEPT !.spaces[ns][table][n] = None, !.running = @ \ Stored(t, ns, n, table)]

\* DeleteTrafficGate, DeletePipeline
Delete(t, ns, n, table) ==
  IF ~Has(t, ns, n, table) THEN t
  ELSE cleanSpace([t EXCEPT !.spaces[ns][table][n] = None,
                            !.running = @ \ Stored(t, ns, n, table)], ns)

\* The instances that the tables of a namespace refer to.
Referenced(t, ns) ==
  UNION {Stored(t, ns, n, table) : n \in Names, table \in Tables}

Clean(t, ns) ==
  IF ~Exists(t, ns) THEN t
  ELSE cleanSpace([t EXCEPT !.spaces[ns] = EmptySpace,
                            !.running = @ \ Referenced(t, ns)], ns)

\* Close, for one namespace of tc.namespaces.
CloseSpace(t, ns) ==
  IF ~Exists(t, ns) THEN t
  ELSE DropSpace([t EXCEPT !.running = @ \ Referenced(t, ns)], ns)
=============================================================================
