---------------------------- MODULE TrafficSpaces -----------------------------
(***************************************************************************)
(* The TrafficController with its clients: RawConfigTrafficController, the *)
(* mesh, ingress, gateway and FaaS controllers, each in a namespace of its *)
(* own.  They create, update, apply and delete objects in any order, also  *)
(* create one that is there already, and clean their namespace.            *)
(***************************************************************************)
EXTENDS TrafficController, Integers, FiniteSets

CONSTANTS
  ObjectSpecs,     \* the specs clients use
  MaxInstances     \* bound on the instances, which a client may lose any number of

SpacesInit == tc = NewTrafficController

CreateObject(ns, n, spec) ==
  \E outcome \in OutcomesOf[spec.kind] : tc' = CreateIn(tc, ns, n, spec, outcome)

UpdateObject(ns, n, spec) ==
  \E outcome \in Outcomes(tc, ns, n, spec) : tc' = Update(tc, ns, n, spec, outcome)

ApplyObject(ns, n, spec) ==
  \E outcome \in Outcomes(tc, ns, n, spec) : tc' = Apply(tc, ns, n, spec, outcome)

DeleteObject(ns, n, table) == tc' = Delete(tc, ns, n, table)

CleanNamespace(ns) == tc' = Clean(tc, ns)

CloseNamespace(ns) == tc' = CloseSpace(tc, ns)

SpacesNext ==
  /\ \E ns \in Namespaces :
       \/ \E n \in Names, spec \in ObjectSpecs :
            CreateObject(ns, n, spec) \/ UpdateObject(ns, n, spec) \/ ApplyObject(ns, n, spec)
       \/ \E n \in Names, table \in Tables : DeleteObject(ns, n, table)
       \/ CleanNamespace(ns) \/ CloseNamespace(ns)
  /\ Cardinality(tc'.running) <= MaxInstances

-----------------------------------------------------------------------------

(* trafficcontroller.go:625: a namespace exists as long as it has objects,  *)
(* and no longer.                                                           *)
SpaceHasObjects == \A ns \in Namespaces : tc.spaces[ns] # EmptySpace

(* trafficcontroller.go:201,240,435: unless a creation overwrote an object  *)
(* of this name or one of them panicked, a stored object is running, once,  *)
(* with the namespace that is registered now as its MuxMapper, however      *)
(* often namespaces of that name were emptied, thrown away and created      *)
(* again; and no object that was updated, replaced, deleted or cleaned is   *)
(* left running.                                                            *)
InstancesExact ==
  \A ns \in Namespaces, n \in Names, table \in Tables :
    <<ns, n, table>> \notin tc.lost =>
      InstancesOf(tc, ns, n, table) =
        IF Has(tc, ns, n, table) THEN {Instance(ns, n, tc.spaces[ns][table][n])} ELSE {}
=============================================================================
