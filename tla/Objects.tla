------------------------------- MODULE Objects --------------------------------
(***************************************************************************)
(* Objects of Easegress have a name and a spec, which is its kind and a    *)
(* version (everything else an object is configured with).                 *)
(*                                                                         *)
(* InitWithRecovery and InheritWithRecovery of pkg/supervisor/object.go    *)
(* recover a panic of the object and return nothing: the caller stores the *)
(* entity all the same.  What Init or Inherit comes to is                  *)
(*   "ok"     the instance runs, its predecessor, if any, was closed;      *)
(*   "early"  it panicked before it touched its predecessor;               *)
(*   "late"   it panicked after it closed its predecessor.                 *)
(***************************************************************************)
CONSTANTS
  Names,         \* names of objects
  None,          \* no object under a name
  OutcomesOf,    \* kind -> what its Init and Inherit may come to
  Asserting      \* the kinds whose Inherit first asserts the type of its predecessor

Nothing == [n \in Names |-> None]

\* What Inherit may come to: the assertion fails for a predecessor of another kind.
InheritOutcomes(old, new) ==
  IF new.kind \in Asserting /\ old.kind # new.kind THEN {"early"} ELSE OutcomesOf[new.kind]
=============================================================================
