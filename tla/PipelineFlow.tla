----------------------------- MODULE PipelineFlow -----------------------------
(***************************************************************************)
(* pkg/object/pipeline: the way of one request through the flow of a       *)
(* pipeline, and through the flows a GlobalFilter puts before and after    *)
(* it.  A node names a filter, may have an alias, and may say for some     *)
(* results of the filter where to jump to.  What a filter does with the    *)
(* request is left out but for its result.                                 *)
(***************************************************************************)
EXTENDS Naturals, Sequences, FiniteSets, SequencesExt

CONSTANTS
  FlowNodes,      \* nodes: filter, alias ("" if none) and jumpIf, from results to targets
  SideFlows,      \* the flows before and after
  MaxFlow,        \* bound on the length of a flow
  FilterResults   \* the results the filters declare; "" is success

VARIABLES
  flows,          \* the flows "before", "main" and "after"; <<>> if there is none
  fallthrough,    \* of the GlobalFilter: the stages whose END is ignored
  stage,          \* the flow the request is in, or "done"
  node,           \* the index in it
  next,           \* the target of a jump under way, or ""
  ran             \* history: stage, node and result of the filters that ran

flowVars == <<flows, fallthrough, stage, node, next, ran>>

END == "END"

filterAlias(n) == IF n.alias # "" THEN n.alias ELSE n.filter

\* Fault: a filter anywhere in the flow is a target.
ValidTargets_Any(flow, i, t) ==
  (IF t = END THEN 1 ELSE 0)
  + Cardinality({j \in 1 .. Len(flow) : flow[j].filter # END /\ filterAlias(flow[j]) = t})

\* validTargets[t] when the loop, which runs backwards, is at node i.
ValidTargets(flow, i, t) ==
  (IF t = END THEN 1 ELSE 0)
  + Cardinality({j \in i + 1 .. Len(flow) : flow[j].filter # END /\ filterAlias(flow[j]) = t})

ValidateJumpIf(flow) ==
  \A i \in DOMAIN flow :
    flow[i].filter # END =>
      \A r \in DOMAIN flow[i].jumpIf :
        /\ r = "" \/ r \in FilterResults
        /\ ValidTargets(flow, i, flow[i].jumpIf[r]) = 1

ValidFlows == {f \in SeqOf(FlowNodes, MaxFlow) : ValidateJumpIf(f)}

-----------------------------------------------------------------------------

FlowInit ==
  /\ flows \in [before : SideFlows, main : ValidFlows, after : SideFlows]
  /\ fallthrough \in SUBSET {"before", "main"}
  /\ stage = "before" /\ node = 1 /\ next = "" /\ ran = <<>>

\* HandleWithBeforeAfter, when the flow of a stage is over.
Leave(sawEnd) ==
  /\ stage' = IF stage = "before" /\ (~sawEnd \/ "before" \in fallthrough) THEN "main"
              ELSE IF stage # "after" /\ (~sawEnd \/ "main" \in fallthrough) THEN "after"
              ELSE "done"
  /\ node' = 1 /\ next' = ""

\* Fault: a result without a jump is taken for success.
Target_Ignore(n, result) == IF result \in DOMAIN n.jumpIf THEN n.jumpIf[result] ELSE ""

Target(n, result) ==
  IF result \in DOMAIN n.jumpIf THEN n.jumpIf[result]
  ELSE IF result # "" THEN END ELSE ""

\* One round of the loop of doHandle.
doHandle ==
  LET n == flows[stage][node] IN
  /\ stage # "done" /\ node <= Len(flows[stage])
  /\ \/ /\ next # "" /\ next # filterAlias(n)
        /\ node' = node + 1 /\ UNCHANGED <<stage, next, ran>>
     \/ /\ next \in {"", filterAlias(n)} /\ n.filter = END
        /\ Leave(TRUE) /\ UNCHANGED ran
     \/ /\ next \in {"", filterAlias(n)} /\ n.filter # END
        /\ \E result \in {""} \cup FilterResults :
             /\ ran' = Append(ran, [stage |-> stage, node |-> node, result |-> result])
             /\ IF Target(n, result) = END THEN Leave(TRUE)
                ELSE node' = node + 1 /\ next' = Target(n, result) /\ UNCHANGED stage
  /\ UNCHANGED <<flows, fallthrough>>

\* The loop is over.
EndOfFlow ==
  /\ stage # "done" /\ node > Len(flows[stage])
  /\ Leave(FALSE) /\ UNCHANGED <<flows, fallthrough, ran>>

FlowNext == doHandle \/ EndOfFlow

FlowSpec == FlowInit /\ [][FlowNext]_flowVars

-----------------------------------------------------------------------------

(* pipeline.go:112,378: the target of a jump in a validated flow is one     *)
(* filter ahead of the request: a jump never runs off the end of the flow.  *)
JumpsLand ==
  next # "" => \E j \in node .. Len(flows[stage]) :
                 flows[stage][j].filter # END /\ filterAlias(flows[stage][j]) = next

(* pipeline.go:399: the filter that runs after another one of its flow is   *)
(* the target its result asks for, and without one the next filter; a       *)
(* failure that asks for none ends the flow.  END nodes stop the request    *)
(* unless it jumps over them.                                               *)
RunsAsWritten ==
  \A k \in 1 .. Len(ran) - 1 :
    LET a == ran[k]
        b == ran[k + 1]
        from == flows[a.stage][a.node]
    IN a.stage = b.stage =>
         IF a.result \in DOMAIN from.jumpIf
         THEN filterAlias(flows[b.stage][b.node]) = from.jumpIf[a.result] /\ b.node > a.node
         ELSE a.result = "" /\ b.node = a.node + 1
=============================================================================
