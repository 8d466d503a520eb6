----------------------- MODULE ReviewWorkflow_proofs -----------------------
(***************************************************************************)
(* Proofs about the review graph, for every bound on the revisions.  The   *)
(* inductive invariant says which sets of nodes can be a superstep and     *)
(* which fields are of the current pass when the graph has come to it.     *)
(***************************************************************************)
EXTENDS ReviewWorkflow, TLAPS

(* The supersteps, in their order within a pass. *)
From8 == {{"reporter"}, {}}
From7 == {{"route_decider"}} \cup From8
From6 == {{"reviewer"}} \cup From7
From5 == {{"delivery_planning"}} \cup From6
From4 == {{"review_join"}} \cup From5
From3 == {{"planner", "risk"}} \cup From4
From2 == {{"parallel_start"}} \cup From3
From1 == {{"parser"}, {"clarify"}} \cup From2

IInv ==
    /\ TypeOK
    /\ active \in From1
    /\ phase = "running" => active # {}
    /\ phase = "completed" => active = {}
    /\ active \in From2 => field["parsed_items"] = Pass
    /\ active \in From4 => field["plan"] = Pass /\ field["evidence"] = Pass
    /\ active \in From5 => field["tasks"] = Pass
    /\ active \in From6 => field["implementation_plan"] = Pass
    /\ active \in From7 => field["review_results"] = Pass
    /\ active = {} => field["final_report"] = Pass

(* The initial state satisfies the invariant. *)
LEMMA InitIInv == Init => IInv
  <1> SUFFICES ASSUME Init PROVE IInv
    OBVIOUS
  <1>1. TypeOK
    <2>1. /\ round \in 0 .. MaxRevisions
          /\ field \in [Fields -> 0 .. MaxRevisions + 1]
          /\ trace \in [Spans -> 0 .. MaxRevisions + 1]
      BY ReviewWorkflowAssumption DEF Init
    <2>2. /\ active \in SUBSET Nodes
          /\ at \in [Nodes -> {"idle", "running", "ended"}]
          /\ good \in [Nodes -> BOOLEAN]
      BY DEF Init, Nodes
    <2>3. progress \in [Nodes -> [status : {"pending", "running", "completed", "failed"},
                                  runs : Nat]]
      BY DEF Init
    <2> QED BY <2>1, <2>2, <2>3 DEF Init, TypeOK
  <1>2. active = {"parser"} /\ phase = "running"
    BY DEF Init
  <1>3. active \in From1 /\ active \notin From2
    BY <1>2 DEF From1, From2, From3, From4, From5, From6, From7, From8
  <1>4. active \notin From4 /\ active \notin From5 /\ active \notin From6 /\ active \notin From7
    BY <1>3 DEF From2, From3, From4, From5, From6
  <1> QED BY <1>1, <1>2, <1>3, <1>4 DEF IInv

(* The graph's edges as supersteps: where each step leads. *)
LEMMA Edges ==
  ASSUME active \in From1, active # {}
  PROVE  /\ active \in {{"parser"}, {"clarify"}}
              => UNION {After(n) : n \in active} = {"parallel_start"}
         /\ active = {"parallel_start"}
              => UNION {After(n) : n \in active} = {"planner", "risk"}
         /\ active = {"planner", "risk"}
              => UNION {After(n) : n \in active} = {"review_join"}
         /\ active = {"review_join"}
              => UNION {After(n) : n \in active} = {"delivery_planning"}
         /\ active = {"delivery_planning"}
              => UNION {After(n) : n \in active} = {"reviewer"}
         /\ active = {"reviewer"}
              => UNION {After(n) : n \in active} = {"route_decider"}
         /\ active = {"route_decider"} /\ ShouldLoop
              => UNION {After(n) : n \in active} = {"clarify"}
         /\ active = {"route_decider"} /\ ~ShouldLoop
              => UNION {After(n) : n \in active} = {"reporter"}
         /\ active = {"reporter"}
              => UNION {After(n) : n \in active} = {}
  <1>1. \A x : UNION {After(n) : n \in {x}} = After(x)
    OBVIOUS
  <1>2. /\ After("parser") = {"parallel_start"}
        /\ After("clarify") = {"parallel_start"}
        /\ After("parallel_start") = {"planner", "risk"}
        /\ After("planner") = {"review_join"}
        /\ After("risk") = {"review_join"}
        /\ After("review_join") = {"delivery_planning"}
        /\ After("delivery_planning") = {"reviewer"}
        /\ After("reviewer") = {"route_decider"}
        /\ After("route_decider") = IF ShouldLoop THEN {"clarify"} ELSE {"reporter"}
        /\ After("reporter") = {}
    BY DEF After
  <1>3. CASE active = {"parser"}
    BY <1>1, <1>2, <1>3
  <1>4. CASE active = {"clarify"}
    BY <1>1, <1>2, <1>4
  <1>5. CASE active = {"parallel_start"}
    BY <1>1, <1>2, <1>5
  <1>6. CASE active = {"planner", "risk"}
    <2>1. UNION {After(n) : n \in {"planner", "risk"}} = After("planner") \cup After("risk")
      OBVIOUS
    <2> QED BY <2>1, <1>2, <1>6
  <1>7. CASE active = {"review_join"}
    BY <1>1, <1>2, <1>7
  <1>8. CASE active = {"delivery_planning"}
    BY <1>1, <1>2, <1>8
  <1>9. CASE active = {"reviewer"}
    BY <1>1, <1>2, <1>9
  <1>10. CASE active = {"route_decider"}
    BY <1>1, <1>2, <1>10
  <1>11. CASE active = {"reporter"}
    BY <1>1, <1>2, <1>11
  <1> QED
    BY <1>3, <1>4, <1>5, <1>6, <1>7, <1>8, <1>9, <1>10, <1>11
    DEF From1, From2, From3, From4, From5, From6, From7, From8
(* The hooks of a node leave the graph where it is. *)
LEMMA NodeKeepsIInv ==
  ASSUME IInv, NEW n \in Nodes,
         StartNode(n) \/ NodeRaises(n) \/ \E ok \in BOOLEAN : EndNode(n, ok)
  PROVE  IInv'
  <1>1. CASE StartNode(n)
    <2>1. at' \in [Nodes -> {"idle", "running", "ended"}]
      BY <1>1 DEF StartNode, IInv, TypeOK
    <2>2. progress' \in [Nodes -> [status : {"pending", "running", "completed", "failed"},
                                   runs : Nat]]
      BY <1>1 DEF StartNode, IInv, TypeOK
    <2> QED BY <1>1, <2>1, <2>2 DEF StartNode, IInv, TypeOK, Pass
  <1>2. CASE NodeRaises(n)
    BY <1>2 DEF NodeRaises, IInv, TypeOK, Pass
  <1>3. ASSUME NEW ok \in BOOLEAN, EndNode(n, ok)
        PROVE  IInv'
    <2>1. at' \in [Nodes -> {"idle", "running", "ended"}]
      BY <1>3 DEF EndNode, IInv, TypeOK
    <2>2. good' \in [Nodes -> BOOLEAN]
      BY <1>3 DEF EndNode, IInv, TypeOK
    <2>3. NodeStatus(n, ok) \in {"completed", "failed"}
      BY DEF NodeStatus
    <2>4. progress' \in [Nodes -> [status : {"pending", "running", "completed", "failed"},
                                   runs : Nat]]
      BY <1>3, <2>3 DEF EndNode, IInv, TypeOK
    <2> QED BY <1>3, <2>1, <2>2, <2>4 DEF EndNode, IInv, TypeOK, Pass
  <1> QED BY <1>1, <1>2, <1>3

(* What the end of a superstep does to the round and to each field. *)
LEMMA StepEnds ==
  ASSUME IInv, EndStep
  PROVE  /\ TypeOK'
         /\ active # {"route_decider"} => round' = round
         /\ round' # round => active = {"route_decider"} /\ ShouldLoop /\ round' = round + 1
         /\ active' = UNION {After(n) : n \in active}
         /\ phase' = (IF active' = {} THEN "completed" ELSE "running")
         /\ \A f \in Fields : field'[f] = field[f] \/ field'[f] = Pass
         /\ \A n \in active : \A f \in Produces[n] \cap Fields : field'[f] = Pass
         /\ active # {}
  <1>1. active # {} /\ active \subseteq Nodes /\ round \in 0 .. MaxRevisions
    BY DEF IInv, TypeOK, EndStep
  <1>2. /\ round' \in 0 .. MaxRevisions
        /\ round' # round => "route_decider" \in active /\ ShouldLoop /\ round' = round + 1
    BY <1>1, ReviewWorkflowAssumption DEF EndStep, ShouldLoop
  <1>3. "route_decider" \in active => active = {"route_decider"}
    BY DEF IInv, From1, From2, From3, From4, From5, From6, From7, From8
  <1>4. Pass \in 0 .. MaxRevisions + 1
    BY <1>1, ReviewWorkflowAssumption DEF Pass
  <1>5. field' = [f \in Fields |->
                    IF \E n \in active : f \in Produces[n] THEN Pass ELSE field[f]]
    BY DEF EndStep
  <1>6. field' \in [Fields -> 0 .. MaxRevisions + 1]
    BY <1>4, <1>5 DEF IInv, TypeOK
  <1>7. \A n \in Nodes : SpanCopy(n) \in [Spans -> 0 .. MaxRevisions + 1]
    BY <1>4 DEF SpanCopy, IInv, TypeOK
  <1>8. trace' \in [Spans -> 0 .. MaxRevisions + 1]
    <2>1. CASE active = {"planner", "risk"}
      <3>1. /\ SpanCopy("planner") \in [Spans -> 0 .. MaxRevisions + 1]
            /\ SpanCopy("risk") \in [Spans -> 0 .. MaxRevisions + 1]
        BY <1>7 DEF Nodes
      <3> QED BY <2>1, <3>1 DEF EndStep, MergeTraces, MergeStateDicts
    <2>2. CASE active # {"planner", "risk"}
      <3>1. (CHOOSE n \in active : TRUE) \in Nodes
        BY <1>1
      <3> QED BY <2>2, <3>1, <1>7 DEF EndStep, MergeTraces
    <2> QED BY <2>1, <2>2
  <1>9. \A n \in Nodes : After(n) \subseteq Nodes
    BY DEF After, Nodes
  <1>10. active' \in SUBSET Nodes
    BY <1>1, <1>9 DEF EndStep
  <1>11. at' \in [Nodes -> {"idle", "running", "ended"}]
    BY DEF EndStep
  <1>12. items' \in BOOLEAN /\ risky' \in BOOLEAN
    BY DEF EndStep, IInv, TypeOK, ParsedItems, HighRiskRatio
  <1>13. TypeOK'
    BY <1>2, <1>6, <1>8, <1>10, <1>11, <1>12 DEF EndStep, IInv, TypeOK
  <1> QED BY <1>1, <1>2, <1>3, <1>5, <1>13 DEF EndStep

(* The end of a superstep preserves the invariant: one case per superstep. *)
LEMMA EndStepKeepsIInv ==
  ASSUME IInv, EndStep
  PROVE  IInv'
  <1> USE DEF Pass
  <1>0. /\ TypeOK /\ TypeOK' /\ active \in From1 /\ active # {}
        /\ round \in Int
    BY StepEnds, ReviewWorkflowAssumption DEF IInv, TypeOK
  <1>1. /\ active' = UNION {After(n) : n \in active}
        /\ phase' = IF active' = {} THEN "completed" ELSE "running"
    BY StepEnds
  <1>2. \A f \in Fields : round' = round /\ field[f] = Pass => field'[f] = Pass'
    BY StepEnds
  <1>3. CASE active \in {{"parser"}, {"clarify"}}
    <2>1. active' = {"parallel_start"} /\ round' = round
      BY <1>0, <1>1, <1>3, Edges, StepEnds
    <2>2. field'["parsed_items"] = Pass'
      BY <1>3, <2>1, StepEnds DEF Produces, Nodes, Fields
    <2> QED BY <1>0, <1>1, <2>1, <2>2
            DEF IInv, From1, From2, From3, From4, From5, From6, From7, From8
  <1>4. CASE active = {"parallel_start"}
    <2>1. active' = {"planner", "risk"} /\ round' = round
      BY <1>0, <1>1, <1>4, Edges, StepEnds
    <2>2. field'["parsed_items"] = Pass'
      BY <1>2, <1>4, <2>1 DEF IInv, Fields, From2
    <2> QED BY <1>0, <1>1, <2>1, <2>2
            DEF IInv, From1, From2, From3, From4, From5, From6, From7, From8
  <1>5. CASE active = {"planner", "risk"}
    <2>1. active' = {"review_join"} /\ round' = round
      BY <1>0, <1>1, <1>5, Edges, StepEnds
    <2>2. field'["parsed_items"] = Pass'
      BY <1>2, <1>5, <2>1 DEF IInv, Fields, From2, From3
    <2>3. field'["plan"] = Pass' /\ field'["evidence"] = Pass'
      BY <1>5, <2>1, StepEnds DEF Produces, Nodes, Fields
    <2> QED BY <1>0, <1>1, <2>1, <2>2, <2>3
            DEF IInv, From1, From2, From3, From4, From5, From6, From7, From8
  <1>6. CASE active \in {{"review_join"}, {"delivery_planning"}, {"reviewer"}}
    <2>0. /\ active \in From2 /\ active \in From4
          /\ active # {"review_join"} => active \in From5
          /\ active = {"reviewer"} => active \in From6
      BY <1>6 DEF From2, From3, From4, From5, From6
    <2>1. /\ round' = round
          /\ active = {"review_join"} => active' = {"delivery_planning"}
          /\ active = {"delivery_planning"} => active' = {"reviewer"}
          /\ active = {"reviewer"} => active' = {"route_decider"}
      BY <1>0, <1>1, <1>6, Edges, StepEnds
    <2>2. field'["parsed_items"] = Pass' /\ field'["plan"] = Pass' /\ field'["evidence"] = Pass'
      BY <1>2, <2>0, <2>1 DEF IInv, Fields
    <2>3. field'["tasks"] = Pass'
      <3>1. CASE active = {"review_join"}
        BY <3>1, <2>1, StepEnds DEF Produces, Nodes, Fields
      <3>2. CASE active # {"review_join"}
        BY <3>2, <1>2, <2>0, <2>1 DEF IInv, Fields
      <3> QED BY <3>1, <3>2
    <2>4. active # {"review_join"} => field'["implementation_plan"] = Pass'
      <3>1. CASE active = {"delivery_planning"}
        BY <3>1, <2>1, StepEnds DEF Produces, Nodes, Fields
      <3>2. CASE active = {"reviewer"}
        BY <3>2, <1>2, <2>0, <2>1 DEF IInv, Fields
      <3> QED BY <3>1, <3>2, <1>6
    <2>5. active = {"reviewer"} => field'["review_results"] = Pass'
      BY <2>1, StepEnds DEF Produces, Nodes, Fields
    <2>6. active' \in {{"delivery_planning"}, {"reviewer"}, {"route_decider"}}
      BY <1>6, <2>1
    <2>7. /\ active' \in From6 => active # {"review_join"}
          /\ active' \in From7 => active = {"reviewer"}
      BY <1>6, <2>1 DEF From6, From7, From8
    <2> QED BY <1>0, <1>1, <2>2, <2>3, <2>4, <2>5, <2>6, <2>7
            DEF IInv, From1, From2, From3, From4, From5, From6, From7, From8
  <1>7. CASE active = {"route_decider"}
    <2>0. /\ active \in From2 /\ active \in From4 /\ active \in From5
          /\ active \in From6 /\ active \in From7
      BY <1>7 DEF From2, From3, From4, From5, From6, From7
    <2>1. CASE ShouldLoop
      <3>1. active' = {"clarify"}
        BY <1>0, <1>1, <1>7, <2>1, Edges
      <3>2. /\ active' \in From1 /\ active' \notin From2
            /\ active' \notin From4 /\ active' \notin From5
            /\ active' \notin From6 /\ active' \notin From7
        BY <3>1 DEF From1, From2, From3, From4, From5, From6, From7, From8
      <3> QED BY <1>0, <1>1, <3>1, <3>2 DEF IInv
    <2>2. CASE ~ShouldLoop
      <3>1. active' = {"reporter"} /\ round' = round
        BY <1>0, <1>1, <1>7, <2>2, Edges, StepEnds
      <3>2. \A f \in Fields \ {"final_report"} : field'[f] = Pass'
        BY <1>2, <2>0, <3>1 DEF IInv, Fields
      <3>3. active' \in From1
        BY <3>1 DEF From1, From2, From3, From4, From5, From6, From7, From8
      <3> QED BY <1>0, <1>1, <3>1, <3>2, <3>3 DEF IInv, Fields
    <2> QED BY <2>1, <2>2
  <1>8. CASE active = {"reporter"}
    <2>0. /\ active \in From2 /\ active \in From4 /\ active \in From5
          /\ active \in From6 /\ active \in From7
      BY <1>8 DEF From2, From3, From4, From5, From6, From7, From8
    <2>1. active' = {} /\ round' = round
      BY <1>0, <1>1, <1>8, Edges, StepEnds
    <2>2. \A f \in Fields \ {"final_report"} : field'[f] = Pass'
      BY <1>2, <2>0, <2>1 DEF IInv, Fields
    <2>3. field'["final_report"] = Pass'
      BY <1>8, <2>1, StepEnds DEF Produces, Nodes, Fields
    <2>4. active' \in From1
      BY <2>1 DEF From1, From2, From3, From4, From5, From6, From7, From8
    <2> QED BY <1>0, <1>1, <2>1, <2>2, <2>3, <2>4 DEF IInv, Fields
  <1> QED BY <1>0, <1>3, <1>4, <1>5, <1>6, <1>7, <1>8
          DEF From1, From2, From3, From4, From5, From6, From7, From8

(* The invariant is inductive. *)
THEOREM WorkflowInvariance == Spec => []IInv
  <1>1. IInv /\ [Next]_vars => IInv'
    <2> SUFFICES ASSUME IInv, [Next]_vars PROVE IInv'
      OBVIOUS
    <2>1. CASE Next
      BY <2>1, NodeKeepsIInv, EndStepKeepsIInv DEF Next
    <2>2. CASE UNCHANGED vars
      BY <2>2 DEF vars, IInv, TypeOK, Pass
    <2> QED BY <2>1, <2>2
  <1> QED BY InitIInv, <1>1, PTL DEF Spec

(* Every variable keeps its type: in particular the revision round never    *)
(* exceeds _MAX_REVISION_ROUNDS.                                            *)
THEOREM WorkflowTypes == Spec => []TypeOK
  <1>1. IInv => TypeOK
    BY DEF IInv
  <1> QED BY WorkflowInvariance, <1>1, PTL

(* The join and what follows work on both branches' output of this pass. *)
THEOREM JoinSeesBothBranches == Spec => []BranchesJoined
  <1>1. IInv => BranchesJoined
    <2> SUFFICES ASSUME IInv,
                        active \cap {"review_join", "delivery_planning", "reviewer",
                                     "route_decider", "reporter"} # {}
                 PROVE  active \in From2 /\ active \in From4
      BY DEF IInv, BranchesJoined
    <2> QED BY DEF IInv, From1, From2, From3, From4, From5, From6, From7, From8
  <1> QED BY WorkflowInvariance, <1>1, PTL

(* The report is made of the last pass only. *)
THEOREM OnePassReport == Spec => []ReportIsOfOnePass
  <1>1. IInv => ReportIsOfOnePass
    <2> SUFFICES ASSUME IInv, active = {}
                 PROVE  \A f \in Fields : field[f] = Pass
      BY DEF IInv, ReportIsOfOnePass
    <2>1. /\ active \in From2 /\ active \in From4 /\ active \in From5
          /\ active \in From6 /\ active \in From7
      BY DEF From2, From3, From4, From5, From6, From7, From8
    <2> QED BY <2>1 DEF IInv, Fields
  <1> QED BY WorkflowInvariance, <1>1, PTL

(* A revision is begun only on the review results of the same pass. *)
THEOREM FreshVerdict == Spec => LoopsOnFreshReview
  <1>1. IInv /\ [Next]_vars => [round' # round => risky /\ field["review_results"] = Pass]_vars
    <2> SUFFICES ASSUME IInv, Next, round' # round
                 PROVE  risky /\ field["review_results"] = Pass
      BY DEF vars
    <2>1. EndStep
      BY DEF Next, StartNode, NodeRaises, EndNode
    <2>2. active = {"route_decider"} /\ ShouldLoop
      BY <2>1, StepEnds
    <2>3. active \in From7
      BY <2>2 DEF From7
    <2> QED BY <2>2, <2>3 DEF IInv, ShouldLoop
  <1> QED BY WorkflowInvariance, <1>1, PTL DEF Spec, LoopsOnFreshReview
=============================================================================
