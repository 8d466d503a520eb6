--------------------------- MODULE ReviewWorkflow ---------------------------
(***************************************************************************)
(* The review graph: parser, planner and risk in parallel, join, delivery  *)
(* planning, reviewer, and a router that sends a risky review back to the  *)
(* clarify node a bounded number of times.                                 *)
(*   workflow.py, state.py, agents/*, subflows/risk_analysis.py, and the   *)
(*   progress hook of server/job_state.py                                  *)
(*                                                                         *)
(* LangGraph runs the nodes in supersteps: the nodes of a step read the    *)
(* same state, their updates are applied together when all have ended, in  *)
(* the order of their names.  A state field holds the number of the pass   *)
(* that produced it (revision_round + 1), or 0.                            *)
(***************************************************************************)
EXTENDS Integers, FiniteSets

CONSTANT MaxRevisions   \* _MAX_REVISION_ROUNDS

ASSUME ReviewWorkflowAssumption == MaxRevisions \in Nat

Nodes == {"parser", "clarify", "parallel_start", "planner", "risk", "review_join",
          "delivery_planning", "reviewer", "route_decider", "reporter"}
Primary == Nodes \ {"clarify"}

Fields == {"parsed_items", "plan", "evidence", "tasks", "implementation_plan",
           "review_results", "final_report"}

(* The field each node returns; the other nodes return none of these. *)
Produces == [n \in Nodes |->
    CASE n \in {"parser", "clarify"} -> {"parsed_items"}
      [] n = "planner" -> {"plan"}
      [] n = "risk" -> {"evidence"}
      [] n = "review_join" -> {"tasks"}
      [] n = "delivery_planning" -> {"implementation_plan"}
      [] n = "reviewer" -> {"review_results"}
      [] n = "reporter" -> {"final_report"}
      [] OTHER -> {}]

(* The span a node writes: clarify runs the parser agent, under its name. *)
Spans == {"parser", "planner_risk_parallel", "planner", "risk", "delivery_planning",
          "reviewer", "router", "reporter"}
SpanOf == [n \in Nodes |->
    CASE n = "clarify" -> "parser"
      [] n \in {"parallel_start", "review_join"} -> "planner_risk_parallel"
      [] n = "route_decider" -> "router"
      [] OTHER -> n]

VARIABLES
    phase,     \* running, completed or failed
    active,    \* the nodes of the current superstep
    at,        \* per node: idle, running or ended in this superstep
    good,      \* per node: the span of its update has status ok
    round,     \* state.revision_round
    field,     \* per field: the pass that produced its value
    items,     \* state.parsed_items is not empty
    risky,     \* state.high_risk_ratio > _HIGH_RISK_THRESHOLD
    trace,     \* per span: the pass that wrote it
    progress   \* JobRecord.node_progress: status and runs of each node

vars == <<phase, active, at, good, round, field, items, risky, trace, progress>>

Pass == round + 1

Init ==
    /\ phase = "running"
    /\ active = {"parser"}
    /\ at = [n \in Nodes |-> "idle"]
    /\ good = [n \in Nodes |-> FALSE]
    /\ round = 0
    /\ field = [f \in Fields |-> 0]
    /\ items = FALSE /\ risky = FALSE
    /\ trace = [k \in Spans |-> 0]
    /\ progress = [n \in Nodes |-> [status |-> "pending", runs |-> 0]]

----------------------------------------------------------------------------
(* _build_async_node and _build_sync_node: the hook's start ... *)
StartNode(n) ==
    /\ phase = "running" /\ n \in active /\ at[n] = "idle"
    /\ at' = [at EXCEPT ![n] = "running"]
    /\ progress' = [progress EXCEPT ![n] = [status |-> "running", runs |-> @.runs + 1]]
    /\ UNCHANGED <<phase, active, good, round, field, items, risky, trace>>

EndNodeWaits(n, ok) ==
    /\ phase = "running" /\ at[n] = "running"
    /\ n = "planner" => items
    /\ at' = [at EXCEPT ![n] = "ended"]
    /\ good' = [good EXCEPT ![n] = ok]
    /\ progress' = [progress EXCEPT ![n].status = "completed"]
    /\ UNCHANGED <<phase, active, round, field, items, risky, trace>>

(* ... and its end: the node's status is its span's, when the span has the  *)
(* node's name.  The agents answer a failed model call with an empty result *)
(* and an error span; the planner does so too when nothing was parsed.      *)
NodeStatus(n, ok) == IF SpanOf[n] = n /\ ~ok THEN "failed" ELSE "completed"

EndNode(n, ok) ==
    /\ phase = "running" /\ at[n] = "running"
    /\ n = "planner" /\ ~items => ~ok
    /\ n \in {"parallel_start", "review_join", "route_decider", "reporter",
              "delivery_planning"} => ok
    /\ at' = [at EXCEPT ![n] = "ended"]
    /\ good' = [good EXCEPT ![n] = ok]
    /\ progress' = [progress EXCEPT ![n].status = NodeStatus(n, ok)]
    /\ UNCHANGED <<phase, active, round, field, items, risky, trace>>

(* A node raises: ainvoke raises, the other node of the step is cancelled.  *)
(* No hook is called, so both keep the status running.                      *)
NodeRaises(n) ==
    /\ phase = "running" /\ at[n] = "running"
    /\ phase' = "failed"
    /\ UNCHANGED <<active, at, good, round, field, items, risky, trace, progress>>

----------------------------------------------------------------------------
(* Every node returns a copy of the trace it was given with its own span    *)
(* set; merge_state_dicts lays a copy over what is there, risk's last.      *)
SpanCopy(n) == [trace EXCEPT ![SpanOf[n]] = Pass]

MergeStateDicts(left, right) ==
    [k \in Spans |-> IF right[k] # 0 THEN right[k] ELSE left[k]]

MergeTraces ==
    IF active = {"planner", "risk"}
    THEN MergeStateDicts(SpanCopy("planner"), SpanCopy("risk"))
    ELSE SpanCopy(CHOOSE n \in active : TRUE)

(* _route_decider_node: another round while the review is too risky. *)
ShouldLoop == risky /\ round < MaxRevisions


(* Mutant: a clarified requirement is not planned again. *)
AfterClarifySkipsPlan(n) ==
    CASE n = "clarify" -> {"review_join"}
      [] n = "parser" -> {"parallel_start"}
      [] n = "parallel_start" -> {"planner", "risk"}
      [] n \in {"planner", "risk"} -> {"review_join"}
      [] n = "review_join" -> {"delivery_planning"}
      [] n = "delivery_planning" -> {"reviewer"}
      [] n = "reviewer" -> {"route_decider"}
      [] n = "route_decider" -> IF ShouldLoop THEN {"clarify"} ELSE {"reporter"}
      [] OTHER -> {}

(* The edges of build_review_graph; planner and risk share one successor. *)
After(n) ==
    CASE n \in {"parser", "clarify"} -> {"parallel_start"}
      [] n = "parallel_start" -> {"planner", "risk"}
      [] n \in {"planner", "risk"} -> {"review_join"}
      [] n = "review_join" -> {"delivery_planning"}
      [] n = "delivery_planning" -> {"reviewer"}
      [] n = "reviewer" -> {"route_decider"}
      [] n = "route_decider" -> IF ShouldLoop THEN {"clarify"} ELSE {"reporter"}
      [] OTHER -> {}

(* parsed_items is empty when the parser's answer was unusable, or has none *)
ParsedItems(ok) == IF ok THEN BOOLEAN ELSE {FALSE}

(* Skip, quick and full reviewers: no ratio is high without items.          *)
HighRiskRatio == IF items THEN BOOLEAN ELSE {FALSE}

(* review_join refuses nothing: it notes in the trace what is missing.      *)
EndStep ==
    /\ phase = "running"
    /\ \A n \in active : at[n] = "ended"
    /\ field' = [f \in Fields |->
                    IF \E n \in active : f \in Produces[n] THEN Pass ELSE field[f]]
    /\ trace' = MergeTraces
    /\ IF active \cap {"parser", "clarify"} # {}
       THEN items' \in ParsedItems(\E n \in active : good[n])
       ELSE items' = items
    /\ IF "reviewer" \in active
       THEN risky' \in HighRiskRatio
       ELSE risky' = risky
    /\ round' = IF "route_decider" \in active /\ ShouldLoop THEN round + 1 ELSE round
    /\ active' = UNION {After(n) : n \in active}
    /\ phase' = IF active' = {} THEN "completed" ELSE "running"
    /\ at' = [n \in Nodes |-> "idle"]
    /\ UNCHANGED <<good, progress>>

Next ==
    \/ \E n \in Nodes : StartNode(n) \/ NodeRaises(n)
    \/ \E n \in Nodes, ok \in BOOLEAN : EndNode(n, ok)
    \/ EndStep

Spec == Init /\ [][Next]_vars

(* The loop schedules what is ready, and a node that runs ends: its model   *)
(* calls time out.  Nothing is assumed of a node that could raise.          *)
Fairness ==
    /\ WF_vars(\E n \in Nodes : StartNode(n))
    /\ WF_vars(\E n \in Nodes, ok \in BOOLEAN : EndNode(n, ok))
    /\ WF_vars(EndStep)

FairSpec == Spec /\ Fairness

----------------------------------------------------------------------------
TypeOK ==
    /\ phase \in {"running", "completed", "failed"}
    /\ active \in SUBSET Nodes
    /\ at \in [Nodes -> {"idle", "running", "ended"}]
    /\ good \in [Nodes -> BOOLEAN]
    /\ round \in 0 .. MaxRevisions
    /\ field \in [Fields -> 0 .. MaxRevisions + 1]
    /\ items \in BOOLEAN /\ risky \in BOOLEAN
    /\ trace \in [Spans -> 0 .. MaxRevisions + 1]
    /\ progress \in [Nodes -> [status : {"pending", "running", "completed", "failed"},
                               runs : Nat]]

(* The join and everything after it see what both parallel branches made in *)
(* this pass, from what was parsed in this pass.                            *)
BranchesJoined ==
    active \cap {"review_join", "delivery_planning", "reviewer", "route_decider",
                 "reporter"} # {}
        => field["parsed_items"] = Pass /\ field["plan"] = Pass /\ field["evidence"] = Pass

(* The report is made of one pass: its items, plan, tasks, handoff plan and *)
(* review results all belong to the last one.                               *)
ReportIsOfOnePass ==
    phase = "completed" => \A f \in Fields : field[f] = Pass

(* A new pass is begun only on the verdict of this pass's own review. *)
LoopsOnFreshReview ==
    [][round' # round => risky /\ field["review_results"] = Pass]_vars

(* The graph ends, whatever the reviews say. *)
GraphEnds == <>(phase # "running")

(* When the join runs, the trace holds the spans both branches wrote in     *)
(* this pass: merge_state_dicts "Merge dict fragments produced by parallel  *)
(* branches".                                                               *)
SpansOfBothBranches ==
    "review_join" \in active => trace["planner"] = Pass /\ trace["risk"] = Pass
=============================================================================
