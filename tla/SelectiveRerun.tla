---------------------------- MODULE SelectiveRerun ----------------------------
(***************************************************************************)
(* The plan for reviewing a changed PRD again: which nodes of the review   *)
(* graph to run, which to take from the outputs of an earlier run.  The    *)
(* plan is given to the caller; nothing executes it.                       *)
(*   service/impact_analysis_service.py, service/selective_rerun_service.py*)
(*   service/review_service.py: _attach_selective_rerun_plan_if_requested  *)
(***************************************************************************)

WorkflowNodes == {"parser", "planner", "risk", "delivery_planning", "reviewer", "reporter"}

(* _WORKFLOW_EDGES *)
WithoutRisk(node) ==                       \* Mutant: the parser's second successor is lost
    CASE node = "parser" -> {"planner"}
      [] node = "planner" -> {"delivery_planning"}
      [] node \in {"risk", "delivery_planning"} -> {"reviewer"}
      [] OTHER -> {"reporter"} \ {node}
Edges(node) ==
    CASE node = "parser" -> {"planner", "risk"}
      [] node = "planner" -> {"delivery_planning"}
      [] node \in {"risk", "delivery_planning"} -> {"reviewer"}
      [] node = "reviewer" -> {"reporter"}
      [] OTHER -> {}

(* The nodes whose outputs a node's agent reads in the same pass. *)
ReadsOf(node) ==
    CASE node \in {"planner", "risk"} -> {"parser"}
      [] node = "delivery_planning" -> {"parser", "planner", "risk"}
      [] node = "reviewer" -> {"parser", "planner"}
      [] node = "reporter" -> WorkflowNodes \ {"reporter"}
      [] OTHER -> {}

VARIABLES
    change,      \* the words among the headings that changed
    cached,      \* the nodes an output of which is at hand
    impact,      \* the nodes found to be affected, and how they were found
    plan         \* per node: rerun, reuse_cache or skip

rerunVars == <<change, cached, impact, plan>>

Words == {"scope", "risk", "task"}         \* one of each of the three lists of words
NotAnalysed == [mode |-> "none", nodes |-> {}]
NoPlan == [n \in WorkflowNodes |-> "none"]

RerunInit ==
    /\ change = {} /\ cached = {}
    /\ impact = NotAnalysed /\ plan = NoPlan

(* _build_cached_node_outputs: whichever outputs of the earlier run are not  *)
(* empty.                                                                    *)
Cacheable == SUBSET WorkflowNodes

(* One request, its headings compared by build_artifact_diff.                *)
Compare ==
    /\ impact = NotAnalysed /\ plan = NoPlan
    /\ change' \in SUBSET Words /\ cached' \in Cacheable
    /\ impact' = [mode |-> "asked", nodes |-> {}]
    /\ UNCHANGED plan

(* _deterministic_fallback *)
Fallback(words) ==
    {"parser", "reporter"}
      \cup (IF "scope" \in words THEN WorkflowNodes ELSE {})
      \cup (IF "risk" \in words THEN {"risk", "reviewer"} ELSE {})
      \cup (IF "task" \in words THEN {"planner", "delivery_planning", "reviewer"} ELSE {})

(* analyze_affected_nodes_async: the model's answer, unless it names none. *)
Analyse ==
    /\ impact.mode = "asked"
    /\ \/ impact' = [mode |-> "fallback", nodes |-> Fallback(change)]
       \/ impact' = [mode |-> "fallback", nodes |-> {"parser", "reporter"}]
       \/ \E nodes \in (SUBSET WorkflowNodes) \ {{}} : impact' = [mode |-> "model", nodes |-> nodes]
    /\ UNCHANGED <<change, cached, plan>>

(* _closure: all that can be reached, the least set that has the nodes and  *)
(* every successor of its own.                                              *)
Closed(S) == \A n \in S : Edges(n) \subseteq S
Closure(nodes) ==
    {n \in WorkflowNodes :
        \A S \in SUBSET WorkflowNodes : nodes \subseteq S /\ Closed(S) => n \in S}

(* build_rerun_plan_async *)
Plan ==
    /\ impact.mode \in {"fallback", "model"}
    /\ \E rerun \in {Closure(impact.nodes)} :
          plan' = [n \in WorkflowNodes |->
              CASE n \in rerun -> "rerun"
                [] n \notin rerun /\ n \in cached -> "reuse_cache"
                [] OTHER -> "skip"]
    /\ impact' = NotAnalysed
    /\ UNCHANGED <<change, cached>>

RerunNext == Compare \/ Analyse \/ Plan

----------------------------------------------------------------------------
(* A node that is reused ("cache_hit_for_unaffected_node") reads nothing of a *)
(* node that runs again, whatever was found to be affected and cached, but    *)
(* for one pair: the delivery plan is made of the risks, and no edge leads    *)
(* from "risk" to it.                                                         *)
ReuseIsUnaffected ==
    \A n \in WorkflowNodes : plan[n] = "reuse_cache" =>
        \A m \in ReadsOf(n) : plan[m] = "rerun" => <<n, m>> = <<"delivery_planning", "risk">>
=============================================================================
