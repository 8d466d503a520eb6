--------------------------- MODULE ParallelReview ---------------------------
(***************************************************************************)
(* The reviewer node over the passes of one run: the gate, the reviewers   *)
(* run at the same time under a timeout each, the aggregation and its six  *)
(* files, and the router that asks for another pass.                       *)
(*   workflow.py, review/gating.py, review/parallel_review_manager.py,     *)
(*   review/aggregator.py                                                  *)
(* The requirement's text does not change between passes; the items parsed *)
(* from it do.                                                             *)
(***************************************************************************)
EXTENDS ReviewAggregation

CONSTANTS Documents,      \* the requirement texts looked at
          MaxItems,       \* bound on the parsed items with and without criteria
          MaxRevisions    \* _MAX_REVISION_ROUNDS

ASSUME ParallelReviewAssumption ==
    /\ \A d \in Documents : d.size \in {"sparse", "compact", "long"}
    /\ MaxItems \in Nat /\ MaxRevisions \in Nat

Files == <<"review_result.json", "review_report.json", "risk_items.json",
           "open_questions.json", "review_report.md", "review_summary.md">>

VARIABLES
    q, requested,   \* the normalised requirement and the mode asked for
    stage,          \* gate, reviewing, writing, routing, completed or failed
    round,          \* state.revision_round
    items,          \* parsed_items: how many have criteria and how many have none
    outcome,        \* per reviewer: unused, pending, or how its call ended
    review,         \* what the node has returned
    filePass           \* per file: the pass that wrote it

parallelVars == <<q, requested, stage, round, items, outcome, review, filePass>>

ItemCounts == [with : 0 .. MaxItems, without : 0 .. MaxItems]
Unused == [r \in ReviewerNames |-> "unused"]
NoReview == [mode |-> "none"]

ParallelInit ==
    /\ q \in {Normalized(d) : d \in Documents} /\ requested \in RequestedModes
    /\ stage = "gate" /\ round = 0
    /\ items \in ItemCounts
    /\ outcome = Unused
    /\ review = NoReview
    /\ filePass = [i \in DOMAIN Files |-> 0]

Mode == SelectedMode(q, requested)

----------------------------------------------------------------------------
(* What the node returns.  itemFlags: the numbers of flags met on the items; *)
(* risky: high_risk_ratio > _HIGH_RISK_THRESHOLD.                            *)
Review(mode, summary, itemFlags, noted, risky) ==
    [mode |-> mode, summary |-> summary, itemFlags |-> itemFlags, noted |-> noted,
     risky |-> risky]

(* _run_single_reviewer: what the model finds, or nothing when its call has *)
(* failed; words the model did not object to may still raise the ratio.     *)
QuickSummary == [findings |-> {}, risks |-> {}, questions |-> {}, conflicts |-> {},
                 used |-> {"single_reviewer"}, completed |-> {"single_reviewer"},
                 failed |-> {}, partial |-> FALSE, manual |-> FALSE, overall |-> "low"]

QuickReview ==
    /\ stage = "gate" /\ Mode = "quick"
    /\ \E flags \in SUBSET (0 .. 3), risky \in BOOLEAN, noted \in BOOLEAN :
          /\ items.with + items.without = 0 => flags = {} /\ ~risky
          /\ flags # {} /\ (\A n \in flags : RiskyItem(n)) => risky
          /\ review' = Review("quick", QuickSummary, flags, noted, risky)
    /\ stage' = "routing"
    /\ UNCHANGED <<q, requested, round, items, outcome, filePass>>

(* _build_skip_reviewer_response *)
SkipSummary == [QuickSummary EXCEPT !.used = {}, !.completed = {}, !.partial = TRUE,
                                    !.manual = TRUE]

SkipReview ==
    /\ stage = "gate" /\ Mode = "skip"
    /\ review' = Review("skip", SkipSummary, {}, FALSE, FALSE)
    /\ stage' = "routing"
    /\ UNCHANGED <<q, requested, round, items, outcome, filePass>>

(* run_parallel_review_async: asyncio.gather over the selected reviewers *)
StartReviewers ==
    /\ stage = "gate" /\ Mode = "full"
    /\ outcome' = [r \in ReviewerNames |-> IF r \in Selected(q) THEN "pending" ELSE "unused"]
    /\ stage' = "reviewing"
    /\ UNCHANGED <<q, requested, round, items, review, filePass>>

(* _run_reviewer_with_resilience: an answer, an exception, or the timeout *)
EndReviewer(r, how) ==
    /\ stage = "reviewing" /\ outcome[r] = "pending"
    /\ outcome' = [outcome EXCEPT ![r] = how]
    /\ UNCHANGED <<q, requested, stage, round, items, review, filePass>>

TimeOutNever(r) == FALSE /\ EndReviewer(r, "timeout")   \* Mutant: no wait_for
TimeOut(r) == EndReviewer(r, "timeout")

(* gather returns when all have ended; _partial_reviewer_result is empty. *)
AnswerFrom(r) == IF outcome[r] = "completed" THEN AnswerOf(q, r) ELSE NoAnswer
Results ==
    [r \in {s \in ReviewerNames : outcome[s] # "unused"} |->
        [status |-> outcome[r],
         findings |-> AnswerFrom(r).findings, risks |-> AnswerFrom(r).risks,
         questions |-> AnswerFrom(r).questions, ambiguous |-> AnswerFrom(r).ambiguous,
         signals |-> AnswerFrom(r).signals]]

GatherReturns ==
    /\ stage = "reviewing"
    /\ \A r \in ReviewerNames : outcome[r] # "pending"
    /\ stage' = "writing"
    /\ UNCHANGED <<q, requested, round, items, outcome, review, filePass>>

(* The files are written one after the other; an OSError raises the node. *)
Written == {i \in DOMAIN Files : filePass[i] = round + 1}

WriteFile ==
    /\ stage = "writing" /\ Written # DOMAIN Files
    /\ filePass' = [filePass EXCEPT ![Cardinality(Written) + 1] = round + 1]
    /\ UNCHANGED <<q, requested, stage, round, items, outcome, review>>

(* _build_parallel_review_results and _compute_parallel_high_risk_ratio: the *)
(* items with criteria of their own all get the same flags, as do the others. *)
RiskyItems(findings) ==
    (IF RiskyItem(Flags(findings, TRUE)) THEN items.with ELSE 0)
  + (IF RiskyItem(Flags(findings, FALSE)) THEN items.without ELSE 0)

HighRatio(findings) == 10 * RiskyItems(findings) > 4 * (items.with + items.without)

PublishFullReview ==
    /\ stage = "writing" /\ Written = DOMAIN Files
    /\ \E results \in {Results} :
       LET all == Aggregate(results)
           flags == When(items.with > 0, {Flags(all.findings, TRUE)})
                        \cup When(items.without > 0, {Flags(all.findings, FALSE)})
       IN  review' = Review("full", all, flags, all.risks # {}, HighRatio(all.findings))
    /\ stage' = "routing"
    /\ UNCHANGED <<q, requested, round, items, outcome, filePass>>

(* The cache, the case store or a file cannot be read or written. *)
NodeRaises ==
    /\ stage \in {"gate", "writing"}
    /\ stage' = "failed"
    /\ UNCHANGED <<q, requested, round, items, outcome, review, filePass>>

----------------------------------------------------------------------------
(* _route_decider_node; clarify parses the requirement again.  What the pass *)
(* returned is read by no node before the next pass replaces it.            *)
Loops == review.risky /\ round < MaxRevisions

Clarify ==
    /\ stage = "routing" /\ Loops
    /\ round' = round + 1
    /\ items' \in ItemCounts
    /\ stage' = "gate"
    /\ outcome' = Unused /\ review' = NoReview
    /\ UNCHANGED <<q, requested, filePass>>

Finish ==
    /\ stage = "routing" /\ ~Loops
    /\ stage' = "completed"
    /\ UNCHANGED <<q, requested, round, items, outcome, review, filePass>>

ParallelNext ==
    \/ QuickReview \/ SkipReview \/ StartReviewers
    \/ \E r \in ReviewerNames : \/ \E how \in {"completed", "error"} : EndReviewer(r, how)
                                \/ TimeOut(r)
    \/ GatherReturns \/ WriteFile \/ PublishFullReview \/ NodeRaises
    \/ Clarify \/ Finish

(* wait_for ends every call; nothing is assumed of the reviewers themselves. *)
Fairness ==
    /\ WF_parallelVars(QuickReview \/ SkipReview \/ StartReviewers)
    /\ WF_parallelVars(\E r \in ReviewerNames : TimeOut(r))
    /\ WF_parallelVars(GatherReturns \/ WriteFile \/ PublishFullReview)
    /\ WF_parallelVars(Clarify \/ Finish)

ParallelSpec == ParallelInit /\ [][ParallelNext]_parallelVars /\ Fairness

----------------------------------------------------------------------------
(* What the run's result page lists: _derive_review_findings *)
ListedFindings == DerivedFindings(review.summary.findings, review.itemFlags, review.noted)

Published == stage \in {"routing", "completed"} /\ review.mode = "full"

(* A full review says of each reviewer it used whether it answered, is      *)
(* partial exactly when one did not, asks for a person exactly when it is   *)
(* partial and an answer that did arrive is high, and its six files are all *)
(* those of this pass: whatever failed, in whatever order.                  *)
FailuresShow ==
    Published =>
        LET s == review.summary
            answered == {r \in Selected(q) : outcome[r] = "completed"}
            high == \E r \in answered : HasHigh(AnswerOf(q, r).findings \cup AnswerOf(q, r).risks)
        IN  /\ s.completed = answered /\ s.failed = Selected(q) \ answered
            /\ s.partial <=> answered # Selected(q)
            /\ s.manual <=> (s.partial /\ high)
            /\ s.overall = "high" <=> high
            /\ \A i \in DOMAIN Files : filePass[i] = round + 1

(* A requirement without acceptance criteria does not get through early: as *)
(* long as both reviewers that look for them answer and something was       *)
(* parsed, the run ends only after its last revision.                       *)
UntestableNeverSlips ==
    stage = "completed" /\ review.mode = "full" /\ q.acc = 0
    /\ items.with + items.without > 0 /\ {"product", "qa"} \subseteq review.summary.completed
        => round = MaxRevisions

(* The result page lists a high finding exactly when a reviewer reported    *)
(* one, also when its findings are made from the items because the review   *)
(* has none of its own.                                                     *)
HighIsReal ==
    Published => (HasHigh(ListedFindings) <=> HasHigh(review.summary.findings))

(* Every run ends, though a reviewer may never answer. *)
ReviewEnds == <>(stage \in {"completed", "failed"})
=============================================================================
