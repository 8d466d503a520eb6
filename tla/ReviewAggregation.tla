------------------------- MODULE ReviewAggregation -------------------------
(***************************************************************************)
(* How the answers of several reviewers become one review, and what is     *)
(* read out of it afterwards.                                              *)
(*   review/aggregator.py, review/reviewer_agents/delivery_reviewer.py,    *)
(*   workflow.py (the reviewer node's results and ratio),                  *)
(*   service/review_service.py (_derive_review_findings)                   *)
(*                                                                         *)
(* results maps each reviewer that was run to its status and its answer.   *)
(* A topic is a title with its detail as _normalize_topic_key leaves them. *)
(***************************************************************************)
EXTENDS Reviewers

Severity == {"low", "medium", "high"}
Rank(s) == CASE s = "low" -> 0 [] s = "medium" -> 1 [] s = "high" -> 2
Highest(S) == CHOOSE s \in S : \A t \in S : Rank(t) <= Rank(s)
Lowest(S) == CHOOSE s \in S : \A t \in S : Rank(s) <= Rank(t)

(* Mutant: the first severity met stays. *)
MergedSeverityOfFirst(S) == Lowest(S)

(* _max_severity, over all that was merged into one entry *)
MergedSeverity(S) == Highest(S)

(* Mutant: a timeout counts as an answer. *)
FailedTimeoutsPass(results) == {r \in DOMAIN results : results[r].status = "error"}

(* _build_review_meta: whoever did not complete has failed. *)
FailedOf(results) == {r \in DOMAIN results : results[r].status # "completed"}
Completed(results) == DOMAIN results \ FailedOf(results)

(* _resolve_source_reviewer and the order of the results: the first one. *)
FirstOf(S) == ReviewerOrder[CHOOSE i \in DOMAIN ReviewerOrder :
                  /\ ReviewerOrder[i] \in S
                  /\ \A j \in 1 .. (i - 1) : ReviewerOrder[j] \notin S]

----------------------------------------------------------------------------
(* _aggregate_findings and _apply_clarification_metadata: one entry for a   *)
(* category and topic; a high one of a reviewer that named an ambiguity and *)
(* asked about it is unanswerable.                                          *)
Says(results, r, c, t) == {f \in results[r].findings : f.cat = c /\ f.topic = t}

MergedFinding(results, c, t) ==
    LET by == {r \in DOMAIN results : Says(results, r, c, t) # {}}
        sev == MergedSeverity({f.sev : f \in UNION {Says(results, r, c, t) : r \in by}})
    IN  [cat |-> c, topic |-> t, sev |-> sev, by |-> by, source |-> FirstOf(by),
         unanswerable |-> (sev = "high" /\ \E r \in by : results[r].ambiguous)]

AggregateFindings(results) ==
    {MergedFinding(results, f.cat, f.topic) :
        f \in UNION {results[r].findings : r \in DOMAIN results}}

(* _aggregate_risks and _aggregate_open_questions *)
MergedRisk(results, t) ==
    LET by == {r \in DOMAIN results : \E k \in results[r].risks : k.topic = t}
    IN  [topic |-> t, by |-> by,
         sev |-> MergedSeverity({k.sev : k \in {l \in UNION {results[r].risks : r \in by} :
                                                    l.topic = t}})]

AggregateRisks(results) ==
    {MergedRisk(results, k.topic) : k \in UNION {results[r].risks : r \in DOMAIN results}}

AggregateQuestions(results) ==
    {[topic |-> t, by |-> {r \in DOMAIN results : t \in results[r].questions}] :
        t \in UNION {results[r].questions : r \in DOMAIN results}}

----------------------------------------------------------------------------
(* _detect_severity_conflicts: findings of one topic, whatever their        *)
(* category, that differ; or one severity of the findings against the       *)
(* lowest one of the risks.                                                 *)
FindingLevels(results, t) ==
    {f.sev : f \in {g \in UNION {results[r].findings : r \in DOMAIN results} : g.topic = t}}
RiskLevels(results, t) ==
    {k.sev : k \in {l \in UNION {results[r].risks : r \in DOMAIN results} : l.topic = t}}
TopicReviewers(results, t) ==
    {r \in DOMAIN results : \E x \in results[r].findings \cup results[r].risks : x.topic = t}

Mismatch(results, t, fs, rs) ==
    [type |-> "severity_mismatch", topic |-> t, by |-> TopicReviewers(results, t),
     findingSev |-> fs, riskSev |-> rs, sev |-> Highest(fs \cup rs)]

(* Mutant: only findings are compared with risks. *)
SeverityConflictsOfRisks(results) ==
    LET topics == {f.topic : f \in UNION {results[r].findings : r \in DOMAIN results}}
    IN  {Mismatch(results, t, {Lowest(FindingLevels(results, t))},
                  {Lowest(RiskLevels(results, t))}) :
            t \in {u \in topics :
                     /\ RiskLevels(results, u) # {}
                     /\ Lowest(FindingLevels(results, u)) # Lowest(RiskLevels(results, u))}}

SeverityConflicts(results) ==
    LET topics == {f.topic : f \in UNION {results[r].findings : r \in DOMAIN results}}
        several == {t \in topics : Cardinality(FindingLevels(results, t)) > 1}
        against == {t \in topics \ several :
                      /\ RiskLevels(results, t) # {}
                      /\ Lowest(FindingLevels(results, t)) # Lowest(RiskLevels(results, t))}
    IN  {Mismatch(results, t, FindingLevels(results, t), RiskLevels(results, t)) : t \in several}
        \cup {Mismatch(results, t, FindingLevels(results, t), {Lowest(RiskLevels(results, t))}) :
                t \in against}

(* _collect_semantic_signals and _detect_semantic_conflicts: a signal counts *)
(* only from the reviewers it is expected of.                               *)
Allowed == [s \in {"scope_inclusion", "dependency_blocker", "acceptance_complete",
                   "testability_gap", "release_ok", "approval_blocker"} |->
    CASE s = "scope_inclusion" -> {"product"}
      [] s = "dependency_blocker" -> {"engineering"}
      [] s = "acceptance_complete" -> {"product", "qa"}
      [] s = "testability_gap" -> {"qa"}
      [] s = "release_ok" -> {"product", "engineering", "security"}
      [] s = "approval_blocker" -> {"security", "product"}]

SemanticRules ==
    {[type |-> "scope_inclusion_vs_dependency_blocker",
      left |-> "scope_inclusion", right |-> "dependency_blocker"],
     [type |-> "acceptance_complete_vs_testability_gap",
      left |-> "acceptance_complete", right |-> "testability_gap"],
     [type |-> "release_ok_vs_approval_blocker",
      left |-> "release_ok", right |-> "approval_blocker"]}

Signalling(results, s) == {r \in DOMAIN results : r \in Allowed[s] /\ s \in results[r].signals}

SemanticConflicts(results) ==
    {[type |-> rule.type, topic |-> "none", findingSev |-> {}, riskSev |-> {}, sev |-> "high",
      by |-> Signalling(results, rule.left) \cup Signalling(results, rule.right)] :
        rule \in {x \in SemanticRules :
            /\ Signalling(results, x.left) # {} /\ Signalling(results, x.right) # {}
            /\ Signalling(results, x.left) # Signalling(results, x.right)}}

----------------------------------------------------------------------------
(* arbitrate_conflict: a severity written as a list of two is not high. *)
ArbitratedSeverity(c) ==
    IF c.findingSev = {"high"} \/ c.riskSev = {"high"} THEN {"high"}
    ELSE IF c.riskSev # {} THEN c.riskSev ELSE c.findingSev

NeedsHuman(c) == c.type \in {"acceptance_complete_vs_testability_gap",
                             "scope_inclusion_vs_dependency_blocker"}

(* _arbitrate_high_severity_conflicts: only high conflicts are arbitrated,  *)
(* the others wait for a person.                                            *)
Arbitrated(c) ==
    [type |-> c.type, topic |-> c.topic, by |-> c.by, sev |-> c.sev,
     manual |-> (c.sev = "high" => NeedsHuman(c)),
     treatAs |-> IF c.sev = "high" /\ c.type = "severity_mismatch"
                 THEN ArbitratedSeverity(c) ELSE {}]

DetectConflicts(results) ==
    {Arbitrated(c) : c \in SeverityConflicts(results) \cup SemanticConflicts(results)}

----------------------------------------------------------------------------
(* aggregate_review_results: what the review says as a whole. *)
HasHigh(entries) == \E e \in entries : e.sev = "high"

OverallRisk(findings, risks) ==
    LET levels == {e.sev : e \in findings} \cup {e.sev : e \in risks}
    IN  IF "high" \in levels THEN "high"
        ELSE IF "medium" \in levels THEN "medium" ELSE "low"

(* _build_manual_review_message *)
ManualReview(results, findings, risks) ==
    FailedOf(results) # {} /\ (HasHigh(findings) \/ HasHigh(risks))

Aggregate(results) ==
    LET findings == AggregateFindings(results)
        risks == AggregateRisks(results)
    IN  [findings |-> findings, risks |-> risks,
         questions |-> AggregateQuestions(results), conflicts |-> DetectConflicts(results),
         used |-> DOMAIN results, completed |-> Completed(results), failed |-> FailedOf(results),
         partial |-> (FailedOf(results) # {}),
         manual |-> ManualReview(results, findings, risks),
         overall |-> OverallRisk(findings, risks)]

----------------------------------------------------------------------------
(* _build_parallel_review_results: every parsed item gets its flags from    *)
(* the high findings and from having acceptance criteria of its own.        *)
ScopeGap(findings) ==
    \E f \in findings : f.cat \in {"scope", "acceptance"} /\ f.sev = "high"
TestabilityGap(findings) == \E f \in findings : f.cat = "testability" /\ f.sev = "high"

(* Mutant: the testability finding is not held against items with criteria. *)
FlagsOfItsOwn(findings, hasCriteria) ==
    Cardinality({g \in {"unclear", "untestable", "ambiguous"} :
        CASE g = "unclear" -> ScopeGap(findings)
          [] g = "untestable" -> ~hasCriteria
          [] g = "ambiguous" -> ScopeGap(findings) /\ ~hasCriteria})

Flags(findings, hasCriteria) ==
    Cardinality({g \in {"unclear", "untestable", "ambiguous"} :
        CASE g = "unclear" -> ScopeGap(findings)
          [] g = "untestable" -> ~hasCriteria \/ TestabilityGap(findings)
          [] g = "ambiguous" -> ScopeGap(findings) /\ ~hasCriteria})

(* Mutant: one flag is enough. *)
RiskyItemOneFlag(flags) == flags >= 1

(* _compute_parallel_high_risk_ratio and the severity derived for an item *)
RiskyItem(flags) == flags >= 2

(* _derive_review_findings: the findings of the review, or else one for     *)
(* each item that has a flag, an issue or a suggestion, attributed to the   *)
(* single reviewer.                                                         *)
ItemFinding(flags) ==
    [sev |-> IF RiskyItem(flags) THEN "high" ELSE "medium", by |-> {"single_reviewer"}]

DerivedFindings(findings, itemFlags, noted) ==
    IF findings # {} THEN {[sev |-> f.sev, by |-> f.by] : f \in findings}
    ELSE {ItemFinding(n) : n \in {m \in itemFlags : m > 0 \/ noted}}
============================================================================
