--------------------------- MODULE Reviews_proofs ---------------------------
(***************************************************************************)
(* What several reviewers say together, and what becomes of a review: the  *)
(* answers to its questions and the versions of the text it is about.      *)
(*   1. ParallelReview: no failure, gap or high severity is lost or made   *)
(*      up on the way to the node's answer.                                *)
(*   2. RunRevision with ArtifactVersions: names resolve, rows are written *)
(*      once, and answers sent to the server alone are kept.               *)
(*   3. The same, while calls come one after the other: what is served is  *)
(*      what the user did last, and the workspace points at the version    *)
(*      made last.                                                         *)
(***************************************************************************)
EXTENDS RunRevision, ParallelReview, FiniteSetTheorems, SequenceTheorems, WellFoundedInduction, TLAPS

-----------------------------------------------------------------------------
(* What several reviewers say together: _max_severity is the highest of what *)
(* was merged, so an entry is high exactly when one of them said so.         *)
LEMMA HighestIsThere ==
  ASSUME NEW S \in SUBSET Severity, S # {}
  PROVE  /\ Highest(S) \in S
         /\ Highest(S) = "high" <=> "high" \in S
<1>1. \E s \in S : \A t \in S : Rank(t) <= Rank(s)
  <2>1. CASE "high" \in S BY <2>1 DEF Severity, Rank
  <2>2. CASE "high" \notin S /\ "medium" \in S BY <2>2 DEF Severity, Rank
  <2>3. CASE "high" \notin S /\ "medium" \notin S BY <2>3 DEF Severity, Rank
  <2> QED BY <2>1, <2>2, <2>3
<1>2. Highest(S) \in S /\ \A t \in S : Rank(t) <= Rank(Highest(S)) BY <1>1 DEF Highest
<1> QED BY <1>2 DEF Severity, Rank

Rated(entries) == \A e \in entries : e.sev \in Severity

LEMMA MergedSeverityIsHigh ==
  ASSUME NEW entries, Rated(entries), entries # {}
  PROVE  /\ MergedSeverity({e.sev : e \in entries}) \in Severity
         /\ MergedSeverity({e.sev : e \in entries}) = "high" <=> HasHigh(entries)
<1> DEFINE S == {e.sev : e \in entries}
<1>1. S \in SUBSET Severity /\ S # {} BY DEF Rated
<1>2. "high" \in S <=> HasHigh(entries) BY DEF HasHigh
<1> HIDE DEF S
<1>3. Highest(S) \in S /\ (Highest(S) = "high" <=> "high" \in S) BY <1>1, HighestIsThere
<1> QED BY <1>1, <1>2, <1>3 DEF MergedSeverity, S

AllRated(results) ==
  \A r \in DOMAIN results : Rated(results[r].findings) /\ Rated(results[r].risks)

(* A category has a high finding in the review when it has one in an answer. *)
LEMMA FindingsMerged ==
  ASSUME NEW results, AllRated(results)
  PROVE  /\ HasHigh(AggregateFindings(results))
              <=> \E r \in DOMAIN results : HasHigh(results[r].findings)
         /\ \A r \in DOMAIN results : \A f \in results[r].findings : f.sev = "high" =>
              \E e \in AggregateFindings(results) : e.cat = f.cat /\ e.sev = "high"
         /\ Rated(AggregateFindings(results))
<1> DEFINE said == UNION {results[r].findings : r \in DOMAIN results}
           by(c, t) == {r \in DOMAIN results : Says(results, r, c, t) # {}}
           all(c, t) == UNION {Says(results, r, c, t) : r \in by(c, t)}
<1>1. ASSUME NEW f \in said
      PROVE  LET e == MergedFinding(results, f.cat, f.topic)
             IN  /\ e.cat = f.cat /\ e.sev \in Severity
                 /\ e.sev = "high" <=> HasHigh(all(f.cat, f.topic))
                 /\ f \in all(f.cat, f.topic)
  <2>1. PICK r \in DOMAIN results : f \in results[r].findings OBVIOUS
  <2>2. f \in all(f.cat, f.topic) BY <2>1 DEF Says
  <2>3. Rated(all(f.cat, f.topic)) BY DEF AllRated, Rated, Says
  <2>4. MergedFinding(results, f.cat, f.topic).sev
          = MergedSeverity({e.sev : e \in all(f.cat, f.topic)})
    BY DEF MergedFinding
  <2>5. MergedFinding(results, f.cat, f.topic).cat = f.cat BY DEF MergedFinding
  <2> HIDE DEF all
  <2> QED BY <2>2, <2>3, <2>4, <2>5, MergedSeverityIsHigh
<1>2. \A c, t : \A f \in all(c, t) : \E r \in DOMAIN results : f \in results[r].findings
  BY DEF Says
<1>3. AggregateFindings(results) = {MergedFinding(results, f.cat, f.topic) : f \in said}
  BY DEF AggregateFindings
<1>4. \A r \in DOMAIN results : \A f \in results[r].findings : f \in said OBVIOUS
<1> HIDE DEF said, all
<1>5. Rated(AggregateFindings(results)) BY <1>1, <1>3 DEF Rated
<1>6. \A r \in DOMAIN results : \A f \in results[r].findings : f.sev = "high" =>
        \E e \in AggregateFindings(results) : e.cat = f.cat /\ e.sev = "high"
  BY <1>1, <1>3, <1>4 DEF HasHigh
<1>7. HasHigh(AggregateFindings(results)) => \E r \in DOMAIN results : HasHigh(results[r].findings)
  BY <1>1, <1>2, <1>3 DEF HasHigh
<1> QED BY <1>5, <1>6, <1>7 DEF HasHigh

LEMMA RisksMerged ==
  ASSUME NEW results, AllRated(results)
  PROVE  /\ HasHigh(AggregateRisks(results))
              <=> \E r \in DOMAIN results : HasHigh(results[r].risks)
         /\ Rated(AggregateRisks(results))
<1> DEFINE said == UNION {results[r].risks : r \in DOMAIN results}
           by(t) == {r \in DOMAIN results : \E k \in results[r].risks : k.topic = t}
           all(t) == {l \in UNION {results[r].risks : r \in by(t)} : l.topic = t}
<1>1. ASSUME NEW k \in said
      PROVE  /\ MergedRisk(results, k.topic).sev \in Severity
             /\ MergedRisk(results, k.topic).sev = "high" <=> HasHigh(all(k.topic))
             /\ k \in all(k.topic)
  <2>1. PICK r \in DOMAIN results : k \in results[r].risks OBVIOUS
  <2>2. k \in all(k.topic) BY <2>1
  <2>3. Rated(all(k.topic)) BY DEF AllRated, Rated
  <2>4. MergedRisk(results, k.topic).sev = MergedSeverity({e.sev : e \in all(k.topic)})
    BY DEF MergedRisk
  <2> HIDE DEF all
  <2> QED BY <2>2, <2>3, <2>4, MergedSeverityIsHigh
<1>2. \A t : \A k \in all(t) : \E r \in DOMAIN results : k \in results[r].risks
  OBVIOUS
<1>3. AggregateRisks(results) = {MergedRisk(results, k.topic) : k \in said}
  BY DEF AggregateRisks
<1>4. \A r \in DOMAIN results : \A k \in results[r].risks : k \in said OBVIOUS
<1> HIDE DEF said, all
<1>5. Rated(AggregateRisks(results)) BY <1>1, <1>3 DEF Rated
<1>6. \A r \in DOMAIN results : \A k \in results[r].risks : k.sev = "high" =>
        HasHigh(AggregateRisks(results))
  BY <1>1, <1>3, <1>4 DEF HasHigh
<1>7. HasHigh(AggregateRisks(results)) => \E r \in DOMAIN results : HasHigh(results[r].risks)
  BY <1>1, <1>2, <1>3 DEF HasHigh
<1> QED BY <1>5, <1>6, <1>7 DEF HasHigh

SomeHigh(results) ==
  \E r \in DOMAIN results : HasHigh(results[r].findings \cup results[r].risks)

(* The review as a whole. *)
LEMMA AggregateSays ==
  ASSUME NEW results, AllRated(results)
  PROVE  /\ Aggregate(results).completed = {r \in DOMAIN results : results[r].status = "completed"}
         /\ Aggregate(results).failed = FailedOf(results)
         /\ Aggregate(results).partial <=> (FailedOf(results) # {})
         /\ Aggregate(results).manual <=> (FailedOf(results) # {} /\ SomeHigh(results))
         /\ Aggregate(results).overall = "high" <=> SomeHigh(results)
         /\ Aggregate(results).findings = AggregateFindings(results)
<1> DEFINE fs == AggregateFindings(results)
           rs == AggregateRisks(results)
<1>1. SomeHigh(results) <=> HasHigh(fs) \/ HasHigh(rs)
  BY FindingsMerged, RisksMerged DEF HasHigh, SomeHigh
<1>2. OverallRisk(fs, rs) = "high" <=> HasHigh(fs) \/ HasHigh(rs)
  <2> HIDE DEF fs, rs
  <2> QED BY DEF OverallRisk, HasHigh
<1>3. /\ Aggregate(results).findings = fs
      /\ Aggregate(results).completed = DOMAIN results \ FailedOf(results)
      /\ Aggregate(results).failed = FailedOf(results)
      /\ Aggregate(results).partial = (FailedOf(results) # {})
      /\ Aggregate(results).manual = ManualReview(results, fs, rs)
      /\ Aggregate(results).overall = OverallRisk(fs, rs)
  BY DEF Aggregate, Completed
<1> HIDE DEF fs, rs
<1> QED BY <1>1, <1>2, <1>3 DEF ManualReview, FailedOf, fs

----------------------------------------------------------------------------
(* The flags of an item, from the findings of the review. *)

LEMMA FlagsOfTwoGaps ==
  ASSUME NEW findings, NEW has \in BOOLEAN, ScopeGap(findings), TestabilityGap(findings)
  PROVE  RiskyItem(Flags(findings, has))
<1> DEFINE flagged == {g \in {"unclear", "untestable", "ambiguous"} :
                         CASE g = "unclear" -> ScopeGap(findings)
                           [] g = "untestable" -> ~has \/ TestabilityGap(findings)
                           [] g = "ambiguous" -> ScopeGap(findings) /\ ~has}
<1>1. "unclear" \in flagged /\ "untestable" \in flagged OBVIOUS
<1>2. flagged \subseteq {"unclear", "untestable", "ambiguous"} OBVIOUS
<1>3. Flags(findings, has) = Cardinality(flagged) BY DEF Flags
<1> HIDE DEF flagged
<1>4. IsFiniteSet(flagged)
  <2>1. IsFiniteSet({"unclear"}) /\ IsFiniteSet({"untestable"}) /\ IsFiniteSet({"ambiguous"})
    BY FS_Singleton
  <2>2. IsFiniteSet({"unclear"} \cup {"untestable"}) BY <2>1, FS_Union
  <2>3. IsFiniteSet(({"unclear"} \cup {"untestable"}) \cup {"ambiguous"}) BY <2>1, <2>2, FS_Union
  <2>4. flagged \subseteq ({"unclear"} \cup {"untestable"}) \cup {"ambiguous"} BY <1>2
  <2> QED BY <2>3, <2>4, FS_Subset
<1>5. Cardinality({"unclear", "untestable"}) = 2
  <2>1. IsFiniteSet({"unclear"}) /\ Cardinality({"unclear"}) = 1 BY FS_Singleton
  <2>2. {"unclear"} \cup {"untestable"} = {"unclear", "untestable"} OBVIOUS
  <2>3. Cardinality({"unclear"} \cup {"untestable"}) = Cardinality({"unclear"}) + 1
    BY <2>1, FS_AddElement
  <2> QED BY <2>1, <2>2, <2>3
<1>6. {"unclear", "untestable"} \subseteq flagged BY <1>1
<1>7. Cardinality(flagged) \in Nat /\ 2 <= Cardinality(flagged)
  BY <1>4, <1>5, <1>6, FS_Subset, FS_CardinalityType
<1> QED BY <1>3, <1>7 DEF RiskyItem

LEMMA FlagsOfNoFinding ==
  ASSUME NEW has \in BOOLEAN
  PROVE  Flags({}, has) \in Nat /\ ~RiskyItem(Flags({}, has))
<1> DEFINE flagged == {g \in {"unclear", "untestable", "ambiguous"} :
                         CASE g = "unclear" -> ScopeGap({})
                           [] g = "untestable" -> ~has \/ TestabilityGap({})
                           [] g = "ambiguous" -> ScopeGap({}) /\ ~has}
<1>1. flagged \subseteq {"untestable"} BY DEF ScopeGap, TestabilityGap
<1>2. Flags({}, has) = Cardinality(flagged) BY DEF Flags
<1> HIDE DEF flagged
<1>3. IsFiniteSet({"untestable"}) /\ Cardinality({"untestable"}) = 1 BY FS_Singleton
<1>4. Cardinality(flagged) \in Nat /\ Cardinality(flagged) <= 1
  BY <1>1, <1>3, FS_Subset, FS_CardinalityType
<1> QED BY <1>2, <1>4 DEF RiskyItem

(* A result page made from the items of a review without findings has none *)
(* that is high.                                                           *)
LEMMA DerivedAreReal ==
  ASSUME NEW findings, NEW itemFlags, NEW noted,
         findings = {} => \A n \in itemFlags : ~RiskyItem(n)
  PROVE  HasHigh(DerivedFindings(findings, itemFlags, noted)) <=> HasHigh(findings)
<1>1. CASE findings # {}
  <2>1. DerivedFindings(findings, itemFlags, noted) = {[sev |-> f.sev, by |-> f.by] : f \in findings}
    BY <1>1 DEF DerivedFindings
  <2>2. \A f : [sev |-> f.sev, by |-> f.by].sev = f.sev OBVIOUS
  <2> QED BY <2>1, <2>2 DEF HasHigh
<1>2. CASE findings = {}
  <2>1. \A e \in DerivedFindings(findings, itemFlags, noted) : e.sev = "medium"
    BY <1>2 DEF DerivedFindings, ItemFinding
  <2> QED BY <1>2, <2>1 DEF HasHigh
<1> QED BY <1>1, <1>2

----------------------------------------------------------------------------
(* The answers that arrived. *)

LEMMA AnswersAreRated ==
  \A d : \A r \in ReviewerNames : Rated(AnswerOf(d, r).findings) /\ Rated(AnswerOf(d, r).risks)
<1> SUFFICES ASSUME NEW d, NEW r \in ReviewerNames
             PROVE  Rated(AnswerOf(d, r).findings) /\ Rated(AnswerOf(d, r).risks)
  OBVIOUS
<1>1. CASE r = "product"
  BY <1>1 DEF AnswerOf, ProductAnswer, Rated, When, Finding, Severity
<1>2. CASE r = "engineering"
  BY <1>2 DEF AnswerOf, EngineeringAnswer, Rated, When, Finding, Risk, Severity
<1>3. CASE r = "qa"
  BY <1>3 DEF AnswerOf, QaAnswer, Rated, When, Finding, Risk, Severity
<1>4. CASE r = "security"
  BY <1>4 DEF AnswerOf, SecurityAnswer, Rated, When, Finding, Risk, Severity
<1> QED BY <1>1, <1>2, <1>3, <1>4 DEF ReviewerNames

(* The reviewers that run are the selected ones. *)
SelectedRun ==
  /\ DOMAIN outcome = ReviewerNames
  /\ \A r \in ReviewerNames : outcome[r] # "unused" <=> r \in Selected(q)

LEMMA SelectedAreReviewers == \A d : Selected(d) \subseteq ReviewerNames
BY DEF Selected, ReviewerNames

LEMMA ResultsAre ==
  ASSUME SelectedRun
  PROVE  /\ DOMAIN Results = Selected(q)
         /\ \A r \in Selected(q) :
              /\ Results[r].status = outcome[r]
              /\ Results[r].findings = IF outcome[r] = "completed" THEN AnswerOf(q, r).findings ELSE {}
              /\ Results[r].risks = IF outcome[r] = "completed" THEN AnswerOf(q, r).risks ELSE {}
         /\ AllRated(Results)
<1>1. DOMAIN Results = Selected(q)
  BY SelectedAreReviewers DEF Results, SelectedRun
<1>2. ASSUME NEW r \in Selected(q)
      PROVE  /\ Results[r].status = outcome[r]
             /\ Results[r].findings = AnswerFrom(r).findings
             /\ Results[r].risks = AnswerFrom(r).risks
  BY <1>1 DEF Results
<1>3. NoAnswer.findings = {} /\ NoAnswer.risks = {} BY DEF NoAnswer
<1>4. AllRated(Results)
  BY <1>1, <1>2, <1>3, AnswersAreRated, SelectedAreReviewers DEF AllRated, Rated, AnswerFrom
<1> QED BY <1>1, <1>2, <1>3, <1>4 DEF AnswerFrom

----------------------------------------------------------------------------
(* The passes of a run. *)

Stages == {"gate", "reviewing", "writing", "routing", "completed", "failed"}

ParallelTypeOK ==
  /\ stage \in Stages
  /\ round \in 0 .. MaxRevisions
  /\ items \in ItemCounts
  /\ review.mode \in {"none", "quick", "skip", "full"}

(* Whom the node has asked, from the start of the reviewers to the answer. *)
RunInv == stage \in {"reviewing", "writing"} => SelectedRun

(* What a full review returns is made of how its reviewers ended. *)
MadeOfResults ==
  /\ SelectedRun
  /\ review.summary = Aggregate(Results)
  /\ \A i \in DOMAIN Files : filePass[i] = round + 1
  /\ \A n \in review.itemFlags : \E has \in BOOLEAN : n = Flags(review.summary.findings, has)
  /\ review.risky = HighRatio(review.summary.findings)

ParallelInv ==
  /\ ParallelTypeOK /\ RunInv
  /\ Published => MadeOfResults
  /\ stage = "completed" => ~Loops

LEMMA ParallelInitInv == ParallelInit => ParallelInv
BY ParallelReviewAssumption
   DEF ParallelInit, ParallelInv, ParallelTypeOK, Stages, RunInv, Published, NoReview, ItemCounts

LEMMA ParallelKeeps == ParallelInv /\ [ParallelNext]_parallelVars => ParallelInv'
<1> SUFFICES ASSUME ParallelInv, [ParallelNext]_parallelVars PROVE ParallelInv'
  OBVIOUS
<1>1. MaxRevisions \in Nat BY ParallelReviewAssumption
<1>2. CASE QuickReview \/ SkipReview
  <2>1. /\ stage' = "routing" /\ review'.mode \in {"quick", "skip"}
        /\ UNCHANGED <<round, items>>
    BY <1>2 DEF QuickReview, SkipReview, Review
  <2> QED BY <2>1 DEF ParallelInv, ParallelTypeOK, Stages, RunInv, Published
<1>3. CASE StartReviewers
  <2>1. /\ stage' = "reviewing" /\ UNCHANGED <<q, round, items, review>>
        /\ outcome' = [r \in ReviewerNames |-> IF r \in Selected(q) THEN "pending" ELSE "unused"]
    BY <1>3 DEF StartReviewers
  <2>2. SelectedRun' BY <2>1 DEF SelectedRun
  <2> QED BY <2>1, <2>2 DEF ParallelInv, ParallelTypeOK, Stages, RunInv, Published
<1>4. ASSUME NEW r \in ReviewerNames, NEW how \in {"completed", "error", "timeout"},
             EndReviewer(r, how)
      PROVE  ParallelInv'
  <2>1. /\ stage = "reviewing" /\ outcome[r] = "pending"
        /\ outcome' = [outcome EXCEPT ![r] = how]
        /\ UNCHANGED <<q, stage, round, items, review>>
    BY <1>4 DEF EndReviewer
  <2>2. SelectedRun' BY <2>1 DEF SelectedRun, ParallelInv, RunInv
  <2> QED BY <2>1, <2>2 DEF ParallelInv, ParallelTypeOK, Stages, RunInv, Published
<1>5. CASE GatherReturns
  <2>1. stage = "reviewing" /\ stage' = "writing" /\ UNCHANGED <<q, outcome, round, items, review>>
    BY <1>5 DEF GatherReturns
  <2> QED BY <2>1 DEF ParallelInv, ParallelTypeOK, Stages, RunInv, SelectedRun, Published
<1>6. CASE WriteFile
  <2>1. stage = "writing" /\ UNCHANGED <<q, stage, outcome, round, items, review>>
    BY <1>6 DEF WriteFile
  <2> QED BY <2>1 DEF ParallelInv, ParallelTypeOK, Stages, RunInv, SelectedRun, Published
<1>7. CASE PublishFullReview
  <2> DEFINE all == Aggregate(Results)
             flags == When(items.with > 0, {Flags(all.findings, TRUE)})
                        \cup When(items.without > 0, {Flags(all.findings, FALSE)})
  <2>1. /\ stage = "writing" /\ Written = DOMAIN Files
        /\ review' = Review("full", all, flags, all.risks # {}, HighRatio(all.findings))
        /\ stage' = "routing" /\ UNCHANGED <<q, round, items, outcome, filePass>>
    BY <1>7 DEF PublishFullReview
  <2>2. \A n \in flags : \E has \in BOOLEAN : n = Flags(all.findings, has) BY DEF When
  <2>3. all' = all BY <2>1 DEF Results, AnswerFrom
  <2>4. HighRatio(all.findings)' = HighRatio(all.findings) BY <2>1, <2>3 DEF HighRatio, RiskyItems
  <2> HIDE DEF all, flags
  <2>5. /\ review'.mode = "full" /\ review'.summary = all /\ review'.itemFlags = flags
        /\ review'.risky = HighRatio(all.findings)
    BY <2>1 DEF Review
  <2>6. SelectedRun' BY <2>1 DEF SelectedRun, ParallelInv, RunInv
  <2>7. \A i \in DOMAIN Files : filePass'[i] = round' + 1 BY <2>1 DEF Written
  <2>8. HighRatio(review.summary.findings)' = HighRatio(all.findings)
    BY <2>1, <2>5 DEF HighRatio, RiskyItems
  <2>9. MadeOfResults'
    BY <2>2, <2>3, <2>5, <2>6, <2>7, <2>8 DEF MadeOfResults, all
  <2> QED BY <2>1, <2>5, <2>9 DEF ParallelInv, ParallelTypeOK, Stages, RunInv
<1>8. CASE NodeRaises
  <2>1. stage' = "failed" /\ UNCHANGED <<round, items, review>> BY <1>8 DEF NodeRaises
  <2> QED BY <2>1 DEF ParallelInv, ParallelTypeOK, Stages, RunInv, Published
<1>9. CASE Clarify
  <2>1. /\ stage' = "gate" /\ round < MaxRevisions /\ round' = round + 1 /\ items' \in ItemCounts
        /\ review' = NoReview
    BY <1>9 DEF Clarify, Loops
  <2>2. round' \in 0 .. MaxRevisions BY <1>1, <2>1 DEF ParallelInv, ParallelTypeOK
  <2> QED BY <2>1, <2>2 DEF ParallelInv, ParallelTypeOK, Stages, RunInv, Published, NoReview
<1>10. ASSUME Finish PROVE ParallelInv'
  <2>1. /\ stage = "routing" /\ stage' = "completed" /\ ~Loops
        /\ UNCHANGED <<q, round, items, outcome, review, filePass>>
    BY <1>10 DEF Finish
  <2>2. MadeOfResults => MadeOfResults'
    BY <2>1 DEF MadeOfResults, SelectedRun, Results, AnswerFrom, HighRatio, RiskyItems
  <2>3. ~Loops' BY <2>1 DEF Loops
  <2> QED BY <2>1, <2>2, <2>3 DEF ParallelInv, ParallelTypeOK, Stages, RunInv, Published
<1>11. CASE UNCHANGED parallelVars
  <2>1. UNCHANGED <<q, stage, round, items, outcome, review, filePass>> BY <1>11 DEF parallelVars
  <2>2. MadeOfResults => MadeOfResults'
    BY <2>1 DEF MadeOfResults, SelectedRun, Results, AnswerFrom, HighRatio, RiskyItems
  <2>3. Loops' = Loops BY <2>1 DEF Loops
  <2> QED BY <2>1, <2>2, <2>3
          DEF ParallelInv, ParallelTypeOK, RunInv, SelectedRun, Published
<1> QED BY <1>2, <1>3, <1>4, <1>5, <1>6, <1>7, <1>8, <1>9, <1>10, <1>11 DEF ParallelNext, TimeOut

LEMMA ParallelInvariant == ParallelSpec => []ParallelInv
BY ParallelInitInv, ParallelKeeps, PTL DEF ParallelSpec

(* A full review shows every reviewer that did not answer: it is partial     *)
(* exactly then, and asks for a person exactly when it is partial and an     *)
(* answer that did arrive is high; its files are all those of its own pass.  *)
THEOREM FailuresAreShown == ParallelSpec => []FailuresShow
<1>1. ParallelInv => FailuresShow
  <2> SUFFICES ASSUME MadeOfResults PROVE FailuresShow
    BY DEF ParallelInv, FailuresShow
  <2> DEFINE answered == {r \in Selected(q) : outcome[r] = "completed"}
             high == \E r \in answered : HasHigh(AnswerOf(q, r).findings \cup AnswerOf(q, r).risks)
  <2>1. SelectedRun /\ review.summary = Aggregate(Results) BY DEF MadeOfResults
  <2>2. /\ DOMAIN Results = Selected(q) /\ AllRated(Results)
        /\ \A r \in Selected(q) :
             /\ Results[r].status = outcome[r]
             /\ Results[r].findings = IF outcome[r] = "completed" THEN AnswerOf(q, r).findings ELSE {}
             /\ Results[r].risks = IF outcome[r] = "completed" THEN AnswerOf(q, r).risks ELSE {}
    BY <2>1, ResultsAre
  <2>3. SomeHigh(Results) <=> high BY <2>2 DEF HasHigh, SomeHigh
  <2>4. /\ {r \in DOMAIN Results : Results[r].status = "completed"} = answered
        /\ FailedOf(Results) = Selected(q) \ answered
    BY <2>2 DEF FailedOf
  <2>5. (FailedOf(Results) # {}) <=> answered # Selected(q) BY <2>4
  <2>6. /\ review.summary.completed = answered
        /\ review.summary.failed = Selected(q) \ answered
        /\ review.summary.partial <=> (FailedOf(Results) # {})
        /\ review.summary.manual <=> (FailedOf(Results) # {} /\ SomeHigh(Results))
        /\ review.summary.overall = "high" <=> SomeHigh(Results)
    BY <2>1, <2>2, <2>4, AggregateSays
  <2>7. review.summary.manual <=> (review.summary.partial /\ high) BY <2>3, <2>6
  <2>8. \A i \in DOMAIN Files : filePass[i] = round + 1 BY DEF MadeOfResults
  <2> QED BY <2>3, <2>5, <2>6, <2>7, <2>8 DEF FailuresShow
<1> QED BY <1>1, ParallelInvariant, PTL

(* A requirement without acceptance criteria ends only with its last         *)
(* revision, if both reviewers that look for them answered and anything was  *)
(* parsed: the findings of the two put two flags on every item.              *)
THEOREM UntestableNeverSlipped == ParallelSpec => []UntestableNeverSlips
<1>1. ParallelInv => UntestableNeverSlips
  <2> SUFFICES ASSUME ParallelInv, stage = "completed", review.mode = "full", q.acc = 0,
                      items.with + items.without > 0,
                      {"product", "qa"} \subseteq review.summary.completed
               PROVE  round = MaxRevisions
    BY DEF UntestableNeverSlips
  <2> DEFINE all == Aggregate(Results)
  <2>1. MadeOfResults /\ ~Loops BY DEF ParallelInv, Published
  <2>2. SelectedRun /\ review.summary = all BY <2>1 DEF MadeOfResults
  <2>3. AllRated(Results) BY <2>2, ResultsAre
  <2>4. ASSUME NEW r \in {"product", "qa"}
        PROVE  r \in DOMAIN Results /\ Results[r].findings = AnswerOf(q, r).findings
    <3>1. r \in DOMAIN Results /\ Results[r].status = "completed" BY <2>2, <2>3, AggregateSays
    <3> QED BY <2>2, <3>1, ResultsAre
  <2>5. Finding("acceptance", "criteria", "high") \in AnswerOf(q, "product").findings
    BY DEF AnswerOf, ProductAnswer, When
  <2>6. Finding("testability", "oracle", "high") \in AnswerOf(q, "qa").findings
    BY DEF AnswerOf, QaAnswer, When
  <2>7. ScopeGap(all.findings)
    <3>1. \E e \in AggregateFindings(Results) : e.cat = "acceptance" /\ e.sev = "high"
      BY <2>3, <2>4, <2>5, FindingsMerged DEF Finding
    <3> QED BY <2>3, <3>1, AggregateSays DEF ScopeGap
  <2>8. TestabilityGap(all.findings)
    <3>1. \E e \in AggregateFindings(Results) : e.cat = "testability" /\ e.sev = "high"
      BY <2>3, <2>4, <2>6, FindingsMerged DEF Finding
    <3> QED BY <2>3, <3>1, AggregateSays DEF TestabilityGap
  <2> HIDE DEF all
  <2>9. RiskyItems(all.findings) = items.with + items.without
    BY <2>7, <2>8, FlagsOfTwoGaps DEF RiskyItems
  <2>10. items.with + items.without \in Nat
    BY ParallelReviewAssumption DEF ParallelInv, ParallelTypeOK, ItemCounts
  <2>11. HighRatio(all.findings) BY <2>9, <2>10 DEF HighRatio
  <2>12. review.risky BY <2>1, <2>2, <2>11 DEF MadeOfResults
  <2>13. ~(round < MaxRevisions) BY <2>1, <2>12 DEF Loops
  <2> QED BY <2>13, ParallelReviewAssumption DEF ParallelInv, ParallelTypeOK
<1> QED BY <1>1, ParallelInvariant, PTL

(* The result page lists a high finding exactly when a reviewer reported     *)
(* one: of a review without findings an item has at most one flag.           *)
THEOREM HighsAreReal == ParallelSpec => []HighIsReal
<1>1. ParallelInv => HighIsReal
  <2> SUFFICES ASSUME MadeOfResults
               PROVE  HasHigh(ListedFindings) <=> HasHigh(review.summary.findings)
    BY DEF ParallelInv, HighIsReal
  <2>1. review.summary.findings = {} => \A n \in review.itemFlags : ~RiskyItem(n)
    BY FlagsOfNoFinding DEF MadeOfResults
  <2> QED BY <2>1, DerivedAreReal DEF ListedFindings
<1> QED BY <1>1, ParallelInvariant, PTL

-----------------------------------------------------------------------------
(* Rows that are inserted or replaced. *)
LEMMA Insertions ==
  ASSUME NEW new, NEW table
  PROVE  /\ DOMAIN Upon(new, table) = DOMAIN new \cup DOMAIN table
         /\ \A v \in DOMAIN new : Upon(new, table)[v] = new[v]
         /\ \A v \in DOMAIN table \ DOMAIN new : Upon(new, table)[v] = table[v]
BY DEF Upon

LEMMA OneInserted ==
  ASSUME NEW id, NEW r, NEW table
  PROVE  /\ DOMAIN Put(id, r, table) = DOMAIN table \cup {id}
         /\ Put(id, r, table)[id] = r
         /\ \A v \in DOMAIN table \ {id} : Put(id, r, table)[v] = table[v]
BY DEF Put, Upon

----------------------------------------------------------------------------
(* Rows of artifact_versions, and the calls that make them. *)

VersionRow(r, n) ==
  /\ DOMAIN r = {"key", "number", "parent", "path", "sum"}
  /\ r.key \in Keys /\ r.number \in 0..n

(* A row is of its parent's artifact, and numbered after it. *)
ChildFits(r, table) ==
  r.parent # 0 => /\ r.parent \in DOMAIN table
                  /\ table[r.parent].key = r.key
                  /\ table[r.parent].number < r.number

(* A copy of the workspace holds rows that are there and the row of its own *)
(* call, and points at one of these.                                        *)
CopyFits(w, id, new, table) ==
  /\ DOMAIN w = {"current", "roadmap", "rows"}
  /\ \A v \in DOMAIN w.rows :
       IF v = id /\ id # 0 THEN w.rows[v] = new ELSE v \in DOMAIN table /\ w.rows[v] = table[v]
  /\ DOMAIN w.current = Keys
  /\ \A k \in Keys : w.current[k] # 0 =>
       \/ w.current[k] = id /\ id \in DOMAIN w.rows /\ new.key = k
       \/ w.current[k] \in DOMAIN table /\ table[w.current[k]].key = k

Unissued == {"patch", "write", "derive", "roadmap", "review", "review_list"}
Issued == {"insert", "merge", "save", "derive_insert", "review_insert", "review_merge",
           "review_save", "link"}
Copying == {"save", "derive_insert", "blind_save", "review_save"}
JobFields == {"at", "src", "id", "new", "copy", "doc", "run"}

JobFits(j, table, n) ==
  /\ DOMAIN j = JobFields
  /\ j.at \in Unissued \cup Issued \cup {"blind_save"}
  /\ j.src \in DOMAIN table
  /\ j.at \in Unissued => j.id = 0
  /\ j.at \in Issued => j.id # 0
  /\ j.id # 0 => /\ j.id \in 1..n
                 /\ VersionRow(j.new, n) /\ ChildFits(j.new, table)
                 /\ j.id \in DOMAIN table => table[j.id] = j.new
  /\ j.at \in Copying => CopyFits(j.copy, j.id, j.new, table)
  /\ j.at = "review_save" => j.id \in DOMAIN j.copy.rows
  /\ j.at = "link" => j.id \in DOMAIN table

Under(j) == j # NoCall /\ j.at # "over"

TableFits(table, n) ==
  /\ DOMAIN table \subseteq 1..n
  /\ \A v \in DOMAIN table : VersionRow(table[v], n) /\ ChildFits(table[v], table)

WorkspaceFits(w, table) ==
  w # Missing =>
    /\ DOMAIN w = {"current", "roadmap"}
    /\ DOMAIN w.current = Keys
    /\ \A k \in Keys : w.current[k] # 0 =>
         w.current[k] \in DOMAIN table /\ table[w.current[k]].key = k

VersionsInv ==
  /\ issued \in Nat
  /\ TableFits(versions, issued)
  /\ WorkspaceFits(workspace, versions)
  /\ \A l \in links : l[1] \in DOMAIN versions /\ l[2] \in DOMAIN versions
  /\ DOMAIN job = Callers
  /\ \A c \in Callers : Under(job[c]) => JobFits(job[c], versions, issued)
  /\ \A c, d \in Callers : c # d /\ Under(job[c]) /\ Under(job[d]) /\ job[c].id # 0
                             => job[c].id # job[d].id

(* Rows are only added. *)
Grows(old, new) == DOMAIN old \subseteq DOMAIN new /\ \A v \in DOMAIN old : new[v] = old[v]

LEMMA ChildrenStay ==
  ASSUME NEW r, NEW old, NEW new, Grows(old, new), ChildFits(r, old)
  PROVE  ChildFits(r, new)
BY DEF Grows, ChildFits

LEMMA RowStays ==
  ASSUME NEW r, NEW n \in Nat, NEW m \in Nat, n <= m, VersionRow(r, n)
  PROVE  VersionRow(r, m)
BY DEF VersionRow

LEMMA WorkspaceStays ==
  ASSUME NEW w, NEW old, NEW new, Grows(old, new), WorkspaceFits(w, old)
  PROVE  WorkspaceFits(w, new)
BY DEF Grows, WorkspaceFits

LEMMA JobStays ==
  ASSUME NEW j, NEW old, NEW new, NEW n \in Nat, NEW m \in Nat, n <= m,
         Grows(old, new), JobFits(j, old, n), j.id \in DOMAIN new => j.id \in DOMAIN old \/ j.id = 0
  PROVE  JobFits(j, new, m)
<1>1. ASSUME j.at \in Copying PROVE CopyFits(j.copy, j.id, j.new, new)
  BY <1>1 DEF CopyFits, JobFits, Grows
<1>2. j.id # 0 => j.id \in 1..m BY DEF JobFits
<1>3. j.id # 0 => ChildFits(j.new, new) /\ VersionRow(j.new, m) BY ChildrenStay, RowStays DEF JobFits
<1> QED BY <1>1, <1>2, <1>3 DEF JobFits, Grows

LEMMA TableGrows ==
  ASSUME NEW old, NEW new, NEW n \in Nat, NEW m \in Nat, n <= m, Grows(old, new),
         TableFits(old, n),
         \A v \in DOMAIN new \ DOMAIN old : v \in 1..m /\ VersionRow(new[v], m) /\ ChildFits(new[v], old)
  PROVE  TableFits(new, m)
<1>1. \A v \in DOMAIN new : v \in 1..m
  BY DEF TableFits
<1>2. \A v \in DOMAIN new : VersionRow(new[v], m) /\ ChildFits(new[v], new)
  BY ChildrenStay, RowStays DEF TableFits, Grows
<1> QED BY <1>1, <1>2 DEF TableFits

(* A step of one call: rows are added under its own id only, and it may be *)
(* given the next id.                                                      *)
LEMMA CallSteps ==
  ASSUME VersionsInv, NEW c \in Callers, NEW j, job' = [job EXCEPT ![c] = j],
         Grows(versions, versions'),
         \A v \in DOMAIN versions' \ DOMAIN versions :
           Under(job[c]) /\ job[c].id # 0 /\ v = job[c].id /\ versions'[v] = job[c].new,
         issued' = issued \/ issued' = issued + 1,
         WorkspaceFits(workspace', versions'),
         \A l \in links' : l[1] \in DOMAIN versions' /\ l[2] \in DOMAIN versions',
         Under(j) => /\ JobFits(j, versions', issued')
                     /\ \/ j.id = 0
                        \/ Under(job[c]) /\ j.id = job[c].id
                        \/ issued' = issued + 1 /\ j.id = issued'
  PROVE  VersionsInv'
<1>1. issued \in Nat /\ issued' \in Nat /\ issued <= issued' BY DEF VersionsInv
<1>2. TableFits(versions', issued')
  <2>1. ASSUME NEW v \in DOMAIN versions' \ DOMAIN versions
        PROVE  /\ v \in 1..issued' /\ VersionRow(versions'[v], issued') /\ ChildFits(versions'[v], versions)
    <3>1. job[c].id \in 1..issued /\ VersionRow(job[c].new, issued') /\ ChildFits(job[c].new, versions)
      BY <1>1, RowStays DEF VersionsInv, JobFits
    <3> QED BY <1>1, <3>1
  <2> QED BY <1>1, <2>1, TableGrows DEF VersionsInv
<1>3. DOMAIN job' = Callers /\ job'[c] = j /\ \A d \in Callers \ {c} : job'[d] = job[d]
  BY DEF VersionsInv
<1>4. ASSUME NEW d \in Callers \ {c}, Under(job[d]) PROVE JobFits(job[d], versions', issued')
  <2>1. JobFits(job[d], versions, issued) BY <1>4 DEF VersionsInv
  <2>2. job[d].id \in DOMAIN versions' => job[d].id \in DOMAIN versions \/ job[d].id = 0
    BY <1>4 DEF VersionsInv
  <2> QED BY <1>1, <2>1, <2>2, JobStays
<1>5. \A d \in Callers : Under(job'[d]) => JobFits(job'[d], versions', issued')
  BY <1>3, <1>4
<1>6. ASSUME NEW d \in Callers \ {c}, Under(job[d]), Under(j)
      PROVE  j.id # job[d].id \/ j.id = 0
  <2>1. job[d].id # 0 => job[d].id \in 1..issued BY <1>6 DEF VersionsInv, JobFits
  <2>2. j.id = issued + 1 => j.id # job[d].id BY <1>1, <2>1
  <2>3. Under(job[c]) /\ j.id = job[c].id => j.id # job[d].id \/ j.id = 0 BY <1>6 DEF VersionsInv
  <2> QED BY <1>6, <2>2, <2>3
<1>7. \A d, e \in Callers : d # e /\ Under(job'[d]) /\ Under(job'[e]) /\ job'[d].id # 0
                              => job'[d].id # job'[e].id
  BY <1>3, <1>6 DEF VersionsInv
<1> QED BY <1>1, <1>2, <1>3, <1>5, <1>7 DEF VersionsInv, Under

(* A step that neither inserts, saves nor issues. *)
LEMMA QuietSteps ==
  ASSUME VersionsInv, NEW c \in Callers, Under(job[c]), UNCHANGED <<rows, issued>>,
         NEW j, job' = [job EXCEPT ![c] = j],
         Under(j) => JobFits(j, versions, issued) /\ (j.id = 0 \/ j.id = job[c].id)
  PROVE  VersionsInv'
<1>1. UNCHANGED versions /\ UNCHANGED workspace /\ UNCHANGED links BY DEF rows
<1>2. Grows(versions, versions') BY <1>1 DEF Grows
<1>3. WorkspaceFits(workspace', versions') BY <1>1 DEF VersionsInv
<1>4. \A l \in links' : l[1] \in DOMAIN versions' /\ l[2] \in DOMAIN versions'
  BY <1>1 DEF VersionsInv
<1>5. Under(j) => JobFits(j, versions', issued') BY <1>1
<1> QED BY <1>1, <1>2, <1>3, <1>4, <1>5, CallSteps

(* The call is over, or has given up. *)
LEMMA OverAreNot == /\ \A result : ~Under([at |-> "over", result |-> result])
                    /\ ~Under(NoCall)
BY DEF Under

LEMMA SomeAt ==
  ASSUME VersionsInv, NEW c \in Callers, NEW step \in Unissued \cup Issued \cup {"blind_save"},
         At(c, step)
  PROVE  /\ Under(job[c]) /\ job[c].at = step /\ JobFits(job[c], versions, issued)
         /\ Source(c) = versions[job[c].src] /\ VersionRow(Source(c), issued)
<1>1. Under(job[c]) /\ job[c].at = step BY DEF At, Under, NoCall, Unissued, Issued
<1>2. JobFits(job[c], versions, issued) BY <1>1 DEF VersionsInv
<1> QED BY <1>1, <1>2 DEF JobFits, Source, VersionsInv, TableFits

(* Transactions. *)
LEMMA RowInserted ==
  ASSUME VersionsInv, NEW c \in Callers, Under(job[c]), job[c].at \in Issued
  PROVE  LET table == Put(job[c].id, job[c].new, versions)
         IN  /\ Grows(versions, table)
             /\ \A v \in DOMAIN table \ DOMAIN versions :
                  job[c].id # 0 /\ v = job[c].id /\ table[v] = job[c].new
             /\ job[c].id \in DOMAIN table
<1> DEFINE table == Put(job[c].id, job[c].new, versions)
<1>1. JobFits(job[c], versions, issued) BY DEF VersionsInv
<1>2. /\ DOMAIN table = DOMAIN versions \cup {job[c].id} /\ table[job[c].id] = job[c].new
      /\ \A v \in DOMAIN versions \ {job[c].id} : table[v] = versions[v]
  BY DEF Put, Upon
<1> HIDE DEF table
<1>3. Grows(versions, table) BY <1>1, <1>2 DEF Grows, JobFits
<1> QED BY <1>1, <1>2, <1>3 DEF JobFits, table

LEMMA CopySaved ==
  ASSUME NEW w, NEW id, NEW new, NEW table, NEW n \in Nat, DOMAIN table \subseteq 1..n,
         CopyFits(w, id, new, table), id \in DOMAIN table => table[id] = new
  PROVE  /\ Grows(table, Upon(w.rows, table))
         /\ \A v \in DOMAIN Upon(w.rows, table) \ DOMAIN table :
              v = id /\ id # 0 /\ Upon(w.rows, table)[v] = new
         /\ WorkspaceFits([current |-> w.current, roadmap |-> w.roadmap], Upon(w.rows, table))
         /\ DOMAIN w.rows \subseteq DOMAIN Upon(w.rows, table)
<1> DEFINE saved == Upon(w.rows, table)
<1>1. /\ DOMAIN saved = DOMAIN w.rows \cup DOMAIN table
      /\ \A v \in DOMAIN w.rows : saved[v] = w.rows[v]
      /\ \A v \in DOMAIN table \ DOMAIN w.rows : saved[v] = table[v]
  BY Insertions
<1> HIDE DEF saved
<1>2. Grows(table, saved) BY <1>1 DEF Grows, CopyFits
<1>3. \A v \in DOMAIN saved \ DOMAIN table : v = id /\ id # 0 /\ saved[v] = new
  BY <1>1 DEF CopyFits
<1>4. \A k \in Keys : w.current[k] # 0 =>
        w.current[k] \in DOMAIN saved /\ saved[w.current[k]].key = k
  BY <1>1, <1>2 DEF CopyFits, Grows
<1>5. WorkspaceFits([current |-> w.current, roadmap |-> w.roadmap], saved)
  BY <1>4 DEF WorkspaceFits, CopyFits
<1> QED BY <1>1, <1>2, <1>3, <1>5 DEF saved

LEMMA CopyTaken ==
  ASSUME VersionsInv, workspace # Missing, NEW id, NEW new, id \notin DOMAIN versions \/ id = 0
  PROVE  CopyFits(Copy, id, new, versions)
<1>1. /\ Copy.current = workspace.current /\ Copy.rows = versions
      /\ DOMAIN Copy = {"current", "roadmap", "rows"}
  BY DEF Copy
<1> QED BY <1>1 DEF CopyFits, VersionsInv, WorkspaceFits

(* The call's own row joins the copy. *)
LEMMA RowJoins ==
  ASSUME NEW w, NEW j, NEW table, j.id # 0, j.new.key \in Keys,
         CopyFits(w, j.id, j.new, table) \/
           (/\ DOMAIN w = {"current", "roadmap", "rows"}
            /\ \A v \in DOMAIN w.rows : v \in DOMAIN table /\ w.rows[v] = table[v]
            /\ DOMAIN w.current = Keys
            /\ \A k \in Keys : w.current[k] # 0 =>
                 w.current[k] \in DOMAIN table /\ table[w.current[k]].key = k)
  PROVE  /\ CopyFits(With(w, j), j.id, j.new, table)
         /\ j.id \in DOMAIN With(w, j).rows
<1> DEFINE put == Put(j.id, j.new, w.rows)
           current == [w.current EXCEPT ![j.new.key] = j.id]
<1>1. /\ DOMAIN put = DOMAIN w.rows \cup {j.id} /\ put[j.id] = j.new
      /\ \A v \in DOMAIN w.rows \ {j.id} : put[v] = w.rows[v]
  BY DEF Put, Upon
<1>2. DOMAIN w = {"current", "roadmap", "rows"} /\ DOMAIN w.current = Keys BY DEF CopyFits
<1>3. /\ DOMAIN current = Keys /\ current[j.new.key] = j.id
      /\ \A k \in Keys \ {j.new.key} : current[k] = w.current[k]
  BY <1>2
<1>4. /\ With(w, j).rows = put /\ With(w, j).current = current
      /\ DOMAIN With(w, j) = {"current", "roadmap", "rows"}
  BY <1>2 DEF With
<1> HIDE DEF put, current
<1> QED BY <1>1, <1>3, <1>4 DEF CopyFits

----------------------------------------------------------------------------
(* apply_artifact_patch_async. *)

LEMMA PatchEndsKeeps ==
  ASSUME VersionsInv, NEW c \in Callers, NEW key, NEW base, NEW ops,
         PatchRejected(c, key, base, ops) \/ PatchRaised(c)
  PROVE  VersionsInv'
<1>1. PICK result : /\ At(c, "patch") /\ UNCHANGED <<rows, issued>>
                    /\ job' = [job EXCEPT ![c] = [at |-> "over", result |-> result]]
  BY DEF PatchRejected, PatchRaised, Over, Goto
<1>2. Under(job[c]) BY <1>1 DEF At, Under, NoCall
<1> QED BY <1>1, <1>2, OverAreNot, QuietSteps

LEMMA PatchOpenKeeps ==
  ASSUME VersionsInv, NEW c \in Callers, NEW key, NEW base, NEW ops, PatchOpen(c, key, base, ops)
  PROVE  VersionsInv'
<1> DEFINE next == [version |-> disk[Source(c).path].version + 1,
                    blocks |-> ApplyPatch(disk[Source(c).path].blocks, ops)]
           j == [job[c] EXCEPT !.doc = next, !.at = "write"]
<1>1. At(c, "patch") /\ UNCHANGED <<rows, issued>> /\ job' = [job EXCEPT ![c] = j]
  BY DEF PatchOpen, Goto
<1>2. Under(job[c]) /\ job[c].at = "patch" /\ JobFits(job[c], versions, issued)
  BY <1>1, SomeAt DEF Unissued
<1> HIDE DEF next
<1>3. JobFits(j, versions, issued) /\ j.id = job[c].id
  BY <1>2 DEF JobFits, JobFields, Unissued, Issued, Copying
<1> HIDE DEF j
<1> QED BY <1>1, <1>2, <1>3, QuietSteps

(* The row of a new version, with the id it is given. *)
LEMMA IssueKeeps ==
  ASSUME VersionsInv, NEW c \in Callers, Under(job[c]), UNCHANGED rows,
         NEW r, NEW j, NEW step \in {"insert", "derive_insert", "review_insert"},
         JobFits(j, versions, issued), j.id = 0,
         VersionRow(r, issued + 1), ChildFits(r, versions), Issue(c, r, j, step),
         step = "derive_insert" => /\ workspace # Missing
                                   /\ j.copy = Copy
  PROVE  VersionsInv'
<1> DEFINE k == [j EXCEPT !.id = issued + 1, !.new = r, !.at = step]
<1>1. issued' = issued + 1 /\ job' = [job EXCEPT ![c] = k] BY DEF Issue, Goto
<1>2. UNCHANGED versions /\ UNCHANGED workspace /\ UNCHANGED links BY DEF rows
<1>3. Grows(versions, versions') BY <1>2 DEF Grows
<1>4. issued \in Nat /\ DOMAIN versions \subseteq 1..issued BY DEF VersionsInv, TableFits
<1>5. issued' \notin DOMAIN versions /\ issued' # 0 /\ issued' \in 1..issued' BY <1>1, <1>4
<1>6. /\ DOMAIN k = JobFields /\ k.id = issued' /\ k.new = r /\ k.at = step
      /\ k.src = j.src /\ k.copy = j.copy
  BY <1>1 DEF JobFits, JobFields
<1> HIDE DEF k
<1>7. step = "derive_insert" => CopyFits(k.copy, k.id, k.new, versions)
  BY <1>5, <1>6, CopyTaken
<1>8. JobFits(k, versions', issued')
  BY <1>1, <1>2, <1>5, <1>6, <1>7 DEF JobFits, Unissued, Issued, Copying
<1>9. WorkspaceFits(workspace', versions') BY <1>2 DEF VersionsInv
<1>10. \A l \in links' : l[1] \in DOMAIN versions' /\ l[2] \in DOMAIN versions'
  BY <1>2 DEF VersionsInv
<1> QED BY <1>1, <1>2, <1>3, <1>6, <1>8, <1>9, <1>10, CallSteps

LEMMA PatchWriteKeeps ==
  ASSUME VersionsInv, NEW c \in Callers, PatchWrite(c)
  PROVE  VersionsInv'
<1> DEFINE r == [key |-> Source(c).key, number |-> Source(c).number + 1, parent |-> job[c].src,
                 path |-> PatchPath(job[c].doc), sum |-> job[c].doc]
           j == [job[c] EXCEPT !.doc = Missing]
<1>1. At(c, "write") /\ Issue(c, r, j, "insert") /\ UNCHANGED rows
  BY DEF PatchWrite
<1>2. /\ Under(job[c]) /\ job[c].at = "write" /\ JobFits(job[c], versions, issued)
      /\ Source(c) = versions[job[c].src] /\ VersionRow(Source(c), issued)
  BY <1>1, SomeAt DEF Unissued
<1>3. JobFits(j, versions, issued) /\ j.id = 0
  BY <1>2 DEF JobFits, JobFields, Unissued, Issued, Copying
<1>4. VersionRow(r, issued + 1) /\ ChildFits(r, versions)
  <2>1. issued \in Nat BY DEF VersionsInv
  <2> QED BY <1>2, <2>1 DEF VersionRow, ChildFits, JobFits
<1> HIDE DEF r, j
<1> QED BY <1>1, <1>2, <1>3, <1>4, IssueKeeps

(* A row that is inserted by its call, which goes on to step. *)
LEMMA InsertKeeps ==
  ASSUME VersionsInv, NEW c \in Callers, Under(job[c]), job[c].at \in Issued,
         NEW step \in {"merge", "review_merge"},
         InsertRow(c, step), UNCHANGED <<workspace, links, issued>>
  PROVE  VersionsInv'
<1> DEFINE j == [job[c] EXCEPT !.at = step]
<1>1. /\ versions' = Put(job[c].id, job[c].new, versions) /\ job' = [job EXCEPT ![c] = j]
      /\ UNCHANGED workspace /\ UNCHANGED links /\ UNCHANGED issued
  BY DEF InsertRow, Goto
<1>2. /\ Grows(versions, versions')
      /\ \A v \in DOMAIN versions' \ DOMAIN versions :
           job[c].id # 0 /\ v = job[c].id /\ versions'[v] = job[c].new
  BY <1>1, RowInserted
<1>3. JobFits(job[c], versions, issued) BY DEF VersionsInv
<1>4. /\ JobFits(j, versions, issued) /\ j.id = job[c].id /\ j.new = job[c].new
      /\ j.at \notin Copying \cup {"link"}
  BY <1>3 DEF JobFits, JobFields, Unissued, Issued, Copying
<1> HIDE DEF j
<1>5. JobFits(j, versions', issued')
  <2>1. versions'[job[c].id] = job[c].new BY <1>1 DEF Put, Upon
  <2>2. j.src \in DOMAIN versions' BY <1>2, <1>4 DEF JobFits, Grows
  <2>3. j.id # 0 => ChildFits(j.new, versions') BY <1>2, <1>4, ChildrenStay DEF JobFits
  <2>4. j.at # "review_save" BY <1>4 DEF Copying
  <2> QED BY <1>1, <1>4, <2>1, <2>2, <2>3, <2>4 DEF JobFits
<1>6. WorkspaceFits(workspace', versions') BY <1>1, <1>2, WorkspaceStays DEF VersionsInv
<1>7. \A l \in links' : l[1] \in DOMAIN versions' /\ l[2] \in DOMAIN versions'
  BY <1>1, <1>2 DEF VersionsInv, Grows
<1> QED BY <1>1, <1>2, <1>4, <1>5, <1>6, <1>7, CallSteps

LEMMA PatchInsertKeeps ==
  ASSUME VersionsInv, NEW c \in Callers, PatchInsert(c)
  PROVE  VersionsInv'
<1>1. At(c, "insert") /\ UNCHANGED <<workspace, links, issued>> BY DEF PatchInsert
<1>2. Under(job[c]) /\ job[c].at \in Issued BY <1>1, SomeAt DEF Issued
<1>3. CASE InsertRow(c, "merge") BY <1>1, <1>2, <1>3, InsertKeeps
<1>4. CASE Over(c, "raised") /\ UNCHANGED versions
  BY <1>1, <1>2, <1>4, OverAreNot, QuietSteps DEF Over, Goto, rows
<1> QED BY <1>3, <1>4 DEF PatchInsert

(* The call's row joins the copy that it will save. *)
LEMMA MergeKeeps ==
  ASSUME VersionsInv, NEW c \in Callers, Under(job[c]), job[c].at \in Issued,
         UNCHANGED <<rows, issued>>, NEW w, NEW step \in {"save", "review_save"},
         job' = [job EXCEPT ![c] = [job[c] EXCEPT !.at = step, !.copy = With(w, job[c])]],
         CopyFits(w, job[c].id, job[c].new, versions) \/
           (/\ DOMAIN w = {"current", "roadmap", "rows"}
            /\ \A v \in DOMAIN w.rows : v \in DOMAIN versions /\ w.rows[v] = versions[v]
            /\ DOMAIN w.current = Keys
            /\ \A k \in Keys : w.current[k] # 0 =>
                 w.current[k] \in DOMAIN versions /\ versions[w.current[k]].key = k)
  PROVE  VersionsInv'
<1> DEFINE j == [job[c] EXCEPT !.at = step, !.copy = With(w, job[c])]
<1>1. JobFits(job[c], versions, issued) BY DEF VersionsInv
<1>2. job[c].id # 0 /\ job[c].new.key \in Keys BY <1>1 DEF JobFits, VersionRow
<1>3. /\ CopyFits(With(w, job[c]), job[c].id, job[c].new, versions)
      /\ job[c].id \in DOMAIN With(w, job[c]).rows
  BY <1>2, RowJoins
<1>4. /\ DOMAIN j = JobFields /\ j.id = job[c].id /\ j.new = job[c].new /\ j.src = job[c].src
      /\ j.at = step /\ j.copy = With(w, job[c])
  BY <1>1 DEF JobFits, JobFields
<1> HIDE DEF j
<1>5. JobFits(j, versions, issued)
  BY <1>1, <1>2, <1>3, <1>4 DEF JobFits, Unissued, Issued, Copying
<1> QED BY <1>4, <1>5, QuietSteps DEF j

LEMMA PatchMergeKeeps ==
  ASSUME VersionsInv, NEW c \in Callers, PatchMerge(c)
  PROVE  VersionsInv'
<1> DEFINE anew == [current |-> NoPointers, roadmap |-> 0, rows |-> Put(job[c].src, Source(c), <<>>)]
<1>1. /\ At(c, "merge") /\ UNCHANGED <<rows, issued>>
      /\ \/ job' = [job EXCEPT ![c] = [job[c] EXCEPT !.at = "save", !.copy = With(anew, job[c])]]
         \/ /\ workspace # Missing
            /\ job' = [job EXCEPT ![c] = [job[c] EXCEPT !.at = "save", !.copy = With(Copy, job[c])]]
  BY DEF PatchMerge, Goto
<1>2. /\ Under(job[c]) /\ job[c].at \in Issued /\ job[c].src \in DOMAIN versions
      /\ Source(c) = versions[job[c].src]
  BY <1>1, SomeAt DEF Issued, JobFits
<1>3. /\ DOMAIN anew = {"current", "roadmap", "rows"}
      /\ \A v \in DOMAIN anew.rows : v \in DOMAIN versions /\ anew.rows[v] = versions[v]
      /\ DOMAIN anew.current = Keys /\ \A k \in Keys : anew.current[k] = 0
  <2>1. anew.rows = Put(job[c].src, Source(c), <<>>) /\ anew.current = NoPointers OBVIOUS
  <2>2. DOMAIN <<>> = {} OBVIOUS
  <2> QED BY <1>2, <2>1, <2>2 DEF Put, Upon, NoPointers
<1> HIDE DEF anew
<1>4. CASE job' = [job EXCEPT ![c] = [job[c] EXCEPT !.at = "save", !.copy = With(anew, job[c])]]
  BY <1>1, <1>2, <1>3, <1>4, MergeKeeps
<1>5. CASE /\ workspace # Missing
           /\ job' = [job EXCEPT ![c] = [job[c] EXCEPT !.at = "save", !.copy = With(Copy, job[c])]]
  <2>1. CopyFits(Copy, 0, job[c].new, versions) BY <1>5, CopyTaken
  <2>2. /\ DOMAIN Copy = {"current", "roadmap", "rows"} /\ DOMAIN Copy.current = Keys
        /\ \A v \in DOMAIN Copy.rows : v \in DOMAIN versions /\ Copy.rows[v] = versions[v]
        /\ \A k \in Keys : Copy.current[k] # 0 =>
             Copy.current[k] \in DOMAIN versions /\ versions[Copy.current[k]].key = k
    BY <2>1 DEF CopyFits
  <2> QED BY <1>1, <1>2, <1>5, <2>2, MergeKeeps
<1> QED BY <1>1, <1>4, <1>5

(* A copy is saved, and its call goes on with j. *)
LEMMA SaveKeeps ==
  ASSUME VersionsInv, NEW c \in Callers, Under(job[c]), job[c].at \in Copying,
         SaveWorkspace(job[c].copy), UNCHANGED <<links, issued>>,
         NEW j, job' = [job EXCEPT ![c] = j],
         \/ ~Under(j)
         \/ job[c].at = "review_save" /\ j = [job[c] EXCEPT !.at = "link"]
  PROVE  VersionsInv'
<1>1. JobFits(job[c], versions, issued) BY DEF VersionsInv
<1>2. /\ CopyFits(job[c].copy, job[c].id, job[c].new, versions)
      /\ job[c].id \in DOMAIN versions => versions[job[c].id] = job[c].new
      /\ issued \in Nat /\ DOMAIN versions \subseteq 1..issued
  <2>1. 0 \notin DOMAIN versions BY DEF VersionsInv, TableFits
  <2> QED BY <1>1, <2>1 DEF JobFits, VersionsInv, TableFits
<1>3. /\ Grows(versions, versions')
      /\ \A v \in DOMAIN versions' \ DOMAIN versions :
           v = job[c].id /\ job[c].id # 0 /\ versions'[v] = job[c].new
      /\ WorkspaceFits(workspace', versions')
      /\ DOMAIN job[c].copy.rows \subseteq DOMAIN versions'
  BY <1>2, CopySaved DEF SaveWorkspace
<1>4. \A l \in links' : l[1] \in DOMAIN versions' /\ l[2] \in DOMAIN versions'
  BY <1>3 DEF VersionsInv, Grows
<1>5. ASSUME Under(j) PROVE JobFits(j, versions', issued') /\ j.id = job[c].id
  <2>1. j = [job[c] EXCEPT !.at = "link"] /\ job[c].at = "review_save" BY <1>5
  <2>2. job[c].id # 0 /\ job[c].id \in DOMAIN versions' BY <1>1, <1>3, <2>1 DEF JobFits, Issued
  <2>3. /\ DOMAIN j = JobFields /\ j.id = job[c].id /\ j.new = job[c].new /\ j.src = job[c].src
        /\ j.at = "link"
    BY <1>1, <2>1 DEF JobFits, JobFields
  <2>4. ChildFits(j.new, versions') BY <1>1, <1>3, <2>2, <2>3, ChildrenStay DEF JobFits
  <2>5. versions'[j.id] = j.new BY <1>2, <1>3, <2>2, <2>3 DEF Grows
  <2> HIDE <2>1
  <2>6. j.id \in 1..issued' /\ VersionRow(j.new, issued') BY <1>1, <2>2, <2>3 DEF JobFits
  <2>7. j.src \in DOMAIN versions' BY <1>1, <1>3, <2>3 DEF JobFits, Grows
  <2> QED BY <2>2, <2>3, <2>4, <2>5, <2>6, <2>7 DEF JobFits, Unissued, Issued, Copying
<1> QED BY <1>3, <1>4, <1>5, CallSteps

LEMMA PatchSaveKeeps ==
  ASSUME VersionsInv, NEW c \in Callers, PatchSave(c)
  PROVE  VersionsInv'
<1>1. PICK result : /\ At(c, "save") /\ UNCHANGED <<links, issued>>
                    /\ job' = [job EXCEPT ![c] = [at |-> "over", result |-> result]]
                    /\ SaveWorkspace(job[c].copy) \/ UNCHANGED <<workspace, versions>>
  BY DEF PatchSave, Over, Goto
<1>2. Under(job[c]) /\ job[c].at \in Copying BY <1>1, SomeAt DEF Issued, Copying
<1>3. CASE SaveWorkspace(job[c].copy) BY <1>1, <1>2, <1>3, OverAreNot, SaveKeeps
<1>4. CASE UNCHANGED <<workspace, versions>>
  BY <1>1, <1>2, <1>4, OverAreNot, QuietSteps DEF rows
<1> QED BY <1>1, <1>3, <1>4

----------------------------------------------------------------------------
(* Derived versions and roadmaps. *)

(* The highest number that resolves. *)
LEMMA LeastOfNaturals ==
  ASSUME NEW S \in SUBSET Nat, S # {}
  PROVE  \E x \in S : \A y \in S : x <= y
<1> DEFINE R == {ss \in Nat \X Nat : ss[1] < ss[2]}
<1>1. IsWellFoundedOn(R, Nat) BY NatLessThanWellFounded DEF OpToRel
<1>2. PICK x \in S : \A y \in S : ~ (<<y, x>> \in R)
  <2> HIDE DEF R
  <2> QED BY <1>1, WFMin
<1>3. \A y \in S : ~ (y < x)
  <2> TAKE y \in S
  <2>1. x \in Nat /\ y \in Nat OBVIOUS
  <2>2. ~ (<<y, x>> \in R) BY <1>2
  <2> QED BY <2>1, <2>2
<1>4. \A y \in S : x <= y BY <1>3
<1> QED BY <1>4

LEMMA GreatestOfNaturals ==
  ASSUME NEW S \in SUBSET Nat, S # {}, NEW n \in Nat, \A x \in S : x <= n
  PROVE  Max(S) \in S /\ \A y \in S : y <= Max(S)
<1> DEFINE T == {n - x : x \in S}
<1>1. T \in SUBSET Nat
  <2>1. \A x \in S : x \in Nat /\ x <= n OBVIOUS
  <2>2. \A x \in S : n - x \in Nat BY <2>1
  <2> QED BY <2>2
<1>2. T # {} OBVIOUS
<1>3. PICK t \in T : \A u \in T : t <= u
  <2> HIDE DEF T
  <2> QED BY <1>1, <1>2, LeastOfNaturals
<1>4. PICK x \in S : t = n - x OBVIOUS
<1>5. \A y \in S : n - y \in T OBVIOUS
<1>6. \A y \in S : x >= y
  <2> HIDE DEF T
  <2> QED BY <1>3, <1>4, <1>5
<1>7. \E z \in S : \A y \in S : z >= y BY <1>6
<1>8. Max(S) \in S /\ \A y \in S : Max(S) >= y BY <1>7 DEF Max
<1> QED BY <1>8

Numbers(key) == {0} \cup {versions[v].number : v \in {w \in DOMAIN versions : versions[w].key = key}}

LEMMA NumbersAreBounded ==
  ASSUME VersionsInv, NEW key
  PROVE  /\ Max(Numbers(key)) \in 0..issued
         /\ \A v \in DOMAIN versions : versions[v].key = key => versions[v].number <= Max(Numbers(key))
<1>1. issued \in Nat BY DEF VersionsInv
<1>2. \A v \in DOMAIN versions : versions[v].number \in 0..issued
  BY DEF VersionsInv, TableFits, VersionRow
<1>3. \A x \in Numbers(key) : x \in Nat /\ x <= issued BY <1>1, <1>2 DEF Numbers
<1>4. Numbers(key) \in SUBSET Nat /\ Numbers(key) # {} BY <1>3 DEF Numbers
<1>5. Max(Numbers(key)) \in Numbers(key) /\ \A y \in Numbers(key) : y <= Max(Numbers(key))
  <2> DEFINE S == Numbers(key)
  <2>1. S \in SUBSET Nat /\ S # {} /\ \A x \in S : x <= issued BY <1>3, <1>4
  <2> HIDE DEF S
  <2>2. Max(S) \in S /\ \A y \in S : y <= Max(S) BY <1>1, <2>1, GreatestOfNaturals
  <2> QED BY <2>2 DEF S
<1>6. \A v \in DOMAIN versions : versions[v].key = key => versions[v].number \in Numbers(key)
  BY DEF Numbers
<1> QED BY <1>1, <1>3, <1>5, <1>6

LEMMA DeriveLoadKeeps ==
  ASSUME VersionsInv, NEW c \in Callers, DeriveLoad(c)
  PROVE  VersionsInv'
<1> DEFINE n == Max(Numbers(Source(c).key))
           r == [Source(c) EXCEPT !.number = n + 1, !.parent = job[c].src]
           j == [job[c] EXCEPT !.copy = Copy]
<1>1. /\ At(c, "derive") /\ UNCHANGED rows
      /\ \/ workspace # Missing /\ Issue(c, r, j, "derive_insert")
         \/ UNCHANGED issued /\ Leave(c)
  BY DEF DeriveLoad, Numbers
<1>2. /\ Under(job[c]) /\ job[c].at = "derive" /\ JobFits(job[c], versions, issued)
      /\ Source(c) = versions[job[c].src] /\ VersionRow(Source(c), issued)
  BY <1>1, SomeAt DEF Unissued
<1>3. CASE UNCHANGED issued /\ Leave(c)
  BY <1>1, <1>2, <1>3, OverAreNot, QuietSteps DEF Leave, Goto
<1>4. CASE workspace # Missing /\ Issue(c, r, j, "derive_insert")
  <2>1. JobFits(j, versions, issued) /\ j.id = 0 /\ j.copy = Copy
    BY <1>2 DEF JobFits, JobFields, Unissued, Issued, Copying
  <2>2. n \in 0..issued /\ issued \in Nat /\ Source(c).number <= n
    BY <1>2, NumbersAreBounded DEF JobFits, VersionsInv
  <2> HIDE DEF n
  <2>3. /\ DOMAIN r = {"key", "number", "parent", "path", "sum"}
        /\ r.key = Source(c).key /\ r.number = n + 1 /\ r.parent = job[c].src
    BY <1>2 DEF VersionRow
  <2> HIDE DEF r, j
  <2>4. VersionRow(r, issued + 1) BY <1>2, <2>2, <2>3 DEF VersionRow
  <2>5. ChildFits(r, versions) BY <1>2, <2>2, <2>3 DEF ChildFits, JobFits, VersionRow
  <2> QED BY <1>1, <1>2, <1>4, <2>1, <2>4, <2>5, IssueKeeps
<1> QED BY <1>1, <1>3, <1>4

LEMMA DeriveInsertKeeps ==
  ASSUME VersionsInv, NEW c \in Callers, DeriveInsert(c)
  PROVE  VersionsInv'
<1> DEFINE w == With(job[c].copy, job[c])
           j == [job[c] EXCEPT !.copy = w, !.at = "blind_save"]
<1>1. /\ At(c, "derive_insert") /\ UNCHANGED workspace /\ UNCHANGED links /\ UNCHANGED issued
      /\ versions' = Put(job[c].id, job[c].new, versions) \/ versions' = versions
      /\ job' = [job EXCEPT ![c] = j]
  BY DEF DeriveInsert, Goto
<1>2. /\ Under(job[c]) /\ job[c].at = "derive_insert" /\ JobFits(job[c], versions, issued)
  BY <1>1, SomeAt DEF Issued
<1>3. /\ job[c].id # 0 /\ job[c].at \in Issued /\ VersionRow(job[c].new, issued)
      /\ CopyFits(job[c].copy, job[c].id, job[c].new, versions)
      /\ ChildFits(job[c].new, versions)
  BY <1>2 DEF JobFits, Issued, Copying
<1>4. CopyFits(w, job[c].id, job[c].new, versions)
  BY <1>3, RowJoins DEF VersionRow
<1> HIDE DEF w
<1>5. /\ DOMAIN j = JobFields /\ j.id = job[c].id /\ j.new = job[c].new /\ j.src = job[c].src
      /\ j.at = "blind_save" /\ j.copy = w
  BY <1>2 DEF JobFits, JobFields
<1> HIDE DEF j
<1>6. /\ Grows(versions, versions')
      /\ \A v \in DOMAIN versions' \ DOMAIN versions :
           job[c].id # 0 /\ v = job[c].id /\ versions'[v] = job[c].new
  <2>1. CASE versions' = versions BY <2>1 DEF Grows
  <2>2. CASE versions' = Put(job[c].id, job[c].new, versions) BY <1>2, <1>3, <2>2, RowInserted
  <2> QED BY <1>1, <2>1, <2>2
<1>7. JobFits(j, versions', issued')
  <2>1. CopyFits(j.copy, j.id, j.new, versions')
    BY <1>4, <1>5, <1>6 DEF CopyFits, Grows
  <2>2. ChildFits(j.new, versions') BY <1>3, <1>5, <1>6, ChildrenStay
  <2>3. j.src \in DOMAIN versions' BY <1>2, <1>5, <1>6 DEF JobFits, Grows
  <2>4. j.id \in DOMAIN versions' => versions'[j.id] = j.new
    BY <1>2, <1>3, <1>5, <1>6 DEF JobFits, Grows
  <2>5. j.id \in 1..issued' BY <1>1, <1>2, <1>3, <1>5 DEF JobFits
  <2> QED BY <1>1, <1>3, <1>5, <2>1, <2>2, <2>3, <2>4, <2>5 DEF JobFits, Unissued, Issued
<1>8. WorkspaceFits(workspace', versions') BY <1>1, <1>6, WorkspaceStays DEF VersionsInv
<1>9. \A l \in links' : l[1] \in DOMAIN versions' /\ l[2] \in DOMAIN versions'
  BY <1>1, <1>6 DEF VersionsInv, Grows
<1> QED BY <1>1, <1>2, <1>5, <1>6, <1>7, <1>8, <1>9, CallSteps

LEMMA RoadmapLoadKeeps ==
  ASSUME VersionsInv, NEW c \in Callers, RoadmapLoad(c)
  PROVE  VersionsInv'
<1> DEFINE w == [Copy EXCEPT !.roadmap = job[c].run]
           j == [job[c] EXCEPT !.copy = w, !.at = "blind_save"]
<1>1. /\ At(c, "roadmap") /\ UNCHANGED <<rows, issued>>
      /\ \/ workspace # Missing /\ job' = [job EXCEPT ![c] = j]
         \/ Leave(c)
  BY DEF RoadmapLoad, Goto
<1>2. /\ Under(job[c]) /\ job[c].at = "roadmap" /\ JobFits(job[c], versions, issued)
  BY <1>1, SomeAt DEF Unissued
<1>3. CASE Leave(c) BY <1>1, <1>2, <1>3, OverAreNot, QuietSteps DEF Leave, Goto
<1>4. CASE workspace # Missing /\ job' = [job EXCEPT ![c] = j]
  <2>1. CopyFits(Copy, 0, job[c].new, versions) BY <1>4, CopyTaken
  <2>2. /\ w.rows = Copy.rows /\ w.current = Copy.current
        /\ DOMAIN w = {"current", "roadmap", "rows"}
    BY DEF Copy
  <2> HIDE DEF w
  <2>3. CopyFits(w, 0, job[c].new, versions) BY <2>1, <2>2 DEF CopyFits
  <2>4. /\ DOMAIN j = JobFields /\ j.id = 0 /\ j.id = job[c].id /\ j.new = job[c].new
        /\ j.src = job[c].src /\ j.at = "blind_save" /\ j.copy = w
    BY <1>2 DEF JobFits, JobFields, Unissued
  <2> HIDE DEF j
  <2>5. JobFits(j, versions, issued)
    BY <1>2, <2>3, <2>4 DEF JobFits, Unissued, Issued
  <2> QED BY <1>1, <1>2, <1>4, <2>4, <2>5, QuietSteps
<1> QED BY <1>1, <1>3, <1>4

LEMMA BlindSaveKeeps ==
  ASSUME VersionsInv, NEW c \in Callers, BlindSave(c)
  PROVE  VersionsInv'
<1>1. /\ At(c, "blind_save") /\ UNCHANGED <<links, issued>>
      /\ job' = [job EXCEPT ![c] = NoCall]
      /\ SaveWorkspace(job[c].copy) \/ UNCHANGED <<workspace, versions>>
  BY DEF BlindSave, Leave, Goto
<1>2. Under(job[c]) /\ job[c].at \in Copying BY <1>1, SomeAt DEF Copying
<1>3. CASE SaveWorkspace(job[c].copy) BY <1>1, <1>2, <1>3, OverAreNot, SaveKeeps
<1>4. CASE UNCHANGED <<workspace, versions>>
  BY <1>1, <1>2, <1>4, OverAreNot, QuietSteps DEF rows
<1> QED BY <1>1, <1>3, <1>4

----------------------------------------------------------------------------
(* review_artifact_version_async. *)

LEMMA ReviewEndsKeeps ==
  ASSUME VersionsInv, NEW c \in Callers, ReviewDone(c) \/ ReviewFailed(c)
  PROVE  VersionsInv'
<1> DEFINE j == [job[c] EXCEPT !.at = "review_list"]
<1>1. /\ At(c, "review") /\ UNCHANGED <<rows, issued>>
      /\ job' = [job EXCEPT ![c] = j] \/ job' = [job EXCEPT ![c] = NoCall]
  BY DEF ReviewDone, ReviewFailed, Goto, Leave
<1>2. /\ Under(job[c]) /\ job[c].at = "review" /\ JobFits(job[c], versions, issued)
  BY <1>1, SomeAt DEF Unissued
<1>3. JobFits(j, versions, issued) /\ j.id = job[c].id
  BY <1>2 DEF JobFits, JobFields, Unissued, Issued, Copying
<1> HIDE DEF j
<1>4. CASE job' = [job EXCEPT ![c] = j] BY <1>1, <1>2, <1>3, <1>4, QuietSteps
<1>5. CASE job' = [job EXCEPT ![c] = NoCall] BY <1>1, <1>2, <1>5, OverAreNot, QuietSteps
<1> QED BY <1>1, <1>4, <1>5

LEMMA ReviewListKeeps ==
  ASSUME VersionsInv, NEW c \in Callers, ReviewList(c)
  PROVE  VersionsInv'
<1>1. /\ At(c, "review_list") /\ UNCHANGED rows
      /\ \/ Issue(c, ResultRow(1, 0, job[c].run), job[c], "review_insert")
         \/ \E v \in Latest :
              Issue(c, ResultRow(versions[v].number + 1, v, job[c].run), job[c], "review_insert")
         \/ Leave(c) /\ UNCHANGED issued
  BY DEF ReviewList
<1>2. /\ Under(job[c]) /\ job[c].at = "review_list" /\ JobFits(job[c], versions, issued)
      /\ job[c].id = 0
  BY <1>1, SomeAt DEF Unissued, JobFits
<1>3. issued \in Nat BY DEF VersionsInv
<1>4. CASE Leave(c) /\ UNCHANGED issued
  BY <1>1, <1>2, <1>4, OverAreNot, QuietSteps DEF Leave, Goto
<1>5. CASE Issue(c, ResultRow(1, 0, job[c].run), job[c], "review_insert")
  <2> DEFINE r == ResultRow(1, 0, job[c].run)
  <2>1. VersionRow(r, issued + 1) /\ ChildFits(r, versions)
    BY <1>3 DEF VersionRow, ChildFits, ResultRow, Keys
  <2> HIDE DEF r
  <2>2. Issue(c, r, job[c], "review_insert") BY <1>5 DEF r
  <2> QED BY <1>1, <1>2, <2>1, <2>2, IssueKeeps
<1>6. ASSUME NEW v \in Latest,
             Issue(c, ResultRow(versions[v].number + 1, v, job[c].run), job[c], "review_insert")
      PROVE  VersionsInv'
  <2> DEFINE r == ResultRow(versions[v].number + 1, v, job[c].run)
  <2>1. v \in DOMAIN versions /\ versions[v].key = Result BY DEF Latest
  <2>2. VersionRow(versions[v], issued) BY <2>1 DEF VersionsInv, TableFits
  <2>3. VersionRow(r, issued + 1) /\ ChildFits(r, versions)
    BY <1>3, <2>1, <2>2 DEF VersionRow, ChildFits, ResultRow, Keys
  <2> HIDE DEF r
  <2>4. Issue(c, r, job[c], "review_insert") BY <1>6 DEF r
  <2> QED BY <1>1, <1>2, <2>3, <2>4, IssueKeeps
<1> QED BY <1>1, <1>4, <1>5, <1>6

LEMMA ReviewInsertKeeps ==
  ASSUME VersionsInv, NEW c \in Callers, ReviewInsert(c)
  PROVE  VersionsInv'
<1>1. At(c, "review_insert") /\ UNCHANGED <<workspace, links, issued>> BY DEF ReviewInsert
<1>2. Under(job[c]) /\ job[c].at \in Issued BY <1>1, SomeAt DEF Issued
<1>3. CASE InsertRow(c, "review_merge") BY <1>1, <1>2, <1>3, InsertKeeps
<1>4. CASE Leave(c) /\ UNCHANGED versions
  BY <1>1, <1>2, <1>4, OverAreNot, QuietSteps DEF Leave, Goto, rows
<1> QED BY <1>3, <1>4 DEF ReviewInsert

LEMMA ReviewMergeKeeps ==
  ASSUME VersionsInv, NEW c \in Callers, ReviewMerge(c)
  PROVE  VersionsInv'
<1> DEFINE anew == [current |-> [NoPointers EXCEPT ![Source(c).key] = job[c].src],
                    roadmap |-> 0, rows |-> Put(job[c].src, Source(c), <<>>)]
<1>1. /\ At(c, "review_merge") /\ UNCHANGED <<rows, issued>>
      /\ \/ job' = [job EXCEPT ![c] = [job[c] EXCEPT !.at = "review_save", !.copy = With(anew, job[c])]]
         \/ /\ workspace # Missing
            /\ job' = [job EXCEPT ![c] = [job[c] EXCEPT !.at = "review_save", !.copy = With(Copy, job[c])]]
         \/ job' = [job EXCEPT ![c] = NoCall]
  BY DEF ReviewMerge, Goto, Leave
<1>2. /\ Under(job[c]) /\ job[c].at \in Issued /\ job[c].src \in DOMAIN versions
      /\ Source(c) = versions[job[c].src] /\ Source(c).key \in Keys
  BY <1>1, SomeAt DEF Issued, JobFits, VersionRow
<1>3. /\ DOMAIN anew = {"current", "roadmap", "rows"}
      /\ \A v \in DOMAIN anew.rows : v \in DOMAIN versions /\ anew.rows[v] = versions[v]
      /\ DOMAIN anew.current = Keys
      /\ \A k \in Keys : anew.current[k] # 0 =>
           anew.current[k] \in DOMAIN versions /\ versions[anew.current[k]].key = k
  <2>1. anew.rows = Put(job[c].src, Source(c), <<>>)
        /\ anew.current = [NoPointers EXCEPT ![Source(c).key] = job[c].src]
    OBVIOUS
  <2>2. DOMAIN <<>> = {} OBVIOUS
  <2>3. \A v \in DOMAIN anew.rows : v \in DOMAIN versions /\ anew.rows[v] = versions[v]
    BY <1>2, <2>1, <2>2 DEF Put, Upon
  <2>4. \A k \in Keys : anew.current[k] = IF k = Source(c).key THEN job[c].src ELSE 0
    BY <2>1 DEF NoPointers
  <2>5. DOMAIN anew.current = Keys BY <2>1 DEF NoPointers
  <2> QED BY <1>2, <2>3, <2>4, <2>5
<1> HIDE DEF anew
<1>4. CASE job' = [job EXCEPT ![c] = [job[c] EXCEPT !.at = "review_save", !.copy = With(anew, job[c])]]
  BY <1>1, <1>2, <1>3, <1>4, MergeKeeps
<1>5. CASE /\ workspace # Missing
           /\ job' = [job EXCEPT ![c] = [job[c] EXCEPT !.at = "review_save", !.copy = With(Copy, job[c])]]
  <2>1. CopyFits(Copy, 0, job[c].new, versions) BY <1>5, CopyTaken
  <2>2. /\ DOMAIN Copy = {"current", "roadmap", "rows"} /\ DOMAIN Copy.current = Keys
        /\ \A v \in DOMAIN Copy.rows : v \in DOMAIN versions /\ Copy.rows[v] = versions[v]
        /\ \A k \in Keys : Copy.current[k] # 0 =>
             Copy.current[k] \in DOMAIN versions /\ versions[Copy.current[k]].key = k
    BY <2>1 DEF CopyFits
  <2> QED BY <1>1, <1>2, <1>5, <2>2, MergeKeeps
<1>6. CASE job' = [job EXCEPT ![c] = NoCall] BY <1>1, <1>2, <1>6, OverAreNot, QuietSteps
<1> QED BY <1>1, <1>4, <1>5, <1>6

LEMMA ReviewSaveKeeps ==
  ASSUME VersionsInv, NEW c \in Callers, ReviewSave(c)
  PROVE  VersionsInv'
<1>1. /\ At(c, "review_save") /\ UNCHANGED <<links, issued>>
      /\ \/ SaveWorkspace(job[c].copy) /\ job' = [job EXCEPT ![c] = [job[c] EXCEPT !.at = "link"]]
         \/ UNCHANGED <<workspace, versions>> /\ job' = [job EXCEPT ![c] = NoCall]
  BY DEF ReviewSave, Leave, Goto
<1>2. Under(job[c]) /\ job[c].at \in Copying /\ job[c].at = "review_save"
  BY <1>1, SomeAt DEF Issued, Copying
<1>3. CASE SaveWorkspace(job[c].copy) /\ job' = [job EXCEPT ![c] = [job[c] EXCEPT !.at = "link"]]
  BY <1>1, <1>2, <1>3, SaveKeeps
<1>4. CASE UNCHANGED <<workspace, versions>> /\ job' = [job EXCEPT ![c] = NoCall]
  BY <1>1, <1>2, <1>4, OverAreNot, QuietSteps DEF rows
<1> QED BY <1>1, <1>3, <1>4

LEMMA ReviewLinkKeeps ==
  ASSUME VersionsInv, NEW c \in Callers, ReviewLink(c)
  PROVE  VersionsInv'
<1>1. /\ At(c, "link") /\ UNCHANGED versions /\ UNCHANGED workspace /\ UNCHANGED issued
      /\ job' = [job EXCEPT ![c] = NoCall]
      /\ links' = links \cup {<<job[c].src, job[c].id>>} \/ links' = links
  BY DEF ReviewLink, Leave, Goto
<1>2. /\ job[c].src \in DOMAIN versions /\ job[c].id \in DOMAIN versions
  BY <1>1, SomeAt DEF Issued, JobFits
<1>3. \A l \in links' : l[1] \in DOMAIN versions' /\ l[2] \in DOMAIN versions'
  BY <1>1, <1>2 DEF VersionsInv
<1>4. Grows(versions, versions') /\ WorkspaceFits(workspace', versions')
  BY <1>1 DEF Grows, VersionsInv
<1> QED BY <1>1, <1>3, <1>4, OverAreNot, CallSteps

LEMMA CallKeeps ==
  ASSUME VersionsInv, NEW c \in Callers, StepOfPatch(c) \/ StepOfCall(c)
  PROVE  VersionsInv'
BY PatchEndsKeeps, PatchOpenKeeps, PatchWriteKeeps, PatchInsertKeeps, PatchMergeKeeps,
   PatchSaveKeeps, DeriveLoadKeeps, DeriveInsertKeeps, RoadmapLoadKeeps, BlindSaveKeeps,
   ReviewEndsKeeps, ReviewListKeeps, ReviewInsertKeeps, ReviewMergeKeeps, ReviewSaveKeeps,
   ReviewLinkKeeps DEF StepOfPatch, StepOfCall

----------------------------------------------------------------------------
(* The calls on the run, which start patches. *)

CallFields == {"where", "at", "todo", "then", "seen", "src", "draft"}

(* It is to read the report again, for a patch of a version or a prompt for one. *)
ToReread(k) == k.at \in {"look", "reread"} \/ (k.at \in {"open", "fill"} /\ k.then = "look")

CallFits(k, table) ==
  /\ DOMAIN k = CallFields
  /\ k.then \in {"end", "look", "generate", "llm", "list"}
  /\ ToReread(k) => k.src \in DOMAIN table /\ k.draft \in {"prompting", "patching"}

CallsInv ==
  /\ DOMAIN call = Callers
  /\ \A c \in Callers : call[c] # NoCall => CallFits(call[c], versions)

RevisionInv == VersionsInv /\ CallsInv

LEMMA VersionsUntouched ==
  ASSUME VersionsInv, UNCHANGED versionState, UNCHANGED job
  PROVE  VersionsInv'
<1>1. UNCHANGED versions /\ UNCHANGED workspace /\ UNCHANGED links /\ UNCHANGED issued
  BY DEF versionState, rows
<1> QED BY <1>1 DEF VersionsInv

LEMMA StartKeeps ==
  ASSUME VersionsInv, NEW c \in Callers, UNCHANGED versionState,
         NEW op \in {"patch", "derive", "roadmap", "review"}, NEW v \in DOMAIN versions, NEW run,
         job' = [job EXCEPT ![c] = Started(op, v, run)]
  PROVE  VersionsInv'
<1> DEFINE j == Started(op, v, run)
<1>1. UNCHANGED versions /\ UNCHANGED workspace /\ UNCHANGED links /\ UNCHANGED issued
  BY DEF versionState, rows
<1>2. JobFits(j, versions, issued) /\ j.id = 0
  BY DEF Started, JobFits, JobFields, Unissued, Issued, Copying
<1> HIDE DEF j
<1>3. Grows(versions, versions') /\ WorkspaceFits(workspace', versions')
  BY <1>1 DEF Grows, VersionsInv
<1>4. \A l \in links' : l[1] \in DOMAIN versions' /\ l[2] \in DOMAIN versions'
  BY <1>1 DEF VersionsInv
<1>5. JobFits(j, versions', issued') BY <1>1, <1>2
<1>6. job' = [job EXCEPT ![c] = j] BY DEF j
<1> QED BY <1>1, <1>2, <1>3, <1>4, <1>5, <1>6, CallSteps

LEMMA LeaveKeeps ==
  ASSUME VersionsInv, NEW c \in Callers, UNCHANGED versionState, job' = [job EXCEPT ![c] = NoCall]
  PROVE  VersionsInv'
<1>1. UNCHANGED versions /\ UNCHANGED workspace /\ UNCHANGED links /\ UNCHANGED issued
  BY DEF versionState, rows
<1>2. Grows(versions, versions') /\ WorkspaceFits(workspace', versions')
  BY <1>1 DEF Grows, VersionsInv
<1>3. \A l \in links' : l[1] \in DOMAIN versions' /\ l[2] \in DOMAIN versions'
  BY <1>1 DEF VersionsInv
<1> QED BY <1>1, <1>2, <1>3, OverAreNot, CallSteps

(* A call moves on. *)
LEMMA CallsMove ==
  ASSUME CallsInv, NEW c \in Callers, NEW k, call' = [call EXCEPT ![c] = k],
         k # NoCall => CallFits(k, versions), UNCHANGED versions
  PROVE  CallsInv'
<1>1. DOMAIN call' = Callers /\ call'[c] = k /\ \A d \in Callers \ {c} : call'[d] = call[d]
  BY DEF CallsInv
<1> QED BY <1>1 DEF CallsInv

LEMMA WritesKeep ==
  ASSUME CallsInv, NEW c \in Callers, UNCHANGED versions, NEW k, DOMAIN k = CallFields,
         NEW todo, NEW then \in {"end", "generate", "llm", "list", "look"}, Writes(c, k, todo, then),
         then = "look" => k.src \in DOMAIN versions /\ k.draft \in {"prompting", "patching"}
  PROVE  CallsInv'
<1> DEFINE k2 == [k EXCEPT !.at = "open", !.todo = todo, !.then = then]
<1>1. call' = [call EXCEPT ![c] = k2] BY DEF Writes
<1>2. CallFits(k2, versions) BY DEF CallFits, CallFields, ToReread
<1> HIDE DEF k2
<1> QED BY <1>1, <1>2, CallsMove

LEMMA EndKeeps ==
  ASSUME CallsInv, NEW c \in Callers, UNCHANGED versions, End(c)
  PROVE  CallsInv'
BY CallsMove DEF End

LEMMA InCall ==
  ASSUME CallsInv, NEW c \in Callers, NEW step, step # "none", In(c, step)
  PROVE  CallFits(call[c], versions) /\ call[c].at = step /\ call[c] # NoCall
BY DEF In, CallsInv, NoCall

LEMMA BeginKeeps ==
  ASSUME RevisionInv, NEW c \in Callers, NEW k, NEW todo, NEW then, NEW harmless,
         Begin(c, k, todo, then, harmless), DOMAIN k = CallFields,
         then \in {"end", "generate", "llm", "list", "look"},
         then = "look" => k.src \in DOMAIN versions /\ k.draft \in {"prompting", "patching"}
  PROVE  RevisionInv'
<1>1. UNCHANGED versionState /\ UNCHANGED job /\ UNCHANGED versions
  BY DEF Begin, versionState, rows
<1>2. VersionsInv' BY <1>1, VersionsUntouched DEF RevisionInv
<1>3. CallsInv' BY <1>1, WritesKeep DEF RevisionInv, Begin
<1> QED BY <1>2, <1>3 DEF RevisionInv

LEMMA BlankFields == /\ DOMAIN Blank = CallFields
                     /\ \A where : DOMAIN [Blank EXCEPT !.where = where] = CallFields
BY DEF Blank, CallFields

LEMMA AnswerRequestKeeps ==
  ASSUME RevisionInv, NEW c \in Callers, NEW where, AnswerRequest(c, where)
  PROVE  RevisionInv'
<1>1. ASSUME NEW g, Answer(c, g, where) PROVE RevisionInv'
  <2> DEFINE k == [Blank EXCEPT !.where = where]
  <2>1. DOMAIN k = CallFields BY DEF Blank, CallFields
  <2>2. Begin(c, k, AnswerTodo(g), "end", where = "server") BY <1>1 DEF Answer
  <2> HIDE DEF k
  <2> QED BY <2>1, <2>2, BeginKeeps
<1>2. ASSUME NEW g, NEW v \in DOMAIN versions, NEW then \in {"prompting", "patching"},
             AnswerAsync(c, g, then, v, where)
      PROVE  RevisionInv'
  <2> DEFINE k == [Blank EXCEPT !.where = where, !.src = v, !.draft = then]
  <2>1. DOMAIN k = CallFields /\ k.src \in DOMAIN versions /\ k.draft \in {"prompting", "patching"}
    BY DEF Blank, CallFields
  <2>2. Begin(c, k, AnswerTodo(g), "look", FALSE) BY <1>2 DEF AnswerAsync
  <2> HIDE DEF k
  <2> QED BY <2>1, <2>2, BeginKeeps
<1> QED BY <1>1, <1>2 DEF AnswerRequest

LEMMA RevisionRequestKeeps ==
  ASSUME RevisionInv, NEW c \in Callers, RevisionRequest(c)
  PROVE  RevisionInv'
<1>1. ASSUME NEW todo, NEW then \in {"end", "generate"}, Begin(c, Blank, todo, then, TRUE)
      PROVE  RevisionInv'
  BY <1>1, BlankFields, BeginKeeps
<1>2. ASSUME NEW enter, Decide(c, enter) PROVE RevisionInv' BY <1>1, <1>2 DEF Decide
<1>3. CASE Input(c) BY <1>1, <1>3 DEF Input
<1>4. CASE Confirm(c) BY <1>1, <1>4 DEF Confirm
<1>5. CASE Continue(c) BY <1>1, <1>5 DEF Continue
<1>6. CASE Generate(c)
  <2>1. DOMAIN Running(Blank) = CallFields BY DEF Running, Blank, CallFields
  <2> QED BY <1>6, <2>1, BeginKeeps DEF Generate
<1>7. ASSUME NEW more, Regenerate(c, more) PROVE RevisionInv' BY <1>1, <1>7 DEF Regenerate
<1> QED BY <1>2, <1>3, <1>4, <1>5, <1>6, <1>7 DEF RevisionRequest

(* The steps of a call that leave the versions and their calls alone. *)
LEMMA FilesKeep ==
  ASSUME RevisionInv, NEW c \in Callers,
         \/ Open(c) \/ Fill(c) \/ Look(c) \/ Prompted(c) \/ GenerateNow(c) \/ Generated(c)
         \/ GenerationFailed(c) \/ ListArtifacts(c)
  PROVE  RevisionInv'
<1>1. UNCHANGED versionState /\ UNCHANGED job /\ UNCHANGED versions
  BY DEF Open, Fill, Look, Prompted, GenerateNow, Generated, GenerationFailed, ListArtifacts,
         versionState, rows
<1>2. VersionsInv' BY <1>1, VersionsUntouched DEF RevisionInv
<1>3. CallsInv BY DEF RevisionInv
<1>4. ASSUME NEW step, step # "none", NEW at, In(c, step), call' = [call EXCEPT ![c].at = at],
             ToReread([call[c] EXCEPT !.at = at]) => ToReread(call[c])
      PROVE  CallsInv'
  <2> DEFINE k == [call[c] EXCEPT !.at = at]
  <2>1. call' = [call EXCEPT ![c] = k] BY <1>4
  <2>2. CallFits(call[c], versions) BY <1>3, <1>4, InCall
  <2>3. /\ DOMAIN k = CallFields /\ k.then = call[c].then /\ k.src = call[c].src
        /\ k.draft = call[c].draft
    BY <2>2 DEF CallFits, CallFields
  <2>4. ToReread(k) => ToReread(call[c]) BY <1>4
  <2> HIDE DEF k
  <2>5. CallFits(k, versions) BY <2>2, <2>3, <2>4 DEF CallFits
  <2> QED BY <1>1, <1>3, <2>1, <2>5, CallsMove
<1>5. ASSUME NEW step, step # "none", In(c, step), NEW todo, NEW then \in {"end", "generate", "llm", "list"},
             Writes(c, call[c], todo, then)
      PROVE  CallsInv'
  <2>1. DOMAIN call[c] = CallFields BY <1>3, <1>5, InCall DEF CallFits
  <2> QED BY <1>1, <1>3, <1>5, <2>1, WritesKeep
<1>6. CASE Open(c)
  <2>1. In(c, "open") /\ call' = [call EXCEPT ![c].at = "fill"] BY <1>6 DEF Open
  <2>2. CallFits(call[c], versions) /\ call[c].at = "open" BY <1>3, <2>1, InCall
  <2>3. ToReread([call[c] EXCEPT !.at = "fill"]) => ToReread(call[c])
    BY <2>2 DEF ToReread, CallFits, CallFields
  <2> QED BY <1>4, <2>1, <2>3, <1>2 DEF RevisionInv
<1>7. CASE Fill(c)
  <2>1. In(c, "fill") BY <1>7 DEF Fill
  <2>2. CallFits(call[c], versions) /\ call[c].at = "fill" BY <1>3, <2>1, InCall
  <2>3. CASE Writes(c, call[c], Tail(call[c].todo), call[c].then)
    <3>1. /\ DOMAIN call[c] = CallFields /\ call[c].then \in {"end", "generate", "llm", "list", "look"}
          /\ call[c].then = "look" =>
               call[c].src \in DOMAIN versions /\ call[c].draft \in {"prompting", "patching"}
      BY <2>2 DEF CallFits, ToReread
    <3> QED BY <1>1, <1>2, <1>3, <2>3, <3>1, WritesKeep DEF RevisionInv
  <2>4. CASE End(c) BY <1>1, <1>2, <1>3, <2>4, EndKeeps DEF RevisionInv
  <2>5. CASE call' = [call EXCEPT ![c].at = call[c].then]
    <3>1. ToReread([call[c] EXCEPT !.at = call[c].then]) => ToReread(call[c])
      BY <2>2 DEF ToReread, CallFits, CallFields
    <3> QED BY <1>2, <1>4, <2>1, <2>5, <3>1 DEF RevisionInv
  <2> QED BY <1>7, <2>3, <2>4, <2>5 DEF Fill
<1>8. CASE Look(c)
  <2>1. In(c, "look") BY <1>8 DEF Look
  <2>2. CallFits(call[c], versions) /\ call[c].at = "look" BY <1>3, <2>1, InCall
  <2>3. ToReread([call[c] EXCEPT !.at = "reread"]) => ToReread(call[c])
    BY <2>2 DEF ToReread, CallFits, CallFields
  <2>4. CASE End(c) BY <1>1, <1>2, <1>3, <2>4, EndKeeps DEF RevisionInv
  <2>5. CASE call' = [call EXCEPT ![c].at = "reread"]
    BY <1>2, <1>4, <2>1, <2>3, <2>5 DEF RevisionInv
  <2> QED BY <1>8, <2>4, <2>5 DEF Look
<1>9. CASE Prompted(c) BY <1>2, <1>5, <1>9 DEF Prompted, WriteBack, RevisionInv
<1>10. CASE GenerateNow(c)
  <2>1. CASE End(c) BY <1>1, <1>2, <1>3, <2>1, EndKeeps DEF RevisionInv
  <2>2. CASE Writes(c, Running(call[c]), RunningTodo, "llm")
    <3>1. CallFits(call[c], versions) BY <1>3, <1>10, InCall DEF GenerateNow
    <3>2. DOMAIN Running(call[c]) = CallFields BY <3>1 DEF Running, CallFits, CallFields
    <3> QED BY <1>1, <1>2, <1>3, <2>2, <3>2, WritesKeep DEF RevisionInv
  <2> QED BY <1>10, <2>1, <2>2 DEF GenerateNow
<1>11. CASE Generated(c) BY <1>2, <1>5, <1>11 DEF Generated, RevisionInv
<1>12. CASE GenerationFailed(c) BY <1>2, <1>5, <1>12 DEF GenerationFailed, RevisionInv
<1>13. CASE ListArtifacts(c)
  <2>1. CASE End(c) BY <1>1, <1>2, <1>3, <2>1, EndKeeps DEF RevisionInv
  <2> QED BY <1>2, <1>5, <1>13, <2>1 DEF ListArtifacts, RevisionInv
<1> QED BY <1>6, <1>7, <1>8, <1>9, <1>10, <1>11, <1>12, <1>13

LEMMA RereadKeeps ==
  ASSUME RevisionInv, NEW c \in Callers, Reread(c)
  PROVE  RevisionInv'
<1> DEFINE report == IF Loads(files.report) THEN files.report ELSE Emptied
           k == [call[c] EXCEPT !.at = call[c].draft, !.seen = report]
<1>1. UNCHANGED versionState /\ UNCHANGED versions /\ In(c, "reread")
  BY DEF Reread, versionState, rows
<1>2. CallsInv BY DEF RevisionInv
<1>3. /\ CallFits(call[c], versions) /\ call[c].src \in DOMAIN versions
      /\ call[c].draft \in {"prompting", "patching"}
  BY <1>1, <1>2, InCall DEF CallFits, ToReread
<1>4. call' = [call EXCEPT ![c] = k] BY DEF Reread
<1> HIDE DEF report
<1>5. CallFits(k, versions) BY <1>3 DEF CallFits, CallFields, ToReread
<1> HIDE DEF k
<1>6. CallsInv' BY <1>1, <1>2, <1>4, <1>5, CallsMove
<1>7. CASE job' = [job EXCEPT ![c] = Started("patch", call[c].src, 0)]
  BY <1>1, <1>3, <1>6, <1>7, StartKeeps DEF RevisionInv
<1>8. CASE job' = job BY <1>1, <1>6, <1>8, VersionsUntouched DEF RevisionInv
<1> QED BY <1>7, <1>8 DEF Reread

LEMMA PatchedKeeps ==
  ASSUME RevisionInv, NEW c \in Callers, Patched(c)
  PROVE  RevisionInv'
<1>1. /\ UNCHANGED versionState /\ UNCHANGED versions /\ In(c, "patching")
      /\ job' = [job EXCEPT ![c] = NoCall]
  BY DEF Patched, Leave, Goto, versionState, rows
<1>2. VersionsInv' BY <1>1, LeaveKeeps DEF RevisionInv
<1>3. CallsInv /\ DOMAIN call[c] = CallFields BY <1>1, InCall DEF CallFits, RevisionInv
<1>4. CASE End(c) BY <1>1, <1>2, <1>3, <1>4, EndKeeps DEF RevisionInv
<1>5. CASE WriteBack(c, job[c].result)
  BY <1>1, <1>2, <1>3, <1>5, WritesKeep DEF RevisionInv, WriteBack
<1> QED BY <1>4, <1>5 DEF Patched

LEMMA VersionCallKeeps ==
  ASSUME RevisionInv, NEW c \in Callers, NEW op \in {"derive", "roadmap", "review"},
         NEW v \in DOMAIN versions, VersionCall(c, op, v)
  PROVE  RevisionInv'
<1>1. UNCHANGED versionState /\ UNCHANGED versions /\ UNCHANGED call
  BY DEF VersionCall, versionState, rows, revars
<1>2. PICK run : job' = [job EXCEPT ![c] = Started(op, v, run)] BY DEF VersionCall, Goto
<1>3. VersionsInv' BY <1>1, <1>2, StartKeeps DEF RevisionInv
<1> QED BY <1>1, <1>3 DEF RevisionInv, CallsInv

LEMMA RowsGrow ==
  ASSUME VersionsInv, NEW c \in Callers, StepOfPatch(c) \/ StepOfCall(c)
  PROVE  Grows(versions, versions')
<1>1. CASE versions' = versions BY <1>1 DEF Grows
<1>2. ASSUME NEW step \in Issued, At(c, step), versions' = Put(job[c].id, job[c].new, versions)
      PROVE  Grows(versions, versions')
  BY <1>2, SomeAt, RowInserted
<1>3. ASSUME NEW step \in Copying, At(c, step), SaveWorkspace(job[c].copy)
      PROVE  Grows(versions, versions')
  <2>1. JobFits(job[c], versions, issued) /\ job[c].at \in Copying
    BY <1>3, SomeAt DEF Copying, Issued
  <2>2. 0 \notin DOMAIN versions /\ issued \in Nat /\ DOMAIN versions \subseteq 1..issued
    BY DEF VersionsInv, TableFits
  <2>3. /\ CopyFits(job[c].copy, job[c].id, job[c].new, versions)
        /\ job[c].id \in DOMAIN versions => versions[job[c].id] = job[c].new
    BY <2>1, <2>2 DEF JobFits
  <2> QED BY <1>3, <2>2, <2>3, CopySaved DEF SaveWorkspace
<1>4. CASE StepOfPatch(c)
  BY <1>1, <1>2, <1>3, <1>4
  DEF StepOfPatch, PatchRejected, PatchRaised, PatchOpen, PatchWrite, PatchInsert, PatchMerge,
      PatchSave, InsertRow, rows, Issued, Copying
<1>5. CASE StepOfCall(c)
  BY <1>1, <1>2, <1>3, <1>5
  DEF StepOfCall, DeriveLoad, DeriveInsert, RoadmapLoad, BlindSave, ReviewDone, ReviewFailed,
      ReviewList, ReviewInsert, ReviewMerge, ReviewSave, ReviewLink, InsertRow, rows, Issued, Copying
<1> QED BY <1>4, <1>5

(* Rows are added, the calls on the run do not move. *)
LEMMA StepOfVersionsKeeps ==
  ASSUME RevisionInv, NEW c \in Callers, StepOfPatch(c) \/ StepOfCall(c), UNCHANGED revars
  PROVE  RevisionInv'
<1>1. VersionsInv' /\ UNCHANGED call BY CallKeeps DEF RevisionInv, revars
<1>2. DOMAIN versions \subseteq DOMAIN versions' BY RowsGrow DEF RevisionInv, Grows
<1>3. ASSUME NEW d \in Callers, call[d] # NoCall PROVE CallFits(call[d], versions')
  BY <1>2, <1>3 DEF RevisionInv, CallsInv, CallFits
<1> QED BY <1>1, <1>3 DEF RevisionInv, CallsInv

LEMMA CrashKeeps ==
  ASSUME RevisionInv, NEW where, Crash(where)
  PROVE  RevisionInv'
<1>1. UNCHANGED versions /\ UNCHANGED workspace /\ UNCHANGED links /\ UNCHANGED issued
  BY DEF Crash, versionState, rows
<1>2. /\ DOMAIN call' = Callers /\ DOMAIN job' = Callers
      /\ \A d \in Callers : call'[d] = NoCall \/ call'[d] = call[d]
      /\ \A d \in Callers : job'[d] = NoCall \/ job'[d] = job[d]
  BY DEF Crash
<1>3. CallsInv' BY <1>1, <1>2 DEF RevisionInv, CallsInv
<1>4. /\ \A d \in Callers : Under(job'[d]) => job'[d] = job[d] /\ Under(job[d])
  BY <1>2, OverAreNot
<1>5. \A d \in Callers : Under(job'[d]) => JobFits(job'[d], versions', issued')
  BY <1>1, <1>4 DEF RevisionInv, VersionsInv
<1>6. \A d, e \in Callers : d # e /\ Under(job'[d]) /\ Under(job'[e]) /\ job'[d].id # 0
                              => job'[d].id # job'[e].id
  BY <1>4 DEF RevisionInv, VersionsInv
<1>7. /\ issued' \in Nat /\ TableFits(versions', issued') /\ WorkspaceFits(workspace', versions')
      /\ \A l \in links' : l[1] \in DOMAIN versions' /\ l[2] \in DOMAIN versions'
  BY <1>1 DEF RevisionInv, VersionsInv
<1>8. VersionsInv' BY <1>2, <1>5, <1>6, <1>7 DEF VersionsInv, Under
<1> QED BY <1>3, <1>8 DEF RevisionInv

LEMMA RevisionStarts == Init => RevisionInv
<1> SUFFICES ASSUME Init PROVE RevisionInv OBVIOUS
<1>1. AInit /\ RevisionInit BY DEF Init
<1>2. /\ DOMAIN versions = {1} /\ versions[1] = FirstRow /\ issued = 1
  <2>1. versions = Put(1, FirstRow, <<>>) /\ issued = 1 BY <1>1 DEF AInit
  <2>2. DOMAIN <<>> = {} OBVIOUS
  <2> QED BY <2>1, <2>2 DEF Put, Upon
<1>3. TableFits(versions, issued)
  <2>1. VersionRow(FirstRow, 1) /\ FirstRow.parent = 0 BY DEF VersionRow, FirstRow, Keys
  <2> QED BY <1>2, <2>1 DEF TableFits, ChildFits
<1>4. WorkspaceFits(workspace, versions)
  <2> SUFFICES ASSUME workspace # Missing PROVE WorkspaceFits(workspace, versions)
    BY DEF WorkspaceFits
  <2>1. workspace = [current |-> [NoPointers EXCEPT ![Prd] = 1], roadmap |-> 0] BY <1>1 DEF AInit
  <2>2. DOMAIN workspace = {"current", "roadmap"} /\ DOMAIN workspace.current = Keys
    BY <2>1 DEF NoPointers
  <2>3. \A k \in Keys : workspace.current[k] = IF k = Prd THEN 1 ELSE 0
    BY <2>1 DEF NoPointers, Keys
  <2> QED BY <1>2, <2>2, <2>3 DEF WorkspaceFits, FirstRow
<1>5. DOMAIN job = Callers /\ \A c \in Callers : ~Under(job[c]) BY <1>1, OverAreNot DEF AInit
<1>6. links = {} BY <1>1 DEF AInit
<1>7. VersionsInv BY <1>2, <1>3, <1>4, <1>5, <1>6 DEF VersionsInv
<1>8. CallsInv BY <1>1 DEF RevisionInit, CallsInv
<1> QED BY <1>7, <1>8 DEF RevisionInv

LEMMA RevisionKeeps == RevisionInv /\ [Next]_vars => RevisionInv'
<1> SUFFICES ASSUME RevisionInv, [Next]_vars PROVE RevisionInv' OBVIOUS
<1>1. CASE UNCHANGED vars
  <2>1. UNCHANGED versionState /\ UNCHANGED job /\ UNCHANGED versions /\ UNCHANGED call
    BY <1>1 DEF vars, avars, revars, versionState, rows
  <2> QED BY <2>1, VersionsUntouched DEF RevisionInv, CallsInv
<1>2. ASSUME NEW c \in Callers, StepOfRun(c) PROVE RevisionInv'
  BY <1>2, FilesKeep, RereadKeeps, PatchedKeeps DEF StepOfRun
<1>3. ASSUME NEW where, Crash(where) PROVE RevisionInv' BY <1>3, CrashKeeps
<1> QED
  BY <1>1, <1>2, <1>3, AnswerRequestKeeps, RevisionRequestKeeps, VersionCallKeeps,
     StepOfVersionsKeeps DEF Next

(* No row that is named can be missing. *)
THEOREM PointersResolved == Spec => []PointersResolve
<1>1. RevisionInv => PointersResolve
  BY DEF RevisionInv, VersionsInv, TableFits, ChildFits, WorkspaceFits, PointersResolve
<1> QED BY <1>1, RevisionStarts, RevisionKeeps, PTL DEF Spec

LEMMA RunsLeaveRows ==
  ASSUME NEW c \in Callers, NEW where,
         \/ AnswerRequest(c, where) \/ RevisionRequest(c) \/ StepOfRun(c)
         \/ \E op, v : VersionCall(c, op, v)
  PROVE  versions' = versions
<1>1. UNCHANGED versionState
  BY DEF AnswerRequest, RevisionRequest, StepOfRun, VersionCall, Answer, AnswerAsync, Decide,
         Input, Confirm, Continue, Generate, Regenerate, Begin, Open, Fill, Look, Reread, Prompted,
         Patched, GenerateNow, Generated, GenerationFailed, ListArtifacts
<1> QED BY <1>1 DEF versionState, rows

(* No save of a stale copy takes a row away or back: rows are written once. *)
THEOREM RowsStand == Spec => RowsAreKept
<1>1. RevisionInv /\ [Next]_vars =>
        [ /\ DOMAIN versions \subseteq DOMAIN versions'
          /\ \A v \in DOMAIN versions : versions'[v] = versions[v] ]_versions
  <2> SUFFICES ASSUME RevisionInv, [Next]_vars, versions' # versions
               PROVE  Grows(versions, versions')
    BY DEF Grows
  <2>1. ~UNCHANGED vars BY DEF vars, avars, rows
  <2>2. \A where : ~Crash(where) BY DEF Crash, versionState, rows
  <2>3. PICK c \in Callers : StepOfPatch(c) \/ StepOfCall(c) BY <2>1, <2>2, RunsLeaveRows DEF Next
  <2> QED BY <2>3, RowsGrow DEF RevisionInv
<1> QED BY <1>1, RevisionStarts, RevisionKeeps, PTL DEF Spec, RowsAreKept

----------------------------------------------------------------------------
(* The clarification gate. *)

ReportFields == {"status", "answers", "findings", "patch", "listed"}

FindingFits(x) ==
  /\ DOMAIN x = {"says", "original", "severity"}
  /\ x.original \in {Missing, "high"}
  /\ x.original = Missing => x.severity = "high"

(* A report with the answers a, and findings that follow them. *)
Carries(r, a) ==
  /\ DOMAIN r = ReportFields
  /\ r.answers = a
  /\ DOMAIN r.findings = Findings
  /\ \A f \in Findings : FindingFits(r.findings[f])
  /\ FindingsFollow(r)

IsAnswers(a) == a = [ask \in DOMAIN a |-> a[ask]] /\ DOMAIN a \subseteq Questions

Joined(g, a) == Upon([ask \in Questions \cap DOMAIN g |-> g[ask]], a)

LEMMA AnswersJoin ==
  ASSUME NEW a, IsAnswers(a), NEW g
  PROVE  /\ IsAnswers(Joined(g, a))
         /\ DOMAIN Joined(g, a) = DOMAIN a \cup (Questions \cap DOMAIN g)
         /\ \A ask \in Questions \cap DOMAIN g : Joined(g, a)[ask] = g[ask]
         /\ \A ask \in DOMAIN a \ DOMAIN g : Joined(g, a)[ask] = a[ask]
         /\ DOMAIN g = {} => Joined(g, a) = a
<1> DEFINE new == [ask \in Questions \cap DOMAIN g |-> g[ask]]
<1>1. Joined(g, a) = [ask \in DOMAIN new \cup DOMAIN a |-> IF ask \in DOMAIN new THEN new[ask] ELSE a[ask]]
  BY DEF Joined, Upon
<1>2. DOMAIN new = Questions \cap DOMAIN g /\ \A ask \in Questions \cap DOMAIN g : new[ask] = g[ask]
  OBVIOUS
<1> HIDE DEF new
<1>3. DOMAIN Joined(g, a) = DOMAIN a \cup (Questions \cap DOMAIN g) BY <1>1, <1>2
<1>4. Joined(g, a) = [ask \in DOMAIN Joined(g, a) |-> Joined(g, a)[ask]] BY <1>1
<1>5. IsAnswers(Joined(g, a)) BY <1>3, <1>4 DEF IsAnswers
<1>6. DOMAIN g = {} => Joined(g, a) = a
  <2> SUFFICES ASSUME DOMAIN g = {} PROVE Joined(g, a) = a OBVIOUS
  <2>1. DOMAIN new = {} BY <1>2
  <2>2. Joined(g, a) = [ask \in DOMAIN a |-> a[ask]] BY <1>1, <2>1
  <2> QED BY <2>2 DEF IsAnswers
<1> QED BY <1>1, <1>2, <1>3, <1>5, <1>6

LEMMA LastPlace ==
  ASSUME NEW f, NEW g, Places(f, g) # {}
  PROVE  LET ask == Order[Max(Places(f, g))]
         IN  ask \in Questions /\ ask \in DOMAIN g /\ f \in Lists[ask]
<1>1. Order \in Seq(Questions) BY RevisionAssumption
<1>2. Len(Order) \in Nat /\ DOMAIN Order = 1..Len(Order) BY <1>1
<1>3. Places(f, g) \subseteq 1..Len(Order) BY <1>2 DEF Places
<1> DEFINE S == Places(f, g)
<1>4. S \in SUBSET Nat /\ S # {} /\ \A x \in S : x <= Len(Order) BY <1>2, <1>3
<1>5. Max(S) \in S
  <2> HIDE DEF S
  <2> QED BY <1>2, <1>4, GreatestOfNaturals
<1>6. Max(S) \in DOMAIN Order /\ Order[Max(S)] \in DOMAIN g /\ f \in Lists[Order[Max(S)]]
  BY <1>5 DEF Places
<1>7. Order[Max(S)] \in Questions BY <1>1, <1>6
<1> QED BY <1>6, <1>7

LEMMA NoPlace ==
  ASSUME NEW f, NEW g, Places(f, g) = {}
  PROVE  \A ask \in Questions \cap DOMAIN g : f \notin Lists[ask]
<1>1. Questions = {Order[i] : i \in DOMAIN Order} BY DEF Questions, ToSet
<1> QED BY <1>1 DEF Places

(* The answer joins those that the report has, and its findings follow. *)
LEMMA AnsweredCarries ==
  ASSUME NEW r, NEW a, IsAnswers(a), Carries(r, a), NEW g
  PROVE  Carries(Answered(r, g), Joined(g, a))
<1>1. CASE DOMAIN g = {}
  <2> DEFINE s == [r EXCEPT !.status = PendingStatus(r)]
  <2>1. Answered(r, g) = s BY <1>1 DEF Answered
  <2>2. DOMAIN s = ReportFields /\ s.answers = r.answers /\ s.findings = r.findings
    BY DEF Carries, ReportFields
  <2> HIDE DEF s
  <2>3. Joined(g, a) = a BY <1>1, AnswersJoin
  <2> QED BY <2>1, <2>2, <2>3 DEF Carries, FindingsFollow
<1>2. /\ DOMAIN Joined(g, a) = DOMAIN a \cup (Questions \cap DOMAIN g)
      /\ \A ask \in Questions \cap DOMAIN g : Joined(g, a)[ask] = g[ask]
      /\ \A ask \in DOMAIN a \ DOMAIN g : Joined(g, a)[ask] = a[ask]
  BY AnswersJoin
<1>3. CASE DOMAIN g # {}
  <2> DEFINE found == [f \in Findings |->
               IF Places(f, g) = {} THEN r.findings[f]
               ELSE Clarified(r.findings[f], g[Order[Max(Places(f, g))]])]
             s == [r EXCEPT !.answers = Joined(g, @), !.findings = found, !.status = "answered"]
  <2>1. Answered(r, g) = s BY <1>3 DEF Answered, Joined
  <2>2. DOMAIN s = ReportFields /\ s.answers = Joined(g, a) /\ s.findings = found
    BY DEF Carries, ReportFields
  <2>3. DOMAIN found = Findings OBVIOUS
  <2>4. \A f \in Findings : Places(f, g) = {} => found[f] = r.findings[f] OBVIOUS
  <2>5. \A f \in Findings : Places(f, g) # {} =>
          found[f] = Clarified(r.findings[f], g[Order[Max(Places(f, g))]])
    OBVIOUS
  <2> HIDE DEF s, found
  <2>6. Missing # "high" BY RevisionAssumption
  <2>7. \A f \in Findings : OriginalSeverity(r.findings[f]) = "high"
    BY <2>6 DEF OriginalSeverity, Carries, FindingFits
  <2>8. ASSUME NEW f \in Findings PROVE FindingFits(found[f])
    <3>1. CASE Places(f, g) = {} BY <2>4, <3>1 DEF Carries
    <3>2. CASE Places(f, g) # {}
      <4>1. PICK answer : found[f] = Clarified(r.findings[f], answer) BY <2>5, <3>2
      <4>2. /\ DOMAIN found[f] = {"says", "original", "severity"}
            /\ found[f].original = OriginalSeverity(r.findings[f])
        BY <4>1 DEF Clarified
      <4> QED BY <2>6, <2>7, <4>2 DEF FindingFits
    <3> QED BY <3>1, <3>2
  <2>9. ASSUME NEW f \in Findings
        PROVE LET asking == {ask \in DOMAIN s.answers : f \in Lists[ask]}
              IN IF asking = {} THEN s.findings[f].severity = "high"
                 ELSE \E ask \in asking :
                        /\ s.findings[f].says = s.answers[ask]
                        /\ s.findings[f].severity = ResolvedSeverity(s.answers[ask], "high")
    <3> DEFINE asking == {ask \in DOMAIN s.answers : f \in Lists[ask]}
    <3>1. CASE Places(f, g) = {}
      <4>1. s.findings[f] = r.findings[f] BY <2>2, <2>4, <3>1
      <4>2. \A ask \in Questions \cap DOMAIN g : f \notin Lists[ask] BY <3>1, NoPlace
      <4>3. asking = {ask \in DOMAIN a : f \in Lists[ask]}
        <5>1. DOMAIN s.answers = DOMAIN a \cup (Questions \cap DOMAIN g) BY <1>2, <2>2
        <5>2. \A ask : ask \in asking <=> ask \in DOMAIN a /\ f \in Lists[ask] BY <4>2, <5>1
        <5> QED BY <5>2
      <4>4. DOMAIN a \subseteq Questions BY DEF IsAnswers
      <4>5. \A ask \in DOMAIN a : f \in Lists[ask] => ask \notin DOMAIN g BY <4>2, <4>4
      <4>6. \A ask \in DOMAIN a : f \in Lists[ask] => s.answers[ask] = a[ask] BY <1>2, <2>2, <4>5
      <4>7. r.answers = a BY DEF Carries
      <4> QED BY <4>1, <4>3, <4>6, <4>7 DEF Carries, FindingsFollow
    <3>2. CASE Places(f, g) # {}
      <4> DEFINE ask == Order[Max(Places(f, g))]
      <4>1. ask \in Questions /\ ask \in DOMAIN g /\ f \in Lists[ask] BY <3>2, LastPlace
      <4>2. s.findings[f] = Clarified(r.findings[f], g[ask]) BY <2>2, <2>5, <3>2
      <4> HIDE DEF ask
      <4>3. ask \in asking /\ s.answers[ask] = g[ask] BY <2>2, <1>2, <4>1
      <4>4. s.findings[f].says = g[ask] /\ s.findings[f].severity = ResolvedSeverity(g[ask], "high")
        BY <2>7, <4>2 DEF Clarified
      <4> QED BY <4>3, <4>4
    <3> QED BY <3>1, <3>2
  <2>10. FindingsFollow(s) BY <2>9 DEF FindingsFollow
  <2> QED BY <2>1, <2>2, <2>3, <2>8, <2>10 DEF Carries
<1> QED BY <1>1, <1>3

----------------------------------------------------------------------------
(* Answers to the server only, none with a patch. *)

FileNames == {"report", "copy", "stage", "request", "revised", "summary", "confirmed"}

FilesInv == DOMAIN files = FileNames /\ DOMAIN told = {"answers", "entered", "confirmed"}

(* Of the server's calls all but those at an await have the loop. *)
Busy(k) == k # NoCall /\ k.at # "llm"
Writing(k) == k.at \in {"open", "fill"}
Mentions(k, f) == \E i \in DOMAIN k.todo : k.todo[i][1] = f

EntryFits(e, a) ==
  /\ e[1] = "report" => Carries(e[2], a)
  /\ e[1] = "copy" => e[2] = a

IsTodo(todo) == todo # <<>> /\ \E S : todo \in Seq(S)

SafeCall(k, a) ==
  /\ DOMAIN k = CallFields /\ k.where = "server"
  /\ k.at \in {"open", "fill", "generate", "llm", "list"}
  /\ k.then \in {"end", "generate", "llm", "list"}
  /\ k.at \in {"open", "fill"} =>
       IsTodo(k.todo) /\ \A i \in DOMAIN k.todo : EntryFits(k.todo[i], a)

(* The report and the copy of the answers have them all, or are about to. *)
AnswersInv ==
  /\ IsAnswers(told.answers)
  /\ \A c \in Callers : job[c] # NoCall => job[c].at \notin {"patch", "write"}
  /\ \A c \in Callers : call[c] # NoCall => SafeCall(call[c], told.answers)
  /\ \A c, d \in Callers : c # d /\ Busy(call[c]) => ~Busy(call[d])
  /\ \/ Carries(files.report, told.answers)
     \/ \E c \in Callers : Writing(call[c]) /\ Mentions(call[c], "report")
  /\ \/ files.copy = told.answers
     \/ \E c \in Callers : Writing(call[c]) /\ Mentions(call[c], "copy")

SafeInv == RevisionInv /\ FilesInv /\ (safe => AnswersInv)

LEMMA TodoHead ==
  ASSUME NEW todo, IsTodo(todo)
  PROVE  /\ Len(todo) \in Nat /\ Len(todo) > 0 /\ DOMAIN todo = 1..Len(todo)
         /\ Head(todo) = todo[1]
         /\ Len(todo) > 1 => /\ IsTodo(Tail(todo)) /\ DOMAIN Tail(todo) = 1..(Len(todo) - 1)
                             /\ \A i \in 1..(Len(todo) - 1) : Tail(todo)[i] = todo[i + 1]
<1>1. PICK S : todo \in Seq(S) BY DEF IsTodo
<1>2. todo # <<>> BY DEF IsTodo
<1>3. Len(todo) \in Nat /\ DOMAIN todo = 1..Len(todo) BY <1>1
<1>4. Len(todo) > 0 BY <1>1, <1>2
<1>5. Head(todo) = todo[1] OBVIOUS
<1>6. ASSUME Len(todo) > 1
      PROVE  /\ IsTodo(Tail(todo)) /\ DOMAIN Tail(todo) = 1..(Len(todo) - 1)
             /\ \A i \in 1..(Len(todo) - 1) : Tail(todo)[i] = todo[i + 1]
  <2>1. Tail(todo) \in Seq(S) /\ Len(Tail(todo)) = Len(todo) - 1
    BY <1>1, <1>2, HeadTailProperties
  <2>2. Tail(todo) # <<>>
    <3>1. Len(<<>>) = 0 OBVIOUS
    <3>2. Len(Tail(todo)) # 0 BY <1>3, <1>6, <2>1
    <3> QED BY <3>1, <3>2, Zenon
  <2>3. DOMAIN Tail(todo) = 1..(Len(todo) - 1) BY <2>1
  <2>4. \A i \in 1..(Len(todo) - 1) : Tail(todo)[i] = todo[i + 1] BY <1>1, <1>2, <1>3
  <2> QED BY <2>1, <2>2, <2>3, <2>4 DEF IsTodo
<1> QED BY <1>3, <1>4, <1>5, <1>6

LEMMA OneOrTwo ==
  ASSUME NEW x, NEW y
  PROVE  /\ IsTodo(<<x>>) /\ DOMAIN <<x>> = {1} /\ <<x>>[1] = x
         /\ IsTodo(<<x, y>>) /\ DOMAIN <<x, y>> = {1, 2}
         /\ <<x, y>>[1] = x /\ <<x, y>>[2] = y
<1>1. <<x>> \in Seq({x}) /\ <<x>> # <<>> OBVIOUS
<1>2. <<x, y>> \in Seq({x, y}) /\ <<x, y>> # <<>> OBVIOUS
<1>3. DOMAIN <<x>> = {1} /\ <<x>>[1] = x OBVIOUS
<1>4. DOMAIN <<x, y>> = {1, 2} /\ <<x, y>>[1] = x /\ <<x, y>>[2] = y OBVIOUS
<1> QED BY <1>1, <1>2, <1>3, <1>4 DEF IsTodo

(* A call that may move has the loop to itself. *)
LEMMA NoOthers ==
  ASSUME AnswersInv, NEW c \in Callers, MayMove(c)
  PROVE  \A d \in Callers \ {c} : ~Busy(call[d])
<1>1. RunsIn(c) = "server" BY DEF RunsIn, AnswersInv, SafeCall
<1>2. ASSUME NEW d \in Callers \ {c} PROVE ~Busy(call[d])
  <2>1. ~HasLoop(d) BY <1>1 DEF MayMove
  <2>2. SUFFICES ASSUME call[d] # NoCall, call[d].at # "llm" PROVE FALSE BY DEF Busy
  <2>3. SafeCall(call[d], told.answers) BY <2>2 DEF AnswersInv
  <2>4. RunsIn(d) = "server" /\ call[d].at \notin Awaits BY <2>2, <2>3 DEF RunsIn, SafeCall, Awaits
  <2> QED BY <2>1, <2>2, <2>4 DEF HasLoop
<1> QED BY <1>2

(* Nor is anything left to be written by another. *)
LEMMA NothingPending ==
  ASSUME AnswersInv, NEW c \in Callers, \A d \in Callers \ {c} : ~Busy(call[d]), ~Writing(call[c])
  PROVE  Carries(files.report, told.answers) /\ files.copy = told.answers
<1>1. \A d \in Callers : ~Writing(call[d]) BY DEF Writing, Busy, NoCall
<1> QED BY <1>1 DEF AnswersInv

(* The call that has the loop moves. *)
LEMMA SafeStep ==
  ASSUME RevisionInv, AnswersInv, NEW c \in Callers, \A d \in Callers \ {c} : ~Busy(call[d]),
         NEW k, call' = [call EXCEPT ![c] = k], UNCHANGED job,
         IsAnswers(told'.answers),
         k # NoCall => SafeCall(k, told'.answers),
         Carries(files'.report, told'.answers) \/ (Writing(k) /\ Mentions(k, "report")),
         files'.copy = told'.answers \/ (Writing(k) /\ Mentions(k, "copy"))
  PROVE  AnswersInv'
<1>1. DOMAIN call' = Callers /\ call'[c] = k /\ \A d \in Callers \ {c} : call'[d] = call[d]
  BY DEF RevisionInv, CallsInv
<1>2. ASSUME NEW d \in Callers, call'[d] # NoCall PROVE SafeCall(call'[d], told'.answers)
  <2>1. CASE d = c BY <1>1, <1>2, <2>1
  <2>2. CASE d # c
    <3>1. call'[d] = call[d] /\ call[d].at = "llm" BY <1>1, <1>2, <2>2 DEF Busy
    <3>2. SafeCall(call[d], told.answers) BY <1>1, <1>2, <2>2 DEF AnswersInv
    <3> QED BY <3>1, <3>2 DEF SafeCall
  <2> QED BY <2>1, <2>2
<1>3. \A d, e \in Callers : d # e /\ Busy(call'[d]) => ~Busy(call'[e]) BY <1>1
<1>4. \/ Carries(files'.report, told'.answers)
      \/ \E d \in Callers : Writing(call'[d]) /\ Mentions(call'[d], "report")
  BY <1>1
<1>5. \/ files'.copy = told'.answers
      \/ \E d \in Callers : Writing(call'[d]) /\ Mentions(call'[d], "copy")
  BY <1>1
<1>6. \A d \in Callers : job'[d] # NoCall => job'[d].at \notin {"patch", "write"}
  BY DEF AnswersInv
<1> QED BY <1>2, <1>3, <1>4, <1>5, <1>6 DEF AnswersInv, Busy, Writing, Mentions

Plain(todo) == IsTodo(todo) /\ \A i \in DOMAIN todo : todo[i][1] \notin {"report", "copy"}

(* It goes on to write files that are neither the report nor the copy. *)
LEMMA PlainWrites ==
  ASSUME RevisionInv, AnswersInv, NEW c \in Callers, MayMove(c), ~Writing(call[c]),
         NEW k, DOMAIN k = CallFields, k.where = "server",
         NEW todo, Plain(todo), NEW then \in {"end", "generate", "llm", "list"},
         Writes(c, k, todo, then), UNCHANGED job, UNCHANGED files, told'.answers = told.answers
  PROVE  AnswersInv'
<1> DEFINE m == [k EXCEPT !.at = "open", !.todo = todo, !.then = then]
<1>1. call' = [call EXCEPT ![c] = m] BY DEF Writes
<1>2. /\ DOMAIN m = CallFields /\ m.where = "server" /\ m.at = "open" /\ m.then = then
      /\ m.todo = todo
  BY DEF CallFields
<1> HIDE DEF m
<1>3. SafeCall(m, told'.answers) BY <1>2 DEF SafeCall, Plain, EntryFits
<1>4. \A d \in Callers \ {c} : ~Busy(call[d]) BY NoOthers
<1>5. Carries(files.report, told.answers) /\ files.copy = told.answers BY <1>4, NothingPending
<1>6. Carries(files'.report, told'.answers) /\ files'.copy = told'.answers BY <1>5
<1>7. IsAnswers(told'.answers) BY DEF AnswersInv
<1> QED BY <1>1, <1>3, <1>4, <1>6, <1>7, SafeStep

(* A call that ends, or comes to an await or another step, having written all. *)
LEMMA DoneWriting ==
  ASSUME RevisionInv, AnswersInv, NEW c \in Callers, MayMove(c),
         NEW k, call' = [call EXCEPT ![c] = k], UNCHANGED job, UNCHANGED told,
         k # NoCall => SafeCall(k, told.answers),
         Carries(files'.report, told.answers), files'.copy = told.answers
  PROVE  AnswersInv'
<1>1. \A d \in Callers \ {c} : ~Busy(call[d]) BY NoOthers
<1>2. IsAnswers(told'.answers) BY DEF AnswersInv
<1> QED BY <1>1, <1>2, SafeStep

(* The file that a call is at, and what is left of its list. *)
LEMMA AtFile ==
  ASSUME AnswersInv, NEW c \in Callers, Writing(call[c])
  PROVE  /\ SafeCall(call[c], told.answers)
         /\ IsTodo(call[c].todo) /\ 1 \in DOMAIN call[c].todo
         /\ Head(call[c].todo) = call[c].todo[1]
         /\ EntryFits(Head(call[c].todo), told.answers)
<1>1. SafeCall(call[c], told.answers) BY DEF AnswersInv, Writing, NoCall
<1>2. IsTodo(call[c].todo) BY <1>1 DEF SafeCall, Writing
<1>3. Len(call[c].todo) \in Nat /\ Len(call[c].todo) > 0 /\ DOMAIN call[c].todo = 1..Len(call[c].todo)
      /\ Head(call[c].todo) = call[c].todo[1]
  BY <1>2, TodoHead
<1>4. 1 \in DOMAIN call[c].todo BY <1>3
<1> QED BY <1>1, <1>2, <1>3, <1>4 DEF SafeCall, Writing

LEMMA OpenSafe ==
  ASSUME RevisionInv, FilesInv, AnswersInv, NEW c \in Callers, MayMove(c), Open(c)
  PROVE  AnswersInv'
<1> DEFINE k == [call[c] EXCEPT !.at = "fill"]
           todo == call[c].todo
<1>1. /\ In(c, "open") /\ call' = [call EXCEPT ![c] = k] /\ UNCHANGED job /\ UNCHANGED told
      /\ files' = [files EXCEPT ![Head(todo)[1]] = Torn]
  BY DEF Open
<1>2. Writing(call[c]) BY <1>1 DEF In, Writing
<1>3. SafeCall(call[c], told.answers) /\ 1 \in DOMAIN todo /\ Head(todo) = todo[1]
  BY <1>2, AtFile
<1>4. \A d \in Callers \ {c} : ~Busy(call[d]) /\ ~Writing(call[d])
  BY NoOthers DEF Busy, Writing, NoCall
<1>5. /\ DOMAIN k = CallFields /\ k.where = "server" /\ k.at = "fill" /\ k.then = call[c].then
      /\ k.todo = todo
  BY <1>3 DEF SafeCall, CallFields
<1>6. SafeCall(k, told.answers) BY <1>2, <1>3, <1>5 DEF SafeCall, Writing
<1>7. files'["report"] = files["report"] \/ Mentions(k, "report")
  BY <1>1, <1>3, <1>5 DEF FilesInv, FileNames, Mentions
<1>8. files'["copy"] = files["copy"] \/ Mentions(k, "copy")
  BY <1>1, <1>3, <1>5 DEF FilesInv, FileNames, Mentions
<1>9. \A f : Mentions(call[c], f) => Mentions(k, f) BY <1>5 DEF Mentions
<1>10. Writing(k) BY <1>5 DEF Writing
<1> HIDE DEF k
<1>11. Carries(files'.report, told.answers) \/ (Writing(k) /\ Mentions(k, "report"))
  BY <1>4, <1>7, <1>9, <1>10 DEF AnswersInv
<1>12. files'.copy = told.answers \/ (Writing(k) /\ Mentions(k, "copy"))
  BY <1>4, <1>8, <1>9, <1>10 DEF AnswersInv
<1>13. IsAnswers(told.answers) BY DEF AnswersInv
<1> QED BY <1>1, <1>4, <1>6, <1>11, <1>12, <1>13, SafeStep

LEMMA FillSafe ==
  ASSUME RevisionInv, FilesInv, AnswersInv, NEW c \in Callers, MayMove(c), Fill(c)
  PROVE  AnswersInv'
<1> DEFINE todo == call[c].todo
<1>1. /\ In(c, "fill") /\ UNCHANGED job /\ UNCHANGED told
      /\ files' = [files EXCEPT ![Head(todo)[1]] = Head(todo)[2]]
      /\ \/ Len(todo) > 1 /\ Writes(c, call[c], Tail(todo), call[c].then)
         \/ ~(Len(todo) > 1) /\ call[c].then = "end" /\ End(c)
         \/ ~(Len(todo) > 1) /\ call[c].then # "end" /\ call' = [call EXCEPT ![c].at = call[c].then]
  BY DEF Fill
<1>2. Writing(call[c]) BY <1>1 DEF In, Writing
<1>3. /\ SafeCall(call[c], told.answers) /\ 1 \in DOMAIN todo /\ Head(todo) = todo[1]
      /\ EntryFits(Head(todo), told.answers) /\ IsTodo(todo)
  BY <1>2, AtFile
<1>4. /\ Len(todo) \in Nat /\ Len(todo) > 0 /\ DOMAIN todo = 1..Len(todo)
      /\ Len(todo) > 1 => /\ IsTodo(Tail(todo)) /\ DOMAIN Tail(todo) = 1..(Len(todo) - 1)
                          /\ \A i \in 1..(Len(todo) - 1) : Tail(todo)[i] = todo[i + 1]
  BY <1>3, TodoHead
<1>5. \A d \in Callers \ {c} : ~Busy(call[d]) /\ ~Writing(call[d])
  BY NoOthers DEF Busy, Writing, NoCall
<1>6. \/ Carries(files'.report, told.answers)
      \/ \E i \in DOMAIN todo : i # 1 /\ todo[i][1] = "report"
  <2>1. CASE Head(todo)[1] = "report"
    BY <1>1, <1>3, <2>1 DEF FilesInv, FileNames, EntryFits
  <2>2. CASE Head(todo)[1] # "report"
    <3>1. files'["report"] = files["report"] BY <1>1, <2>2 DEF FilesInv, FileNames
    <3>2. Carries(files.report, told.answers) \/ Mentions(call[c], "report")
      BY <1>5 DEF AnswersInv
    <3> QED BY <1>3, <2>2, <3>1, <3>2 DEF Mentions
  <2> QED BY <2>1, <2>2
<1>7. \/ files'.copy = told.answers
      \/ \E i \in DOMAIN todo : i # 1 /\ todo[i][1] = "copy"
  <2>1. CASE Head(todo)[1] = "copy"
    BY <1>1, <1>3, <2>1 DEF FilesInv, FileNames, EntryFits
  <2>2. CASE Head(todo)[1] # "copy"
    <3>1. files'["copy"] = files["copy"] BY <1>1, <2>2 DEF FilesInv, FileNames
    <3>2. files.copy = told.answers \/ Mentions(call[c], "copy")
      BY <1>5 DEF AnswersInv
    <3> QED BY <1>3, <2>2, <3>1, <3>2 DEF Mentions
  <2> QED BY <2>1, <2>2
<1>8. CASE Len(todo) > 1 /\ Writes(c, call[c], Tail(todo), call[c].then)
  <2> DEFINE k == [call[c] EXCEPT !.at = "open", !.todo = Tail(todo), !.then = call[c].then]
  <2>1. call' = [call EXCEPT ![c] = k] BY <1>8 DEF Writes
  <2>2. /\ DOMAIN k = CallFields /\ k.where = "server" /\ k.at = "open" /\ k.then = call[c].then
        /\ k.todo = Tail(todo)
    BY <1>3 DEF SafeCall, CallFields
  <2> HIDE DEF k
  <2>3. \A i \in DOMAIN Tail(todo) : i + 1 \in DOMAIN todo /\ Tail(todo)[i] = todo[i + 1]
    BY <1>4, <1>8
  <2>4. \A i \in DOMAIN todo : EntryFits(todo[i], told.answers)
    BY <1>2, <1>3 DEF SafeCall, Writing
  <2>5. \A i \in DOMAIN Tail(todo) : EntryFits(Tail(todo)[i], told.answers) BY <2>3, <2>4
  <2>6. SafeCall(k, told.answers) BY <1>3, <1>4, <1>8, <2>2, <2>5 DEF SafeCall
  <2>7. \A f : (\E i \in DOMAIN todo : i # 1 /\ todo[i][1] = f) => Mentions(k, f)
    <3> SUFFICES ASSUME NEW f, NEW i \in DOMAIN todo, i # 1, todo[i][1] = f PROVE Mentions(k, f)
      OBVIOUS
    <3>1. i - 1 \in 1..(Len(todo) - 1) /\ i = (i - 1) + 1 BY <1>4
    <3>2. i - 1 \in DOMAIN Tail(todo) /\ Tail(todo)[i - 1] = todo[i] BY <1>4, <1>8, <3>1
    <3> QED BY <2>2, <3>2 DEF Mentions
  <2>8. Writing(k) BY <2>2 DEF Writing
  <2>9. IsAnswers(told.answers) BY DEF AnswersInv
  <2> QED BY <1>1, <1>5, <1>6, <1>7, <2>1, <2>6, <2>7, <2>8, <2>9, SafeStep
<1>9. CASE ~(Len(todo) > 1)
  <2>1. Carries(files'.report, told.answers) /\ files'.copy = told.answers
    BY <1>4, <1>6, <1>7, <1>9
  <2>2. CASE End(c)
    <3>1. call' = [call EXCEPT ![c] = NoCall] BY <2>2 DEF End
    <3> QED BY <1>1, <2>1, <3>1, DoneWriting
  <2>3. CASE call[c].then # "end" /\ call' = [call EXCEPT ![c].at = call[c].then]
    <3> DEFINE k == [call[c] EXCEPT !.at = call[c].then]
    <3>1. call' = [call EXCEPT ![c] = k] BY <2>3
    <3>2. SafeCall(k, told.answers) BY <1>3, <2>3 DEF SafeCall, CallFields
    <3> HIDE DEF k
    <3> QED BY <1>1, <2>1, <3>1, <3>2, DoneWriting
  <2> QED BY <1>1, <1>9, <2>2, <2>3
<1> QED BY <1>1, <1>8, <1>9

(* Requests, where no other call has the loop. *)

LEMMA ToldFields ==
  ASSUME FilesInv, NEW entered, NEW confirmed, TellRevision(entered, confirmed)
  PROVE  told'.answers = told.answers
BY DEF TellRevision, FilesInv

LEMMA Begins ==
  ASSUME NEW c \in Callers, NEW k, NEW todo, NEW then, NEW harmless, Begin(c, k, todo, then, harmless)
  PROVE  /\ Writes(c, k, todo, then) /\ UNCHANGED job /\ UNCHANGED files
         /\ call[c] = NoCall /\ ~Writing(call[c])
         /\ safe' => safe /\ harmless
<1>1. Idle(c) /\ Writes(c, k, todo, then) /\ UNCHANGED job /\ UNCHANGED files BY DEF Begin
<1>2. safe' = (safe /\ harmless) BY DEF Begin
<1>3. call[c] = NoCall /\ ~Writing(call[c]) BY <1>1 DEF Idle, Writing, NoCall
<1> QED BY <1>1, <1>2, <1>3, Zenon

LEMMA PlainOneOrTwo ==
  ASSUME NEW x, NEW y, x[1] \notin {"report", "copy"}, y[1] \notin {"report", "copy"}
  PROVE  Plain(<<x>>) /\ Plain(<<x, y>>)
<1>1. /\ IsTodo(<<x>>) /\ DOMAIN <<x>> = {1} /\ <<x>>[1] = x
      /\ IsTodo(<<x, y>>) /\ DOMAIN <<x, y>> = {1, 2}
      /\ <<x, y>>[1] = x /\ <<x, y>>[2] = y
  BY OneOrTwo
<1> DEFINE one == <<x>>
           two == <<x, y>>
<1>2. /\ IsTodo(one) /\ DOMAIN one = {1} /\ one[1] = x
      /\ IsTodo(two) /\ DOMAIN two = {1, 2} /\ two[1] = x /\ two[2] = y
  BY <1>1
<1> HIDE DEF one, two
<1>3. Plain(one) /\ Plain(two) BY <1>2 DEF Plain
<1> QED BY <1>3 DEF one, two

LEMMA PlainLists ==
  ASSUME NEW status, NEW entered, NEW confirmed, NEW x
  PROVE  /\ Plain(<<Staged(status, entered, confirmed)>>)
         /\ Plain(<<<<"request", x>>, Staged(status, entered, confirmed)>>)
         /\ Plain(<<<<"confirmed", x>>, Staged(status, entered, confirmed)>>)
         /\ Plain(<<<<"revised", x>>, <<"summary", "completed">>, Staged(status, entered, confirmed)>>)
         /\ Plain(<<Staged(status, entered, confirmed), <<"summary", "failed">>>>)
<1> DEFINE e == Staged(status, entered, confirmed)
           request == <<"request", x>>
           confirm == <<"confirmed", x>>
           revise == <<"revised", x>>
           completed == <<"summary", "completed">>
           failed == <<"summary", "failed">>
           three == <<revise, completed, e>>
<1>1. e[1] = "stage" BY DEF Staged
<1>2. /\ request[1] = "request" /\ confirm[1] = "confirmed" /\ revise[1] = "revised"
      /\ completed[1] = "summary" /\ failed[1] = "summary"
  OBVIOUS
<1> HIDE DEF e, request, confirm, revise, completed, failed
<1>3. Plain(<<e>>) BY <1>1, PlainOneOrTwo
<1>4. Plain(<<request, e>>) BY <1>1, <1>2, PlainOneOrTwo
<1>5. Plain(<<confirm, e>>) BY <1>1, <1>2, PlainOneOrTwo
<1>6. Plain(<<e, failed>>) BY <1>1, <1>2, PlainOneOrTwo
<1>7. three \in Seq({revise, completed, e}) /\ three # <<>> OBVIOUS
<1>8. DOMAIN three = {1, 2, 3} /\ three[1] = revise /\ three[2] = completed /\ three[3] = e
  OBVIOUS
<1> HIDE DEF three
<1>9. Plain(three) BY <1>1, <1>2, <1>7, <1>8 DEF Plain, IsTodo
<1> QED BY <1>3, <1>4, <1>5, <1>6, <1>9 DEF e, request, confirm, revise, completed, failed, three

LEMMA RevisionRequestSafe ==
  ASSUME RevisionInv, FilesInv, AnswersInv, NEW c \in Callers, MayMove(c), RevisionRequest(c)
  PROVE  AnswersInv'
<1>1. ASSUME NEW k, DOMAIN k = CallFields, k.where = "server", NEW todo, Plain(todo),
             NEW then \in {"end", "generate", "llm"}, Begin(c, k, todo, then, TRUE),
             told'.answers = told.answers
      PROVE  AnswersInv'
  <2>1. Writes(c, k, todo, then) /\ UNCHANGED job /\ UNCHANGED files /\ ~Writing(call[c])
    BY <1>1, Begins
  <2> QED BY <1>1, <2>1, PlainWrites
<1>2. DOMAIN Blank = CallFields /\ Blank.where = "server" BY DEF Blank, CallFields
<1>3. ASSUME NEW todo, Plain(todo), NEW then \in {"end", "generate"}, Begin(c, Blank, todo, then, TRUE),
             NEW entered, NEW confirmed, TellRevision(entered, confirmed)
      PROVE  AnswersInv'
  <2>1. told'.answers = told.answers BY <1>3, ToldFields
  <2> HIDE DEF Blank
  <2> QED BY <1>1, <1>2, <1>3, <2>1
<1>4. ASSUME NEW enter, Decide(c, enter) PROVE AnswersInv'
  BY <1>3, <1>4, PlainLists DEF Decide
<1>5. CASE Input(c) BY <1>3, <1>5, PlainLists DEF Input
<1>6. CASE Confirm(c) BY <1>3, <1>6, PlainLists DEF Confirm
<1>7. CASE Continue(c) BY <1>3, <1>7, PlainLists DEF Continue
<1>8. CASE Generate(c)
  <2>1. DOMAIN Running(Blank) = CallFields /\ Running(Blank).where = "server"
    BY DEF Running, Blank, CallFields
  <2>2. Plain(RunningTodo) BY PlainLists DEF RunningTodo
  <2>3. told'.answers = told.answers BY <1>8 DEF Generate
  <2> QED BY <1>1, <1>8, <2>1, <2>2, <2>3 DEF Generate
<1>9. ASSUME NEW more, Regenerate(c, more) PROVE AnswersInv'
  BY <1>3, <1>9, PlainLists DEF Regenerate
<1> QED BY <1>4, <1>5, <1>6, <1>7, <1>8, <1>9 DEF RevisionRequest

LEMMA AnswerSafe ==
  ASSUME RevisionInv, FilesInv, AnswersInv, NEW c \in Callers, MayMove(c), NEW g,
         Answer(c, g, "server")
  PROVE  AnswersInv'
<1> DEFINE r == Answered(files.report, g)
           todo == <<<<"report", r>>, <<"copy", r.answers>>>>
           k == [[Blank EXCEPT !.where = "server"] EXCEPT !.at = "open", !.todo = todo, !.then = "end"]
<1>1. Begin(c, [Blank EXCEPT !.where = "server"], todo, "end", TRUE) /\ Tell(g)
  BY DEF Answer, AnswerTodo
<1>2. UNCHANGED job /\ UNCHANGED files /\ ~Writing(call[c]) /\ call' = [call EXCEPT ![c] = k]
  <2> HIDE DEF r, todo
  <2>1. /\ UNCHANGED job /\ UNCHANGED files /\ ~Writing(call[c])
        /\ Writes(c, [Blank EXCEPT !.where = "server"], todo, "end")
    BY <1>1, Begins
  <2> QED BY <2>1 DEF Writes
<1>3. \A d \in Callers \ {c} : ~Busy(call[d]) BY NoOthers
<1>4. Carries(files.report, told.answers) BY <1>2, <1>3, NothingPending
<1>5. IsAnswers(told.answers) BY DEF AnswersInv
<1>6. told'.answers = Joined(g, told.answers) BY <1>1 DEF Tell, Joined, FilesInv
<1>7. IsAnswers(told'.answers) BY <1>5, <1>6, AnswersJoin
<1>8. Carries(r, told'.answers) BY <1>4, <1>5, <1>6, AnsweredCarries
<1>9. r.answers = told'.answers BY <1>8 DEF Carries
<1> HIDE DEF r
<1>10. /\ IsTodo(todo) /\ DOMAIN todo = {1, 2}
       /\ todo[1] = <<"report", r>> /\ todo[2] = <<"copy", r.answers>>
  BY OneOrTwo
<1>11. /\ DOMAIN k = CallFields /\ k.where = "server" /\ k.at = "open" /\ k.then = "end"
       /\ k.todo = todo
  BY DEF Blank, CallFields
<1> HIDE DEF k, todo
<1>12. \A i \in DOMAIN todo : EntryFits(todo[i], told'.answers) BY <1>8, <1>9, <1>10 DEF EntryFits
<1>13. SafeCall(k, told'.answers) BY <1>10, <1>11, <1>12 DEF SafeCall
<1>14. Writing(k) /\ Mentions(k, "report") /\ Mentions(k, "copy")
  BY <1>10, <1>11 DEF Writing, Mentions
<1> QED BY <1>2, <1>3, <1>7, <1>13, <1>14, SafeStep

(* The other steps of the calls. *)
LEMMA RunStepSafe ==
  ASSUME RevisionInv, FilesInv, AnswersInv, NEW c \in Callers, MayMove(c), StepOfRun(c)
  PROVE  AnswersInv'
<1>1. ASSUME NEW step, step \notin {"none", "open", "fill"}, In(c, step)
      PROVE  /\ SafeCall(call[c], told.answers) /\ call[c].at = step /\ ~Writing(call[c])
             /\ Carries(files.report, told.answers) /\ files.copy = told.answers
  <2>1. SafeCall(call[c], told.answers) /\ call[c].at = step /\ ~Writing(call[c])
    BY <1>1 DEF In, AnswersInv, NoCall, Writing
  <2> QED BY <2>1, NoOthers, NothingPending
<1>2. ASSUME NEW step \in {"look", "reread", "prompting", "patching"}, In(c, step) PROVE FALSE
  BY <1>1, <1>2 DEF SafeCall
<1>3. ASSUME NEW step \in {"generate", "list"}, In(c, step), End(c), UNCHANGED <<job, told, files>>
      PROVE  AnswersInv'
  BY <1>1, <1>3, DoneWriting DEF End
<1>4. CASE Look(c) \/ Reread(c) \/ Prompted(c) \/ Patched(c)
  BY <1>2, <1>4 DEF Look, Reread, Prompted, Patched
<1>5. CASE GenerateNow(c)
  <2>1. In(c, "generate") /\ UNCHANGED <<job, told, files>> BY <1>5 DEF GenerateNow
  <2>2. CASE End(c) BY <1>3, <2>1, <2>2
  <2>3. CASE Writes(c, Running(call[c]), RunningTodo, "llm")
    <3> DEFINE k == Running(call[c])
    <3>1. SafeCall(call[c], told.answers) /\ ~Writing(call[c]) BY <1>1, <2>1
    <3>2. DOMAIN k = CallFields /\ k.where = "server" BY <3>1 DEF Running, SafeCall, CallFields
    <3>3. Plain(RunningTodo) BY PlainLists DEF RunningTodo
    <3>4. told'.answers = told.answers BY <2>1
    <3> HIDE DEF k
    <3>5. Writes(c, k, RunningTodo, "llm") BY <2>3 DEF k
    <3> QED BY <2>1, <3>1, <3>2, <3>3, <3>4, <3>5, PlainWrites
  <2> QED BY <1>5, <2>2, <2>3 DEF GenerateNow
<1>6. ASSUME In(c, "llm"), UNCHANGED <<job, told, files>>, NEW todo, Plain(todo),
             NEW then \in {"end", "list"}, Writes(c, call[c], todo, then)
      PROVE  AnswersInv'
  <2>1. /\ DOMAIN call[c] = CallFields /\ call[c].where = "server" /\ ~Writing(call[c])
        /\ told'.answers = told.answers
    BY <1>1, <1>6 DEF SafeCall
  <2> QED BY <1>6, <2>1, PlainWrites
<1>7. CASE Generated(c) BY <1>6, <1>7, PlainLists DEF Generated, Outcome
<1>8. CASE GenerationFailed(c) BY <1>6, <1>8, PlainLists DEF GenerationFailed, Outcome
<1>9. CASE ListArtifacts(c)
  <2>1. In(c, "list") /\ UNCHANGED <<job, told, files>> BY <1>9 DEF ListArtifacts
  <2>2. CASE End(c) BY <1>3, <2>1, <2>2
  <2>3. CASE Writes(c, call[c], <<<<"report", Listed(files.report)>>>>, "end")
    <3> DEFINE r == Listed(files.report)
               todo == <<<<"report", r>>>>
               k == [call[c] EXCEPT !.at = "open", !.todo = todo, !.then = "end"]
    <3>1. /\ SafeCall(call[c], told.answers)
          /\ Carries(files.report, told.answers) /\ files.copy = told.answers
      BY <1>1, <2>1
    <3>2. /\ DOMAIN r = ReportFields /\ r.answers = files.report.answers
          /\ r.findings = files.report.findings
      BY <3>1 DEF Listed, Carries, ReportFields
    <3> HIDE DEF r
    <3>3. Carries(r, told.answers) BY <3>1, <3>2 DEF Carries, FindingsFollow
    <3>4. IsTodo(todo) /\ DOMAIN todo = {1} /\ todo[1] = <<"report", r>> BY OneOrTwo
    <3>5. call' = [call EXCEPT ![c] = k] BY <2>3 DEF Writes, r
    <3>6. /\ DOMAIN k = CallFields /\ k.where = "server" /\ k.at = "open" /\ k.then = "end"
          /\ k.todo = todo
      BY <3>1 DEF SafeCall, CallFields
    <3> HIDE DEF k, todo
    <3>7. \A i \in DOMAIN todo : EntryFits(todo[i], told.answers) BY <3>3, <3>4 DEF EntryFits
    <3>8. SafeCall(k, told.answers) BY <3>4, <3>6, <3>7 DEF SafeCall
    <3> QED BY <2>1, <3>1, <3>5, <3>8, DoneWriting
  <2> QED BY <1>9, <2>2, <2>3 DEF ListArtifacts
<1> QED BY <1>4, <1>5, <1>7, <1>8, <1>9, OpenSafe, FillSafe DEF StepOfRun

(* The calls on versions start no patch, and write none. *)
LEMMA VersionsSafe ==
  ASSUME RevisionInv, AnswersInv, NEW c \in Callers, UNCHANGED revars,
         \/ StepOfPatch(c) \/ StepOfCall(c)
         \/ \E op \in {"derive", "roadmap", "review"}, v \in DOMAIN versions : VersionCall(c, op, v)
  PROVE  AnswersInv'
<1>1. /\ DOMAIN job = Callers /\ (job[c] # NoCall => job[c].at \notin {"patch", "write"})
  BY DEF RevisionInv, VersionsInv, AnswersInv
<1>2. ~At(c, "patch") /\ ~At(c, "write") BY <1>1 DEF At, NoCall
<1>3. job'[c] # NoCall => job'[c].at \notin {"patch", "write"}
  <2>1. ASSUME NEW step \in Unissued \cup Issued \cup {"blind_save"}, At(c, step)
        PROVE  DOMAIN job[c] = JobFields
    BY <2>1, SomeAt DEF RevisionInv, JobFits
  <2> USE DEF Unissued, Issued
  <2>2. CASE PatchInsert(c)
    <3>1. At(c, "insert") BY <2>2 DEF PatchInsert
    <3> QED BY <1>1, <2>1, <2>2, <3>1 DEF PatchInsert, Goto, JobFields, InsertRow, Over
  <2>3. CASE PatchMerge(c)
    <3>1. At(c, "merge") BY <2>3 DEF PatchMerge
    <3> QED BY <1>1, <2>1, <2>3, <3>1 DEF PatchMerge, Goto, JobFields
  <2>4. CASE PatchSave(c)
    <3>1. At(c, "save") BY <2>4 DEF PatchSave
    <3> QED BY <1>1, <2>1, <2>4, <3>1 DEF PatchSave, Goto, JobFields, Over
  <2>5. CASE DeriveLoad(c)
    <3>1. At(c, "derive") BY <2>5 DEF DeriveLoad
    <3> QED BY <1>1, <2>1, <2>5, <3>1 DEF DeriveLoad, Goto, JobFields, Issue, Leave
  <2>6. CASE DeriveInsert(c)
    <3>1. At(c, "derive_insert") BY <2>6 DEF DeriveInsert
    <3> QED BY <1>1, <2>1, <2>6, <3>1 DEF DeriveInsert, Goto, JobFields
  <2>7. CASE RoadmapLoad(c)
    <3>1. At(c, "roadmap") BY <2>7 DEF RoadmapLoad
    <3> QED BY <1>1, <2>1, <2>7, <3>1 DEF RoadmapLoad, Goto, JobFields, Leave
  <2>8. CASE BlindSave(c)
    <3>1. At(c, "blind_save") BY <2>8 DEF BlindSave
    <3> QED BY <1>1, <2>1, <2>8, <3>1 DEF BlindSave, Goto, JobFields, Leave
  <2>9. CASE ReviewDone(c)
    <3>1. At(c, "review") BY <2>9 DEF ReviewDone
    <3> QED BY <1>1, <2>1, <2>9, <3>1 DEF ReviewDone, Goto, JobFields
  <2>10. CASE ReviewFailed(c)
    <3>1. At(c, "review") BY <2>10 DEF ReviewFailed
    <3> QED BY <1>1, <2>1, <2>10, <3>1 DEF ReviewFailed, Goto, JobFields, Leave
  <2>11. CASE ReviewList(c)
    <3>1. At(c, "review_list") BY <2>11 DEF ReviewList
    <3> QED BY <1>1, <2>1, <2>11, <3>1 DEF ReviewList, Goto, JobFields, Issue, Leave
  <2>12. CASE ReviewInsert(c)
    <3>1. At(c, "review_insert") BY <2>12 DEF ReviewInsert
    <3> QED BY <1>1, <2>1, <2>12, <3>1 DEF ReviewInsert, Goto, JobFields, InsertRow, Leave
  <2>13. CASE ReviewMerge(c)
    <3>1. At(c, "review_merge") BY <2>13 DEF ReviewMerge
    <3> QED BY <1>1, <2>1, <2>13, <3>1 DEF ReviewMerge, Goto, JobFields, Leave
  <2>14. CASE ReviewSave(c)
    <3>1. At(c, "review_save") BY <2>14 DEF ReviewSave
    <3> QED BY <1>1, <2>1, <2>14, <3>1 DEF ReviewSave, Goto, JobFields, Leave
  <2>15. CASE ReviewLink(c)
    <3>1. At(c, "link") BY <2>15 DEF ReviewLink
    <3> QED BY <1>1, <2>1, <2>15, <3>1 DEF ReviewLink, Goto, JobFields, Leave
  <2>16. ASSUME NEW op \in {"derive", "roadmap", "review"}, NEW v \in DOMAIN versions, VersionCall(c, op, v)
        PROVE  job'[c].at = op
    BY <1>1, <2>16 DEF VersionCall, Goto, Started
  <2> QED
    BY <1>2, <2>2, <2>3, <2>4, <2>5, <2>6, <2>7, <2>8, <2>9, <2>10, <2>11, <2>12, <2>13, <2>14, <2>15, <2>16
    DEF StepOfPatch, StepOfCall, PatchRejected, PatchOpen, PatchRaised, PatchWrite
<1>4. \A d \in Callers \ {c} : job'[d] = job[d]
  BY <1>1
  DEF StepOfPatch, StepOfCall, PatchRejected, PatchOpen, PatchRaised, PatchWrite, PatchInsert,
      PatchMerge, PatchSave, DeriveLoad, DeriveInsert, RoadmapLoad, BlindSave, ReviewDone,
      ReviewFailed, ReviewList, ReviewInsert, ReviewMerge, ReviewSave, ReviewLink, VersionCall,
      InsertRow, Issue, Over, Leave, Goto
<1>5. UNCHANGED call /\ UNCHANGED files /\ UNCHANGED told BY DEF revars
<1>6. \A d \in Callers : job'[d] # NoCall => job'[d].at \notin {"patch", "write"}
  BY <1>3, <1>4 DEF AnswersInv
<1> QED BY <1>5, <1>6 DEF AnswersInv

LEMMA FilesKeepTheirNames ==
  ASSUME FilesInv, [Next]_vars
  PROVE  FilesInv'
<1>1. CASE UNCHANGED files /\ UNCHANGED told BY <1>1 DEF FilesInv
<1>2. ASSUME NEW c \in Callers, StepOfRun(c) PROVE FilesInv'
  <2>1. UNCHANGED told
    BY <1>2 DEF StepOfRun, Open, Fill, Look, Reread, Prompted, Patched, GenerateNow, Generated,
                GenerationFailed, ListArtifacts
  <2>2. UNCHANGED files \/ \E f, x : files' = [files EXCEPT ![f] = x]
    BY <1>2 DEF StepOfRun, Open, Fill, Look, Reread, Prompted, Patched, GenerateNow, Generated,
                GenerationFailed, ListArtifacts
  <2> QED BY <2>1, <2>2 DEF FilesInv
<1>3. ASSUME NEW c \in Callers, NEW where, AnswerRequest(c, where) \/ RevisionRequest(c)
      PROVE  FilesInv'
  <2>1. UNCHANGED files
    BY <1>3 DEF AnswerRequest, Answer, AnswerAsync, RevisionRequest, Decide, Input, Confirm,
                Continue, Generate, Regenerate, Begin
  <2>2. \/ UNCHANGED told \/ \E g : Tell(g)
        \/ \E entered, confirmed : TellRevision(entered, confirmed)
    BY <1>3 DEF AnswerRequest, Answer, AnswerAsync, RevisionRequest, Decide, Input, Confirm,
                Continue, Generate, Regenerate
  <2> QED BY <2>1, <2>2 DEF FilesInv, Tell, TellRevision
<1> QED
  BY <1>1, <1>2, <1>3 DEF Next, VersionCall, Crash, vars, revars

LEMMA SafeStarts == Init => SafeInv
<1> SUFFICES ASSUME Init PROVE SafeInv OBVIOUS
<1>1. RevisionInv BY RevisionStarts
<1>2. /\ files.report = FirstReport /\ files.copy = NoAnswers /\ told.answers = NoAnswers
      /\ FilesInv
  BY DEF Init, RevisionInit, FilesInv, FileNames
<1>3. /\ \A c \in Callers : call[c] = NoCall /\ job[c] = NoCall
  BY DEF Init, AInit, RevisionInit
<1>4. IsAnswers(NoAnswers) BY DEF IsAnswers, NoAnswers
<1>5. Carries(FirstReport, NoAnswers)
  <2>1. /\ DOMAIN FirstReport = ReportFields /\ FirstReport.answers = NoAnswers
        /\ DOMAIN FirstReport.findings = Findings
        /\ \A f \in Findings : FirstReport.findings[f] =
             [says |-> Missing, original |-> Missing, severity |-> "high"]
    BY DEF FirstReport, ReportFields
  <2>2. DOMAIN NoAnswers = {} BY DEF NoAnswers
  <2> HIDE DEF FirstReport
  <2>3. \A f \in Findings : FindingFits(FirstReport.findings[f]) BY <2>1 DEF FindingFits
  <2>4. FindingsFollow(FirstReport) BY <2>1, <2>2 DEF FindingsFollow
  <2> QED BY <2>1, <2>3, <2>4 DEF Carries
<1>6. AnswersInv BY <1>2, <1>3, <1>4, <1>5 DEF AnswersInv, Busy
<1> QED BY <1>1, <1>2, <1>6 DEF SafeInv

LEMMA SafeKeeps == SafeInv /\ [Next]_vars => SafeInv'
<1> SUFFICES ASSUME SafeInv, [Next]_vars PROVE SafeInv' OBVIOUS
<1>1. RevisionInv' /\ FilesInv' BY RevisionKeeps, FilesKeepTheirNames DEF SafeInv
<1> SUFFICES ASSUME safe' PROVE AnswersInv' BY <1>1 DEF SafeInv
<1>2. ASSUME safe PROVE RevisionInv /\ FilesInv /\ AnswersInv BY <1>2 DEF SafeInv
<1>3. CASE UNCHANGED vars
  <2>1. safe BY <1>3 DEF vars, revars
  <2>2. UNCHANGED <<call, job, files, told>> BY <1>3 DEF vars, avars, revars
  <2> QED BY <1>2, <2>1, <2>2 DEF AnswersInv
<1>4. ASSUME NEW c \in Callers, NEW where, AnswerRequest(c, where), where = "server" => MayMove(c)
      PROVE  AnswersInv'
  <2>1. ASSUME NEW g, NEW then, NEW v, AnswerAsync(c, g, then, v, where) PROVE FALSE
    BY <2>1, Begins DEF AnswerAsync
  <2>2. ASSUME NEW g, Answer(c, g, where) PROVE safe /\ where = "server"
    BY <2>2, Begins DEF Answer
  <2>3. PICK g : Answer(c, g, where) BY <1>4, <2>1 DEF AnswerRequest
  <2> QED BY <1>2, <1>4, <2>2, <2>3, AnswerSafe
<1>5. ASSUME NEW c \in Callers, MayMove(c), RevisionRequest(c) PROVE AnswersInv'
  <2>1. safe
    BY <1>5, Begins DEF RevisionRequest, Decide, Input, Confirm, Continue, Generate, Regenerate
  <2> QED BY <1>2, <1>5, <2>1, RevisionRequestSafe
<1>6. ASSUME NEW c \in Callers, MayMove(c), StepOfRun(c) PROVE AnswersInv'
  <2>1. safe
    BY <1>6 DEF StepOfRun, Open, Fill, Look, Reread, Prompted, Patched, GenerateNow, Generated,
                GenerationFailed, ListArtifacts
  <2> QED BY <1>2, <1>6, <2>1, RunStepSafe
<1>7. ASSUME NEW c \in Callers, UNCHANGED revars, StepOfPatch(c) \/ StepOfCall(c) PROVE AnswersInv'
  <2>1. safe BY <1>7 DEF revars
  <2> QED BY <1>2, <1>7, <2>1, VersionsSafe
<1>8. ASSUME NEW c \in Callers, NEW op \in {"derive", "roadmap", "review"},
             NEW v \in DOMAIN versions, VersionCall(c, op, v)
      PROVE  AnswersInv'
  <2>1. safe /\ UNCHANGED revars BY <1>8 DEF VersionCall, revars
  <2> QED BY <1>2, <1>8, <2>1, VersionsSafe
<1>9. ASSUME NEW where, Crash(where) PROVE FALSE BY <1>9 DEF Crash
<1> QED BY <1>3, <1>4, <1>5, <1>6, <1>7, <1>8, <1>9 DEF Next

(* Whatever else goes on, no answer is lost that comes to the server alone. *)
THEOREM AnswersStand == Spec => []AnswersKept
<1>1. SafeInv => AnswersKept
  <2> SUFFICES ASSUME SafeInv, safe, \A c \in Callers : ~HasLoop(c)
               PROVE  /\ files.report.answers = told.answers
                      /\ files.copy = told.answers
                      /\ FindingsFollow(files.report)
    BY DEF AnswersKept
  <2>1. AnswersInv BY DEF SafeInv
  <2>2. ASSUME NEW c \in Callers, Writing(call[c]) PROVE FALSE
    <3>1. call[c] # NoCall /\ SafeCall(call[c], told.answers)
      BY <2>1, <2>2, AtFile DEF NoCall, Writing
    <3>2. RunsIn(c) = "server" /\ call[c].at \notin Awaits
      BY <2>2, <3>1 DEF RunsIn, SafeCall, Writing, Awaits
    <3> QED BY <3>1, <3>2 DEF HasLoop
  <2>3. Carries(files.report, told.answers) /\ files.copy = told.answers
    BY <2>1, <2>2 DEF AnswersInv
  <2> QED BY <2>3 DEF Carries
<1> QED BY <1>1, SafeStarts, SafeKeeps, PTL DEF Spec

-----------------------------------------------------------------------------
(* Calls that come one after the other. *)

(* One coroutine is at a call; of the handlers, one with a patch starts another. *)
OneCall ==
  /\ \A c, d \in Callers : c # d /\ ~Idle(c) => Idle(d)
  /\ \A c \in Callers : call[c] # NoCall /\ job[c] # NoCall => call[c].at = "patching"

(* Each pointer is at the version of its artifact made last, of those in S. *)
PointsLast(current, table, S) ==
  \A k \in Keys : LET made == {v \in S : table[v].key = k}
                  IN current[k] \in {0} \cup made /\ \A v \in made : v <= current[k]

(* The workspace is up to date with the versions in S; if there is none, no *)
(* call has made anything of the first version.                             *)
UpToDate(w, plan, table, S) ==
  /\ w # Missing => /\ w \in [current : [Keys -> Nat], roadmap : Nat]
                    /\ PointsLast(w.current, table, S) /\ w.roadmap = plan
  /\ w = Missing => S = {1} /\ table[1].key = Prd /\ plan = 0

Saving == {"save", "blind_save", "review_save"}

(* The versions of the others: while its call is under way, the workspace is *)
(* behind by the row of that call only, and what it is to save is not.       *)
Others(j, table) == {v \in DOMAIN table : v # j.id \/ j.at = "link"}

LoneJob(j, w, plan, table) ==
  /\ UpToDate(w, plan, table, Others(j, table))
  /\ j.run \in Nat
  /\ j.id # 0 => j.id # j.src /\ \A v \in DOMAIN table : v <= j.id
  /\ j.id # 0 /\ j.at \in Saving \cup {"merge", "review_merge", "link"} => j.id \in DOMAIN table
  /\ j.at \in {"insert", "merge"} => j.new.key = table[j.src].key
  /\ j.at = "derive_insert" =>
       w # Missing /\ j.copy.current = w.current /\ j.copy.roadmap = w.roadmap
  /\ j.at \in Saving =>
       /\ j.copy.current \in [Keys -> Nat] /\ j.copy.roadmap \in Nat
       /\ PointsLast(j.copy.current, table, DOMAIN table)
       /\ j.at # "blind_save" => j.copy.roadmap = plan

LoneVersions ==
  /\ \A c \in Callers : Under(job[c]) => LoneJob(job[c], workspace, planned, versions)
  /\ \A c \in Callers : job[c] # NoCall /\ job[c].at = "over" =>
       job[c].result \in {"rejected", "raised", "applied"}
  /\ (\A c \in Callers : ~Under(job[c])) => UpToDate(workspace, planned, versions, DOMAIN versions)

(* The files as they will be when the list is written. *)
Entry(todo, f) == todo[CHOOSE i \in DOMAIN todo : todo[i][1] = f][2]
AfterWrites(todo, now) ==
  [f \in FileNames |-> IF \E i \in DOMAIN todo : todo[i][1] = f THEN Entry(todo, f) ELSE now[f]]

Agrees(F, t) ==
  /\ F.report \in Reports /\ F.report.answers = t.answers /\ F.copy = t.answers
  /\ F.stage \in RevisionStages \cup {Missing}
  /\ F.stage = Missing => t.entered = FALSE /\ t.confirmed = Missing
  /\ F.stage # Missing =>
       /\ F.stage.entered = t.entered
       /\ t.confirmed = IF F.stage.confirmed THEN F.confirmed ELSE Missing
       /\ F.stage.status = "completed" => F.revised.extra = F.request

(* A generation at the model: what it was asked with, and the stage it read. *)
Generates(k, F, t) ==
  /\ t.entered = TRUE /\ k.seen.confirmed \in BOOLEAN
  /\ t.confirmed = IF k.seen.confirmed THEN F.confirmed ELSE Missing
  /\ k.draft.extra = F.request

NamesDiffer(todo) ==
  /\ \A i \in DOMAIN todo : todo[i][1] \in FileNames
  /\ \A i, j \in DOMAIN todo : todo[i][1] = todo[j][1] => i = j

LoneCall(k, now, t) ==
  LET F  == IF Writing(k) THEN AfterWrites(k.todo, now) ELSE now
      to == IF Writing(k) THEN k.then ELSE k.at
  IN /\ Writing(k) => IsTodo(k.todo) /\ NamesDiffer(k.todo)
     /\ Agrees(F, t)
     /\ to = "llm" => Generates(k, F, t)
     /\ k.at \in {"prompting", "patching"} => k.seen \in Reports /\ k.seen.answers = t.answers

LoneFiles ==
  /\ \A c \in Callers : call[c] # NoCall => LoneCall(call[c], files, told)
  /\ (\A c \in Callers : call[c] = NoCall) => Agrees(files, told)

AloneInv ==
  /\ RevisionInv /\ FilesInv /\ calls \in Nat /\ demand \in Demands
  /\ calm => OneCall /\ LoneVersions /\ LoneFiles

(* Only the rows in S matter. *)
LEMMA UpToDateStays ==
  ASSUME NEW w, NEW plan, NEW old, NEW new, NEW S, \A v \in S : new[v] = old[v],
         UpToDate(w, plan, old, S)
  PROVE  UpToDate(w, plan, new, S)
<1>1. ASSUME NEW current, PointsLast(current, old, S) PROVE PointsLast(current, new, S)
  <2>1. \A k \in Keys : {v \in S : new[v].key = k} = {v \in S : old[v].key = k} OBVIOUS
  <2> QED BY <1>1, <2>1 DEF PointsLast
<1>2. S = {1} => new[1] = old[1] OBVIOUS
<1> QED BY <1>1, <1>2 DEF UpToDate

(* The pointer to a row made last. *)
LEMMA RowIsLast ==
  ASSUME NEW current \in [Keys -> Nat], NEW table, NEW id \in DOMAIN table, NEW key \in Keys,
         table[id].key = key, id \in Nat, \A v \in DOMAIN table : v <= id,
         NEW S, S = DOMAIN table \ {id},
         \A k \in Keys \ {key} : LET made == {v \in S : table[v].key = k}
                                 IN current[k] \in {0} \cup made /\ \A v \in made : v <= current[k]
  PROVE  /\ [current EXCEPT ![key] = id] \in [Keys -> Nat]
         /\ PointsLast([current EXCEPT ![key] = id], table, DOMAIN table)
<1> DEFINE new == [current EXCEPT ![key] = id]
<1>1. /\ new \in [Keys -> Nat] /\ new[key] = id /\ \A k \in Keys \ {key} : new[k] = current[k]
  OBVIOUS
<1> HIDE DEF new
<1>2. \A k \in Keys \ {key} :
        {v \in DOMAIN table : table[v].key = k} = {v \in S : table[v].key = k}
  OBVIOUS
<1>3. PointsLast(new, table, DOMAIN table)
  <2> SUFFICES ASSUME NEW k \in Keys
               PROVE  LET made == {v \in DOMAIN table : table[v].key = k}
                      IN new[k] \in {0} \cup made /\ \A v \in made : v <= new[k]
    BY DEF PointsLast
  <2>1. CASE k = key BY <1>1, <2>1
  <2>2. CASE k # key BY <1>1, <1>2, <2>2
  <2> QED BY <2>1, <2>2
<1> QED BY <1>1, <1>3 DEF new

(* One call at a time: no other is at the versions. *)
LEMMA OthersRest ==
  ASSUME VersionsInv, OneCall, NEW c \in Callers, job[c] # NoCall
  PROVE  \A d \in Callers \ {c} : job[d] = NoCall
BY DEF OneCall, Idle

LEMMA LoneStep ==
  ASSUME VersionsInv, OneCall, NEW c \in Callers, Under(job[c]),
         NEW j, job' = [job EXCEPT ![c] = j],
         Under(j) => LoneJob(j, workspace', planned', versions'),
         ~Under(j) => /\ UpToDate(workspace', planned', versions', DOMAIN versions')
                      /\ j # NoCall => j.result \in {"rejected", "raised", "applied"}
  PROVE  LoneVersions'
<1>1. DOMAIN job' = Callers /\ job'[c] = j /\ \A d \in Callers \ {c} : job'[d] = job[d]
  BY DEF VersionsInv
<1>2. \A d \in Callers \ {c} : job'[d] = NoCall BY <1>1, OthersRest DEF Under
<1>3. \A d \in Callers : Under(job'[d]) => d = c BY <1>2 DEF Under
<1>4. \A d \in Callers : Under(job'[d]) => LoneJob(job'[d], workspace', planned', versions')
  BY <1>1, <1>3
<1>5. \A d \in Callers : job'[d] # NoCall /\ job'[d].at = "over" =>
        job'[d].result \in {"rejected", "raised", "applied"}
  BY <1>1, <1>2 DEF Under
<1>6. (\A d \in Callers : ~Under(job'[d])) => UpToDate(workspace', planned', versions', DOMAIN versions')
  BY <1>1
<1> QED BY <1>4, <1>5, <1>6 DEF LoneVersions, Under

LEMMA AloneAt ==
  ASSUME VersionsInv, LoneVersions, NEW c \in Callers,
         NEW step \in Unissued \cup Issued \cup {"blind_save"}, At(c, step)
  PROVE  /\ Under(job[c]) /\ job[c].at = step /\ JobFits(job[c], versions, issued)
         /\ Source(c) = versions[job[c].src] /\ VersionRow(Source(c), issued)
         /\ LoneJob(job[c], workspace, planned, versions)
         /\ issued \in Nat /\ DOMAIN versions \subseteq 1..issued
         /\ job[c].src \in DOMAIN versions
<1>1. Under(job[c]) /\ job[c].at = step /\ JobFits(job[c], versions, issued)
      /\ Source(c) = versions[job[c].src] /\ VersionRow(Source(c), issued)
  BY SomeAt
<1> QED BY <1>1 DEF LoneVersions, VersionsInv, TableFits, JobFits

(* A call that has made no row leaves the workspace up to date. *)
LEMMA NothingMade ==
  ASSUME VersionsInv, LoneVersions, NEW c \in Callers,
         NEW step \in Unissued \cup {"link"}, At(c, step)
  PROVE  /\ Others(job[c], versions) = DOMAIN versions
         /\ UpToDate(workspace, planned, versions, DOMAIN versions)
<1>1. /\ job[c].at = step /\ LoneJob(job[c], workspace, planned, versions)
      /\ JobFits(job[c], versions, issued) /\ DOMAIN versions \subseteq 1..issued /\ issued \in Nat
  BY AloneAt DEF Issued
<1>2. step # "link" => job[c].id = 0 BY <1>1 DEF JobFits
<1>3. Others(job[c], versions) = DOMAIN versions BY <1>1, <1>2 DEF Others
<1> QED BY <1>1, <1>3 DEF LoneJob

(* A call that writes no row goes on or ends. *)
LEMMA LonePasses ==
  ASSUME VersionsInv, OneCall, LoneVersions, NEW c \in Callers,
         NEW step \in Unissued \cup {"link"}, At(c, step),
         UNCHANGED versions, UNCHANGED workspace, UNCHANGED planned,
         NEW j, job' = [job EXCEPT ![c] = j],
         \/ step # "link" /\ j.at \in Unissued /\ j.id = job[c].id /\ j.run = job[c].run
         \/ j = NoCall
         \/ \E result \in {"rejected", "raised", "applied"} : j = [at |-> "over", result |-> result]
  PROVE  LoneVersions'
<1>1. /\ Under(job[c]) /\ job[c].at = step /\ LoneJob(job[c], workspace, planned, versions)
      /\ JobFits(job[c], versions, issued)
  BY AloneAt DEF Issued
<1>2. /\ Others(job[c], versions) = DOMAIN versions
      /\ UpToDate(workspace, planned, versions, DOMAIN versions)
  BY NothingMade
<1>3. ASSUME NEW at \in Unissued, j.at = at, step # "link", j.id = job[c].id, j.run = job[c].run
      PROVE  LoneJob(j, workspace', planned', versions') /\ Under(j)
  <2>1. j.id = 0 /\ j.run = job[c].run /\ j.at = at BY <1>1, <1>3 DEF JobFits
  <2>2. Others(j, versions) = DOMAIN versions
    BY <1>1, <1>2, <1>3, <2>1 DEF Others
  <2>3. at \notin {"insert", "merge", "derive_insert", "over"} \cup Saving BY DEF Unissued, Saving
  <2>4. at # "none" /\ at # "over" BY DEF Unissued
  <2>5. NoCall.at = "none" BY DEF NoCall
  <2> QED BY <1>1, <1>2, <2>1, <2>2, <2>3, <2>4, <2>5 DEF LoneJob, Under
<1> QED BY <1>1, <1>2, <1>3, LoneStep, OverAreNot

LEMMA LonePatchEnds ==
  ASSUME VersionsInv, OneCall, LoneVersions, NEW c \in Callers, NEW key, NEW base, NEW ops,
         PatchRejected(c, key, base, ops) \/ PatchRaised(c)
  PROVE  LoneVersions'
<1>1. PICK result \in {"rejected", "raised", "applied"} :
        /\ At(c, "patch") /\ UNCHANGED versions /\ UNCHANGED workspace /\ UNCHANGED planned
        /\ job' = [job EXCEPT ![c] = [at |-> "over", result |-> result]]
  BY DEF PatchRejected, PatchRaised, Over, Goto, rows
<1> QED BY <1>1, LonePasses DEF Unissued

LEMMA LonePatchOpens ==
  ASSUME VersionsInv, OneCall, LoneVersions, NEW c \in Callers, NEW key, NEW base, NEW ops,
         PatchOpen(c, key, base, ops)
  PROVE  LoneVersions'
<1> DEFINE next == [version |-> disk[Source(c).path].version + 1,
                    blocks |-> ApplyPatch(disk[Source(c).path].blocks, ops)]
           j == [job[c] EXCEPT !.doc = next, !.at = "write"]
<1>1. /\ At(c, "patch") /\ job' = [job EXCEPT ![c] = j]
      /\ UNCHANGED versions /\ UNCHANGED workspace /\ UNCHANGED planned
  BY DEF PatchOpen, Goto, rows
<1>2. JobFits(job[c], versions, issued) BY <1>1, AloneAt DEF Unissued
<1> HIDE DEF next
<1>3. j.at = "write" /\ j.id = job[c].id /\ j.run = job[c].run BY <1>2 DEF JobFits, JobFields
<1> HIDE DEF j
<1>4. ASSUME NEW k, job' = [job EXCEPT ![c] = k], k.at = "write", k.id = job[c].id, k.run = job[c].run
      PROVE  LoneVersions'
  <2>1. k.at \in Unissued /\ "patch" \in Unissued \cup {"link"} /\ "patch" # "link"
    BY <1>4 DEF Unissued
  <2> QED BY <1>1, <1>4, <2>1, LonePasses
<1> QED BY <1>1, <1>3, <1>4

LEMMA LoneReviewGoesOn ==
  ASSUME VersionsInv, OneCall, LoneVersions, NEW c \in Callers,
         ReviewDone(c) \/ ReviewFailed(c) \/ ReviewLink(c)
  PROVE  LoneVersions'
<1> DEFINE j == [job[c] EXCEPT !.at = "review_list"]
<1>1. /\ UNCHANGED versions /\ UNCHANGED workspace /\ UNCHANGED planned
      /\ \/ At(c, "review") /\ job' = [job EXCEPT ![c] = j]
         \/ (At(c, "review") \/ At(c, "link")) /\ job' = [job EXCEPT ![c] = NoCall]
  BY DEF ReviewDone, ReviewFailed, ReviewLink, Goto, Leave, rows
<1>2. CASE At(c, "review") /\ job' = [job EXCEPT ![c] = j]
  <2>1. JobFits(job[c], versions, issued) BY <1>2, AloneAt DEF Unissued
  <2>2. j.at = "review_list" /\ j.id = job[c].id /\ j.run = job[c].run
    BY <2>1 DEF JobFits, JobFields
  <2> HIDE DEF j
  <2> QED BY <1>1, <1>2, <2>2, LonePasses DEF Unissued
<1>3. CASE (At(c, "review") \/ At(c, "link")) /\ job' = [job EXCEPT ![c] = NoCall]
  BY <1>1, <1>3, LonePasses DEF Unissued
<1> QED BY <1>1, <1>2, <1>3

(* A call is given the id of the row it is to make. *)
LEMMA LoneIssues ==
  ASSUME VersionsInv, OneCall, LoneVersions, NEW c \in Callers,
         NEW at \in Unissued, At(c, at), UNCHANGED versions, UNCHANGED workspace, UNCHANGED planned,
         NEW r, NEW j, NEW step \in {"insert", "derive_insert", "review_insert"},
         Issue(c, r, j, step),
         DOMAIN j = JobFields, j.src = job[c].src, j.run = job[c].run,
         step = "insert" => r.key = Source(c).key,
         step = "derive_insert" => workspace # Missing /\ j.copy = Copy
  PROVE  LoneVersions'
<1> DEFINE k == [j EXCEPT !.id = issued + 1, !.new = r, !.at = step]
<1>1. job' = [job EXCEPT ![c] = k] BY DEF Issue, Goto
<1>2. /\ Under(job[c]) /\ LoneJob(job[c], workspace, planned, versions)
      /\ issued \in Nat /\ DOMAIN versions \subseteq 1..issued
      /\ job[c].src \in DOMAIN versions /\ Source(c) = versions[job[c].src]
  BY AloneAt
<1>3. UpToDate(workspace, planned, versions, DOMAIN versions) BY NothingMade
<1>4. /\ k.id = issued + 1 /\ k.new = r /\ k.at = step /\ k.src = j.src /\ k.copy = j.copy
      /\ k.run = j.run
  BY DEF JobFields
<1> HIDE DEF k
<1>5. Others(k, versions) = DOMAIN versions BY <1>2, <1>4 DEF Others
<1>6. k.id # k.src /\ \A v \in DOMAIN versions : v <= k.id BY <1>2, <1>4
<1>7. k.at = "derive_insert" => /\ workspace # Missing /\ k.copy.current = workspace.current
                                /\ k.copy.roadmap = workspace.roadmap
  BY <1>4 DEF Copy
<1>8. k.at = "insert" => k.new.key = versions[k.src].key BY <1>2, <1>4
<1>9. k.run \in Nat BY <1>2, <1>4 DEF LoneJob
<1>10. LoneJob(k, workspace, planned, versions)
  BY <1>3, <1>4, <1>5, <1>6, <1>7, <1>8, <1>9 DEF LoneJob, Saving
<1>11. Under(k)
  <2>1. NoCall.at = "none" BY DEF NoCall
  <2> QED BY <1>4, <2>1 DEF Under
<1> QED BY <1>1, <1>2, <1>10, <1>11, LoneStep

LEMMA LoneIssue ==
  ASSUME VersionsInv, OneCall, LoneVersions, NEW c \in Callers,
         PatchWrite(c) \/ (calm' /\ DeriveLoad(c)) \/ (calm' /\ ReviewList(c))
  PROVE  LoneVersions'
<1>1. ASSUME NEW at \in Unissued, At(c, at)
      PROVE  /\ DOMAIN job[c] = JobFields
             /\ \A doc : /\ DOMAIN [job[c] EXCEPT !.doc = doc] = JobFields
                         /\ [job[c] EXCEPT !.doc = doc].src = job[c].src
                         /\ [job[c] EXCEPT !.doc = doc].run = job[c].run
             /\ \A w : /\ DOMAIN [job[c] EXCEPT !.copy = w] = JobFields
                       /\ [job[c] EXCEPT !.copy = w].src = job[c].src
                       /\ [job[c] EXCEPT !.copy = w].run = job[c].run
                       /\ [job[c] EXCEPT !.copy = w].copy = w
  BY <1>1, AloneAt DEF JobFits, JobFields
<1>2. CASE PatchWrite(c)
  <2> DEFINE r == [key |-> Source(c).key, number |-> Source(c).number + 1, parent |-> job[c].src,
                   path |-> PatchPath(job[c].doc), sum |-> job[c].doc]
             j == [job[c] EXCEPT !.doc = Missing]
  <2>1. /\ At(c, "write") /\ Issue(c, r, j, "insert")
        /\ UNCHANGED versions /\ UNCHANGED workspace /\ UNCHANGED planned
    BY <1>2 DEF PatchWrite, rows
  <2>2. /\ r.key = Source(c).key /\ DOMAIN j = JobFields /\ j.src = job[c].src
        /\ j.run = job[c].run /\ "write" \in Unissued
    BY <1>1, <2>1 DEF Unissued
  <2> HIDE DEF r, j
  <2> QED BY <2>1, <2>2, LoneIssues
<1>3. CASE calm' /\ DeriveLoad(c)
  <2> DEFINE r == [Source(c) EXCEPT !.number = Max(Numbers(Source(c).key)) + 1, !.parent = job[c].src]
             j == [job[c] EXCEPT !.copy = Copy]
  <2>1. /\ At(c, "derive") /\ UNCHANGED versions /\ UNCHANGED workspace /\ UNCHANGED planned
        /\ \/ workspace # Missing /\ Issue(c, r, j, "derive_insert")
           \/ job' = [job EXCEPT ![c] = NoCall]
    BY <1>3 DEF DeriveLoad, rows, Numbers, Leave, Goto
  <2>2. /\ DOMAIN j = JobFields /\ j.src = job[c].src /\ j.run = job[c].run /\ j.copy = Copy
        /\ "derive" \in Unissued
    BY <1>1, <2>1 DEF Unissued
  <2> HIDE DEF r, j
  <2>3. CASE job' = [job EXCEPT ![c] = NoCall] BY <2>1, <2>2, <2>3, LonePasses
  <2>4. CASE workspace # Missing /\ Issue(c, r, j, "derive_insert") BY <2>1, <2>2, <2>4, LoneIssues
  <2> QED BY <2>1, <2>3, <2>4
<1>4. CASE calm' /\ ReviewList(c)
  <2>1. /\ At(c, "review_list") /\ UNCHANGED versions /\ UNCHANGED workspace /\ UNCHANGED planned
        /\ \/ \E r : Issue(c, r, job[c], "review_insert")
           \/ job' = [job EXCEPT ![c] = NoCall]
    BY <1>4 DEF ReviewList, rows, Leave, Goto
  <2>2. DOMAIN job[c] = JobFields /\ "review_list" \in Unissued BY <1>1, <2>1 DEF Unissued
  <2>3. CASE job' = [job EXCEPT ![c] = NoCall] BY <2>1, <2>2, <2>3, LonePasses
  <2>4. CASE \E r : Issue(c, r, job[c], "review_insert") BY <2>1, <2>2, <2>4, LoneIssues
  <2> QED BY <2>1, <2>3, <2>4
<1> QED BY <1>2, <1>3, <1>4

(* The row is there; the workspace does not point at it yet. *)
LEMMA LoneInserts ==
  ASSUME VersionsInv, OneCall, LoneVersions, NEW c \in Callers, calm',
         PatchInsert(c) \/ ReviewInsert(c)
  PROVE  LoneVersions'
<1>1. PICK at \in {"insert", "review_insert"}, step \in {"merge", "review_merge"} :
        /\ At(c, at) /\ InsertRow(c, step) /\ UNCHANGED workspace /\ UNCHANGED planned
        /\ step = "merge" => at = "insert"
  BY DEF PatchInsert, ReviewInsert, Fault
<1> DEFINE j == [job[c] EXCEPT !.at = step]
<1>2. versions' = Put(job[c].id, job[c].new, versions) /\ job' = [job EXCEPT ![c] = j]
  BY <1>1 DEF InsertRow, Goto
<1>3. /\ Under(job[c]) /\ job[c].at = at /\ LoneJob(job[c], workspace, planned, versions)
      /\ JobFits(job[c], versions, issued) /\ job[c].src \in DOMAIN versions
      /\ issued \in Nat /\ DOMAIN versions \subseteq 1..issued
  BY <1>1, AloneAt DEF Issued
<1>4. /\ j.at = step /\ j.id = job[c].id /\ j.new = job[c].new /\ j.src = job[c].src
      /\ j.run = job[c].run /\ j.id # 0 /\ j.id \in Nat
  BY <1>3 DEF JobFits, JobFields, Issued
<1> HIDE DEF j
<1>5. /\ DOMAIN versions' = DOMAIN versions \cup {j.id} /\ versions'[j.id] = j.new
      /\ \A v \in DOMAIN versions \ {j.id} : versions'[v] = versions[v]
  <2>1. /\ DOMAIN versions' = DOMAIN versions \cup {job[c].id} /\ versions'[job[c].id] = job[c].new
        /\ \A v \in DOMAIN versions \ {job[c].id} : versions'[v] = versions[v]
    BY <1>2 DEF Put, Upon
  <2> QED BY <1>4, <2>1
<1>6. Others(j, versions') = Others(job[c], versions)
  BY <1>3, <1>4, <1>5 DEF Others
<1>7. UpToDate(workspace', planned', versions', Others(j, versions'))
  <2>1. \A v \in Others(job[c], versions) : versions'[v] = versions[v]
    BY <1>3, <1>4, <1>5 DEF Others
  <2> QED BY <1>1, <1>3, <1>6, <2>1, UpToDateStays DEF LoneJob
<1>8. j.id # j.src /\ \A v \in DOMAIN versions' : v <= j.id BY <1>3, <1>4, <1>5 DEF LoneJob
<1>9. j.at = "merge" => j.new.key = versions'[j.src].key
  BY <1>1, <1>3, <1>4, <1>5, <1>8 DEF LoneJob
<1>10. LoneJob(j, workspace', planned', versions')
  <2>1. j.run \in Nat /\ j.id \in DOMAIN versions' BY <1>3, <1>4, <1>5 DEF LoneJob
  <2> QED BY <1>4, <1>7, <1>8, <1>9, <2>1 DEF LoneJob, Saving
<1>11. Under(j)
  <2>1. NoCall.at = "none" BY DEF NoCall
  <2> QED BY <1>4, <2>1 DEF Under
<1> QED BY <1>2, <1>3, <1>10, <1>11, LoneStep

(* The row joins the workspace that was read, or the new one. *)
LEMMA LoneMerged ==
  ASSUME VersionsInv, OneCall, LoneVersions, NEW c \in Callers,
         NEW at \in {"merge", "review_merge"}, NEW step \in {"save", "review_save"}, At(c, at),
         UNCHANGED versions, UNCHANGED workspace, UNCHANGED planned,
         NEW w, job' = [job EXCEPT ![c] = [job[c] EXCEPT !.at = step, !.copy = With(w, job[c])]],
         DOMAIN w = {"current", "roadmap", "rows"},
         w.current \in [Keys -> Nat], w.roadmap \in Nat, w.roadmap = planned,
         \A k \in Keys \ {job[c].new.key} :
           LET made == {v \in Others(job[c], versions) : versions[v].key = k}
           IN w.current[k] \in {0} \cup made /\ \A v \in made : v <= w.current[k]
  PROVE  LoneVersions'
<1> DEFINE copy == With(w, job[c])
           j == [job[c] EXCEPT !.at = step, !.copy = copy]
           id == job[c].id
           key == job[c].new.key
<1>1. /\ Under(job[c]) /\ job[c].at = at /\ LoneJob(job[c], workspace, planned, versions)
      /\ JobFits(job[c], versions, issued)
  BY AloneAt DEF Issued
<1>2. /\ id \in DOMAIN versions /\ id \in Nat /\ id # 0 /\ key \in Keys
      /\ versions[id].key = key /\ \A v \in DOMAIN versions : v <= id
  <2>1. id # 0 BY <1>1 DEF JobFits, Issued
  <2>2. id \in DOMAIN versions BY <1>1, <2>1 DEF LoneJob
  <2>3. id \in Nat BY <1>1, <2>1 DEF JobFits
  <2> QED BY <1>1, <2>1, <2>2, <2>3 DEF JobFits, LoneJob, VersionRow
<1>3. Others(job[c], versions) = DOMAIN versions \ {id} BY <1>1 DEF Others
<1>4. copy.current = [w.current EXCEPT ![key] = id] /\ copy.roadmap = w.roadmap BY DEF With
<1>5. /\ j.at = step /\ j.copy = copy /\ j.id = id /\ j.new = job[c].new /\ j.src = job[c].src
      /\ j.run = job[c].run
  BY <1>1 DEF JobFits, JobFields
<1>6. job' = [job EXCEPT ![c] = j] OBVIOUS
<1> HIDE DEF copy, j
<1>7. copy.current \in [Keys -> Nat] /\ PointsLast(copy.current, versions, DOMAIN versions)
  <2> DEFINE S == Others(job[c], versions)
             current == w.current
  <2>1. \A k \in Keys \ {key} : LET made == {v \in S : versions[v].key = k}
                                IN current[k] \in {0} \cup made /\ \A v \in made : v <= current[k]
    OBVIOUS
  <2>2. S = DOMAIN versions \ {id} BY <1>3
  <2>3. current \in [Keys -> Nat] OBVIOUS
  <2> HIDE DEF S, id, key, current
  <2>4. /\ [current EXCEPT ![key] = id] \in [Keys -> Nat]
        /\ PointsLast([current EXCEPT ![key] = id], versions, DOMAIN versions)
    BY <1>2, <2>1, <2>2, <2>3, RowIsLast
  <2> QED BY <1>4, <2>4 DEF current
<1>8. Others(j, versions) = Others(job[c], versions) BY <1>1, <1>5 DEF Others
<1>9. LoneJob(j, workspace, planned, versions)
  <2>1. UpToDate(workspace, planned, versions, Others(j, versions)) BY <1>1, <1>8 DEF LoneJob
  <2>2. j.id # j.src /\ j.run \in Nat BY <1>1, <1>2, <1>5 DEF LoneJob
  <2> QED BY <1>2, <1>4, <1>5, <1>7, <2>1, <2>2 DEF LoneJob, Saving
<1>10. Under(j)
  <2>1. NoCall.at = "none" BY DEF NoCall
  <2> QED BY <1>5, <2>1 DEF Under
<1> QED BY <1>1, <1>6, <1>9, <1>10, LoneStep

LEMMA LoneMerges ==
  ASSUME VersionsInv, OneCall, LoneVersions, NEW c \in Callers, calm',
         PatchMerge(c) \/ ReviewMerge(c)
  PROVE  LoneVersions'
<1> DEFINE none == [current |-> NoPointers, roadmap |-> 0, rows |-> Put(job[c].src, Source(c), <<>>)]
           anew == [current |-> [NoPointers EXCEPT ![Source(c).key] = job[c].src],
                    roadmap |-> 0, rows |-> Put(job[c].src, Source(c), <<>>)]
           Goes(step, w) == job' = [job EXCEPT ![c] = [job[c] EXCEPT !.at = step, !.copy = With(w, job[c])]]
<1>1. /\ UNCHANGED versions /\ UNCHANGED workspace /\ UNCHANGED planned
      /\ \/ At(c, "merge") /\ workspace = Missing /\ Goes("save", none)
         \/ At(c, "merge") /\ workspace # Missing /\ Goes("save", Copy)
         \/ At(c, "review_merge") /\ workspace = Missing /\ Goes("review_save", anew)
         \/ At(c, "review_merge") /\ workspace # Missing /\ Goes("review_save", Copy)
  BY DEF PatchMerge, ReviewMerge, Fault, Goto, rows
<1>2. PICK at \in {"merge", "review_merge"} : At(c, at) BY <1>1
<1>3. /\ job[c].at = at /\ LoneJob(job[c], workspace, planned, versions)
      /\ JobFits(job[c], versions, issued) /\ Source(c) = versions[job[c].src]
      /\ job[c].src \in DOMAIN versions /\ job[c].id # 0
  BY <1>2, AloneAt DEF Issued, JobFits
<1>4. UpToDate(workspace, planned, versions, Others(job[c], versions)) BY <1>3 DEF LoneJob
<1>5. CASE workspace # Missing
  <2> DEFINE w == Copy
  <2>1. /\ DOMAIN w = {"current", "roadmap", "rows"} /\ w.current = workspace.current
        /\ w.roadmap = workspace.roadmap
    BY DEF Copy
  <2>2. PICK step \in {"save", "review_save"} : Goes(step, w) BY <1>1, <1>5
  <2> HIDE DEF w
  <2>3. w.current \in [Keys -> Nat] /\ w.roadmap \in Nat /\ w.roadmap = planned
    BY <1>4, <1>5, <2>1 DEF UpToDate
  <2>4. \A k \in Keys \ {job[c].new.key} :
          LET made == {v \in Others(job[c], versions) : versions[v].key = k}
          IN w.current[k] \in {0} \cup made /\ \A v \in made : v <= w.current[k]
    BY <1>4, <1>5, <2>1 DEF UpToDate, PointsLast
  <2> QED BY <1>1, <1>2, <2>1, <2>2, <2>3, <2>4, LoneMerged
<1>6. CASE workspace = Missing
  <2>1. Others(job[c], versions) = {1} /\ versions[1].key = Prd /\ planned = 0
    BY <1>4, <1>6 DEF UpToDate
  <2>2. job[c].src = 1 BY <1>3, <2>1 DEF Others, LoneJob
  <2>3. /\ DOMAIN none = {"current", "roadmap", "rows"} /\ none.roadmap = 0
        /\ none.current = NoPointers
        /\ DOMAIN anew = {"current", "roadmap", "rows"} /\ anew.roadmap = 0
        /\ anew.current = [NoPointers EXCEPT ![Prd] = 1]
    BY <1>3, <2>1, <2>2
  <2>4. /\ NoPointers \in [Keys -> Nat] /\ NoPointers[Prd] = 0 /\ NoPointers[Result] = 0
        /\ [NoPointers EXCEPT ![Prd] = 1] \in [Keys -> Nat]
        /\ [NoPointers EXCEPT ![Prd] = 1][Prd] = 1 /\ [NoPointers EXCEPT ![Prd] = 1][Result] = 0
    BY DEF NoPointers, Keys, Prd, Result
  <2> HIDE DEF none, anew
  <2>5. ASSUME NEW w, NEW step \in {"save", "review_save"}, Goes(step, w),
               \/ w = none /\ job[c].new.key = Prd
               \/ w = anew
        PROVE  LoneVersions'
    <3>1. /\ DOMAIN w = {"current", "roadmap", "rows"}
          /\ w.current \in [Keys -> Nat] /\ w.roadmap \in Nat /\ w.roadmap = planned
      BY <2>1, <2>3, <2>4, <2>5
    <3>2. w.current[Result] = 0 /\ (job[c].new.key # Prd => w.current[Prd] = 1)
      BY <2>3, <2>4, <2>5
    <3>3. ASSUME NEW k \in Keys \ {job[c].new.key}
          PROVE  LET made == {v \in Others(job[c], versions) : versions[v].key = k}
                 IN w.current[k] \in {0} \cup made /\ \A v \in made : v <= w.current[k]
      <4>1. CASE k = Prd BY <2>1, <3>2, <4>1
      <4>2. CASE k = Result BY <2>1, <3>2, <4>2 DEF Prd, Result
      <4> QED BY <4>1, <4>2 DEF Keys
    <3> QED BY <1>1, <1>2, <2>5, <3>1, <3>3, LoneMerged
  <2>6. At(c, "merge") => job[c].new.key = Prd BY <1>3, <2>1, <2>2 DEF At, LoneJob
  <2> QED BY <1>1, <1>6, <2>5, <2>6
<1> QED BY <1>5, <1>6

(* A derived version joins the workspace that was read before. *)
LEMMA LoneDerives ==
  ASSUME VersionsInv, OneCall, LoneVersions, NEW c \in Callers, calm', DeriveInsert(c)
  PROVE  LoneVersions'
<1> DEFINE copy == With(job[c].copy, job[c])
           j == [job[c] EXCEPT !.copy = copy, !.at = "blind_save"]
           id == job[c].id
           key == job[c].new.key
           S == Others(job[c], versions)
           current == workspace.current
<1>1. /\ At(c, "derive_insert") /\ versions' = Put(job[c].id, job[c].new, versions)
      /\ UNCHANGED workspace /\ UNCHANGED planned /\ job' = [job EXCEPT ![c] = j]
  BY DEF DeriveInsert, Fault, Goto
<1>2. /\ Under(job[c]) /\ job[c].at = "derive_insert" /\ LoneJob(job[c], workspace, planned, versions)
      /\ JobFits(job[c], versions, issued) /\ id # 0
  BY <1>1, AloneAt DEF Issued, JobFits
<1>3. /\ DOMAIN versions' = DOMAIN versions \cup {id} /\ versions'[id] = job[c].new
      /\ \A v \in DOMAIN versions \ {id} : versions'[v] = versions[v]
  BY <1>1 DEF Put, Upon
<1>4. S = DOMAIN versions' \ {id} /\ \A v \in S : versions'[v] = versions[v]
  BY <1>2, <1>3 DEF Others
<1>5. UpToDate(workspace, planned, versions', S)
  <2>1. UpToDate(workspace, planned, versions, S) BY <1>2 DEF LoneJob
  <2> HIDE DEF S
  <2> QED BY <1>4, <2>1, UpToDateStays
<1>6. /\ current \in [Keys -> Nat] /\ PointsLast(current, versions', S)
      /\ workspace.roadmap \in Nat
  BY <1>2, <1>5 DEF UpToDate, LoneJob
<1>7. copy.current = [current EXCEPT ![key] = id] /\ copy.roadmap = workspace.roadmap
  <2>1. DOMAIN job[c].copy = {"current", "roadmap", "rows"} BY <1>2 DEF JobFits, Copying, CopyFits
  <2>2. job[c].copy.current = workspace.current /\ job[c].copy.roadmap = workspace.roadmap
    BY <1>2 DEF LoneJob
  <2> QED BY <2>1, <2>2 DEF With
<1>8. /\ j.at = "blind_save" /\ j.copy = copy /\ j.id = id /\ j.src = job[c].src /\ j.run = job[c].run
  BY <1>2 DEF JobFits, JobFields
<1> HIDE DEF copy, j
<1>9. /\ id \in DOMAIN versions' /\ id \in Nat /\ key \in Keys /\ versions'[id].key = key
      /\ \A v \in DOMAIN versions' : v <= id
  BY <1>2, <1>3 DEF JobFits, VersionRow, LoneJob
<1>10. copy.current \in [Keys -> Nat] /\ PointsLast(copy.current, versions', DOMAIN versions')
  <2> DEFINE table == versions'
  <2>1. \A k \in Keys \ {key} : LET made == {v \in S : table[v].key = k}
                                IN current[k] \in {0} \cup made /\ \A v \in made : v <= current[k]
    BY <1>6 DEF PointsLast
  <2>2. /\ S = DOMAIN table \ {id} /\ id \in DOMAIN table /\ table[id].key = key
        /\ \A v \in DOMAIN table : v <= id
    BY <1>4, <1>9
  <2> HIDE DEF S, id, key, current, table
  <2>3. /\ [current EXCEPT ![key] = id] \in [Keys -> Nat]
        /\ PointsLast([current EXCEPT ![key] = id], table, DOMAIN table)
    BY <1>6, <1>9, <2>1, <2>2, RowIsLast
  <2> QED BY <1>7, <2>3 DEF table
<1>11. Others(j, versions') = S BY <1>4, <1>8 DEF Others
<1>12. LoneJob(j, workspace', planned', versions')
  <2>1. UpToDate(workspace', planned', versions', Others(j, versions')) BY <1>1, <1>5, <1>11
  <2>2. j.id # j.src /\ j.run \in Nat BY <1>2, <1>8 DEF LoneJob
  <2> QED BY <1>6, <1>7, <1>8, <1>9, <1>10, <2>1, <2>2 DEF LoneJob, Saving
<1>13. Under(j)
  <2>1. NoCall.at = "none" BY DEF NoCall
  <2> QED BY <1>8, <2>1 DEF Under
<1> QED BY <1>1, <1>2, <1>12, <1>13, LoneStep

LEMMA LoneRoadmap ==
  ASSUME VersionsInv, OneCall, LoneVersions, NEW c \in Callers, calm', RoadmapLoad(c)
  PROVE  LoneVersions'
<1> DEFINE copy == [Copy EXCEPT !.roadmap = job[c].run]
           j == [job[c] EXCEPT !.copy = copy, !.at = "blind_save"]
<1>1. /\ At(c, "roadmap") /\ UNCHANGED versions /\ UNCHANGED workspace /\ UNCHANGED planned
      /\ \/ workspace # Missing /\ job' = [job EXCEPT ![c] = j]
         \/ job' = [job EXCEPT ![c] = NoCall]
  BY DEF RoadmapLoad, Fault, Goto, Leave, rows
<1>2. /\ Under(job[c]) /\ job[c].at = "roadmap" /\ LoneJob(job[c], workspace, planned, versions)
      /\ JobFits(job[c], versions, issued) /\ job[c].id = 0
  BY <1>1, AloneAt DEF Unissued, JobFits
<1>3. CASE job' = [job EXCEPT ![c] = NoCall] BY <1>1, <1>3, LonePasses DEF Unissued
<1>4. CASE workspace # Missing /\ job' = [job EXCEPT ![c] = j]
  <2>1. copy.current = workspace.current /\ copy.roadmap = job[c].run BY DEF Copy
  <2>2. j.at = "blind_save" /\ j.copy = copy /\ j.id = 0 /\ j.run = job[c].run
    BY <1>2 DEF JobFits, JobFields
  <2> HIDE DEF copy, j
  <2>3. UpToDate(workspace, planned, versions, DOMAIN versions)
    BY <1>1, NothingMade DEF Unissued
  <2>4. copy.current \in [Keys -> Nat] /\ PointsLast(copy.current, versions, DOMAIN versions)
    BY <1>4, <2>1, <2>3 DEF UpToDate
  <2>5. Others(j, versions) = DOMAIN versions
    <3>1. 0 \notin DOMAIN versions BY DEF VersionsInv, TableFits
    <3> QED BY <2>2, <3>1 DEF Others
  <2>6. LoneJob(j, workspace, planned, versions)
    BY <1>2, <2>1, <2>2, <2>3, <2>4, <2>5 DEF LoneJob, Saving
  <2>7. Under(j)
    <3>1. NoCall.at = "none" BY DEF NoCall
    <3> QED BY <2>2, <3>1 DEF Under
  <2> QED BY <1>1, <1>2, <1>4, <2>6, <2>7, LoneStep
<1> QED BY <1>1, <1>3, <1>4

(* No row but those that are there is in the copy that is saved. *)
LEMMA LoneSaved ==
  ASSUME VersionsInv, OneCall, LoneVersions, NEW c \in Callers, NEW at \in Saving, At(c, at),
         SaveWorkspace(job[c].copy), planned' = job[c].copy.roadmap
  PROVE  /\ DOMAIN versions' = DOMAIN versions /\ \A v \in DOMAIN versions : versions'[v] = versions[v]
         /\ UpToDate(workspace', planned', versions', DOMAIN versions')
<1>1. /\ job[c].at = at /\ LoneJob(job[c], workspace, planned, versions)
      /\ JobFits(job[c], versions, issued)
  BY AloneAt DEF Issued, Saving
<1>2. /\ CopyFits(job[c].copy, job[c].id, job[c].new, versions)
      /\ job[c].id \in DOMAIN versions => versions[job[c].id] = job[c].new
      /\ issued \in Nat /\ DOMAIN versions \subseteq 1..issued
  <2>1. 0 \notin DOMAIN versions BY DEF VersionsInv, TableFits
  <2> QED BY <1>1, <2>1 DEF JobFits, VersionsInv, TableFits, Saving, Copying
<1>3. /\ Grows(versions, versions')
      /\ \A v \in DOMAIN versions' \ DOMAIN versions : v = job[c].id /\ job[c].id # 0
  BY <1>2, CopySaved DEF SaveWorkspace
<1>4. DOMAIN versions' = DOMAIN versions /\ \A v \in DOMAIN versions : versions'[v] = versions[v]
  BY <1>1, <1>3 DEF Grows, LoneJob
<1>5. /\ job[c].copy.current \in [Keys -> Nat] /\ job[c].copy.roadmap \in Nat
      /\ PointsLast(job[c].copy.current, versions, DOMAIN versions)
  BY <1>1 DEF LoneJob
<1>6. PointsLast(job[c].copy.current, versions', DOMAIN versions')
  <2>1. \A k \in Keys : {v \in DOMAIN versions' : versions'[v].key = k} =
                        {v \in DOMAIN versions : versions[v].key = k}
    BY <1>4
  <2> QED BY <1>5, <2>1 DEF PointsLast
<1>7. workspace' = [current |-> job[c].copy.current, roadmap |-> job[c].copy.roadmap]
  BY DEF SaveWorkspace
<1>8. /\ workspace' \in [current : [Keys -> Nat], roadmap : Nat]
      /\ workspace'.current = job[c].copy.current /\ workspace'.roadmap = job[c].copy.roadmap
  BY <1>5, <1>7
<1>9. workspace' # Missing BY <1>8, WorkspaceAssumption
<1> QED BY <1>4, <1>6, <1>8, <1>9 DEF UpToDate

LEMMA LoneSaves ==
  ASSUME VersionsInv, OneCall, LoneVersions, NEW c \in Callers, calm',
         PatchSave(c) \/ BlindSave(c) \/ ReviewSave(c)
  PROVE  LoneVersions'
<1> DEFINE link == [job[c] EXCEPT !.at = "link"]
           over == [at |-> "over", result |-> "applied"]
<1>1. /\ SaveWorkspace(job[c].copy)
      /\ \/ At(c, "save") /\ UNCHANGED planned /\ job' = [job EXCEPT ![c] = over]
         \/ At(c, "blind_save") /\ planned' = job[c].copy.roadmap /\ job' = [job EXCEPT ![c] = NoCall]
         \/ At(c, "review_save") /\ UNCHANGED planned /\ job' = [job EXCEPT ![c] = link]
  BY DEF PatchSave, BlindSave, ReviewSave, Fault, Goto, Over, Leave
<1>2. PICK at \in Saving : At(c, at) BY <1>1 DEF Saving
<1>3. /\ Under(job[c]) /\ job[c].at = at /\ LoneJob(job[c], workspace, planned, versions)
      /\ JobFits(job[c], versions, issued)
  BY <1>2, AloneAt DEF Issued, Saving
<1>4. planned' = job[c].copy.roadmap BY <1>1, <1>3 DEF LoneJob, Saving, At
<1>5. /\ DOMAIN versions' = DOMAIN versions /\ \A v \in DOMAIN versions : versions'[v] = versions[v]
      /\ UpToDate(workspace', planned', versions', DOMAIN versions')
  BY <1>1, <1>2, <1>4, LoneSaved
<1>6. CASE job' = [job EXCEPT ![c] = over]
  <2>1. ~Under(over) BY OverAreNot
  <2>2. over.result \in {"rejected", "raised", "applied"} OBVIOUS
  <2> HIDE DEF over
  <2> QED BY <1>3, <1>5, <1>6, <2>1, <2>2, LoneStep
<1>7. CASE job' = [job EXCEPT ![c] = NoCall] BY <1>3, <1>5, <1>7, OverAreNot, LoneStep
<1>8. CASE At(c, "review_save") /\ job' = [job EXCEPT ![c] = link]
  <2>1. /\ link.at = "link" /\ link.id = job[c].id /\ link.src = job[c].src /\ link.run = job[c].run
        /\ link.id # 0
    BY <1>3, <1>8 DEF JobFits, JobFields, Issued, At
  <2> HIDE DEF link
  <2>2. Others(link, versions') = DOMAIN versions' BY <2>1 DEF Others
  <2>3. /\ link.id \in DOMAIN versions' /\ link.id # link.src /\ link.run \in Nat
        /\ \A v \in DOMAIN versions' : v <= link.id
    BY <1>3, <1>5, <2>1 DEF LoneJob
  <2>4. LoneJob(link, workspace', planned', versions')
    BY <1>5, <2>1, <2>2, <2>3 DEF LoneJob, Saving
  <2>5. Under(link)
    <3>1. NoCall.at = "none" BY DEF NoCall
    <3> QED BY <2>1, <3>1 DEF Under
  <2> QED BY <1>3, <1>8, <2>4, <2>5, LoneStep
<1> QED BY <1>1, <1>6, <1>7, <1>8

(* A call on the versions, while there is no other. *)
LEMMA LoneCallKeeps ==
  ASSUME VersionsInv, OneCall, LoneVersions, NEW c \in Callers, calm',
         StepOfPatch(c) \/ StepOfCall(c)
  PROVE  LoneVersions'
BY LonePatchEnds, LonePatchOpens, LoneReviewGoesOn, LoneIssue, LoneInserts, LoneMerges, LoneDerives,
   LoneRoadmap, LoneSaves DEF StepOfPatch, StepOfCall

----------------------------------------------------------------------------
(* The files of a run, when one handler is at them at a time. *)

LEMMA EntryFound ==
  ASSUME NEW todo, NamesDiffer(todo), NEW i \in DOMAIN todo
  PROVE  Entry(todo, todo[i][1]) = todo[i][2]
<1>1. \E n \in DOMAIN todo : todo[n][1] = todo[i][1] OBVIOUS
<1> DEFINE n == CHOOSE m \in DOMAIN todo : todo[m][1] = todo[i][1]
<1>2. n \in DOMAIN todo /\ todo[n][1] = todo[i][1] BY <1>1
<1>3. n = i BY <1>2 DEF NamesDiffer
<1> QED BY <1>3 DEF Entry

LEMMA AfterAll ==
  ASSUME NEW todo, NEW now, NamesDiffer(todo)
  PROVE  /\ DOMAIN AfterWrites(todo, now) = FileNames
         /\ \A i \in DOMAIN todo : AfterWrites(todo, now)[todo[i][1]] = todo[i][2]
         /\ \A f \in FileNames : (\A i \in DOMAIN todo : todo[i][1] # f) =>
              AfterWrites(todo, now)[f] = now[f]
<1>1. DOMAIN AfterWrites(todo, now) = FileNames BY DEF AfterWrites
<1>2. ASSUME NEW i \in DOMAIN todo PROVE AfterWrites(todo, now)[todo[i][1]] = todo[i][2]
  <2>1. todo[i][1] \in FileNames BY DEF NamesDiffer
  <2>2. Entry(todo, todo[i][1]) = todo[i][2] BY EntryFound
  <2> QED BY <2>1, <2>2 DEF AfterWrites
<1>3. ASSUME NEW f \in FileNames, \A i \in DOMAIN todo : todo[i][1] # f
      PROVE  AfterWrites(todo, now)[f] = now[f]
  BY <1>3 DEF AfterWrites
<1> QED BY <1>1, <1>2, <1>3

(* The same contents, the same agreement. *)
Same(F, G) == \A f \in FileNames : F[f] = G[f]

LEMMA AgreesWithSame ==
  ASSUME NEW F, NEW G, Same(F, G), NEW t, Agrees(F, t)
  PROVE  Agrees(G, t) /\ \A k : Generates(k, F, t) => Generates(k, G, t)
<1>1. /\ F.report = G.report /\ F.copy = G.copy /\ F.stage = G.stage /\ F.confirmed = G.confirmed
      /\ F.revised = G.revised /\ F.request = G.request
  BY DEF Same, FileNames
<1> QED BY <1>1 DEF Agrees, Generates

(* A file that is on the list may be opened: it is written all the same. *)
LEMMA OpenedIsWritten ==
  ASSUME NEW todo, NEW now, NEW then, NEW x, IsTodo(todo), NamesDiffer(todo), DOMAIN now = FileNames,
         then = [now EXCEPT ![Head(todo)[1]] = x]
  PROVE  Same(AfterWrites(todo, now), AfterWrites(todo, then))
<1>1. 1 \in DOMAIN todo /\ Head(todo) = todo[1] BY TodoHead
<1>2. ASSUME NEW f \in FileNames PROVE AfterWrites(todo, now)[f] = AfterWrites(todo, then)[f]
  <2>1. CASE \E i \in DOMAIN todo : todo[i][1] = f BY <2>1, AfterAll
  <2>2. CASE \A i \in DOMAIN todo : todo[i][1] # f
    <3>1. then[f] = now[f]
      <4>1. Head(todo)[1] # f BY <1>1, <2>2
      <4> QED BY <4>1
    <3> QED BY <2>2, <3>1 DEF AfterWrites
  <2> QED BY <2>1, <2>2
<1> QED BY <1>2 DEF Same

LEMMA RestIsWritten ==
  ASSUME NEW todo, NEW now, NEW then, IsTodo(todo), NamesDiffer(todo), DOMAIN now = FileNames,
         then = [now EXCEPT ![Head(todo)[1]] = Head(todo)[2]]
  PROVE  /\ Len(todo) > 1 => /\ IsTodo(Tail(todo)) /\ NamesDiffer(Tail(todo))
                             /\ Same(AfterWrites(todo, now), AfterWrites(Tail(todo), then))
         /\ ~(Len(todo) > 1) => Same(AfterWrites(todo, now), then)
<1>1. /\ Len(todo) \in Nat /\ Len(todo) > 0 /\ DOMAIN todo = 1..Len(todo) /\ Head(todo) = todo[1]
      /\ Len(todo) > 1 => /\ IsTodo(Tail(todo)) /\ DOMAIN Tail(todo) = 1..(Len(todo) - 1)
                          /\ \A i \in 1..(Len(todo) - 1) : Tail(todo)[i] = todo[i + 1]
  BY TodoHead
<1>2. todo[1][1] \in FileNames BY <1>1 DEF NamesDiffer
<1>3. then[todo[1][1]] = todo[1][2] /\ \A f \in FileNames \ {todo[1][1]} : then[f] = now[f]
  BY <1>1, <1>2
<1>4. ASSUME ~(Len(todo) > 1) PROVE Same(AfterWrites(todo, now), then)
  <2>1. DOMAIN todo = {1} BY <1>1, <1>4
  <2>2. AfterWrites(todo, now)[todo[1][1]] = todo[1][2] BY <2>1, AfterAll
  <2>3. \A f \in FileNames \ {todo[1][1]} : AfterWrites(todo, now)[f] = now[f] BY <2>1, AfterAll
  <2> QED BY <1>3, <2>2, <2>3 DEF Same
<1>5. ASSUME Len(todo) > 1
      PROVE  NamesDiffer(Tail(todo)) /\ Same(AfterWrites(todo, now), AfterWrites(Tail(todo), then))
  <2> DEFINE rest == Tail(todo)
  <2>1. DOMAIN rest = 1..(Len(todo) - 1) /\ \A i \in DOMAIN rest : i + 1 \in DOMAIN todo /\ rest[i] = todo[i + 1]
    BY <1>1, <1>5
  <2>2. \A i \in DOMAIN todo \ {1} : i - 1 \in DOMAIN rest /\ rest[i - 1] = todo[i]
    BY <1>1, <1>5, <2>1
  <2> HIDE DEF rest
  <2>3. NamesDiffer(rest)
    <3>1. \A i \in DOMAIN rest : i \in Nat BY <1>1, <2>1
    <3> QED BY <2>1, <3>1 DEF NamesDiffer
  <2>6. \A f \in FileNames : (\A i \in DOMAIN rest : rest[i][1] # f) => AfterWrites(rest, then)[f] = then[f]
    BY DEF AfterWrites
  <2>7. \A f \in FileNames : (\A i \in DOMAIN todo : todo[i][1] # f) => AfterWrites(todo, now)[f] = now[f]
    BY AfterAll
  <2>4. ASSUME NEW f \in FileNames PROVE AfterWrites(todo, now)[f] = AfterWrites(rest, then)[f]
    <3>1. ASSUME NEW i \in DOMAIN todo \ {1}, todo[i][1] = f
          PROVE  AfterWrites(todo, now)[f] = AfterWrites(rest, then)[f]
      <4>1. AfterWrites(todo, now)[f] = todo[i][2] BY <3>1, AfterAll
      <4>2. AfterWrites(rest, then)[rest[i - 1][1]] = rest[i - 1][2] BY <2>2, <2>3, AfterAll
      <4> QED BY <2>2, <3>1, <4>1, <4>2
    <3>2. CASE f = todo[1][1]
      <4>1. AfterWrites(todo, now)[f] = todo[1][2] BY <1>1, <3>2, AfterAll
      <4>2. \A i \in DOMAIN rest : rest[i][1] # f
        <5>1. \A i \in DOMAIN rest : i + 1 # 1 BY <1>1, <2>1
        <5>2. 1 \in DOMAIN todo BY <1>1
        <5> QED BY <2>1, <3>2, <5>1, <5>2 DEF NamesDiffer
      <4>3. AfterWrites(rest, then)[f] = then[f] BY <2>6, <4>2
      <4> QED BY <1>3, <3>2, <4>1, <4>3
    <3>3. CASE \A i \in DOMAIN todo : todo[i][1] # f
      <4>1. \A i \in DOMAIN rest : rest[i][1] # f BY <2>1, <3>3
      <4>2. AfterWrites(todo, now)[f] = now[f] BY <2>7, <3>3
      <4>3. AfterWrites(rest, then)[f] = then[f] BY <2>6, <4>1
      <4>4. f # todo[1][1] BY <1>1, <3>3
      <4> QED BY <1>3, <4>2, <4>3, <4>4
    <3> QED BY <3>1, <3>2, <3>3
  <2>5. Same(AfterWrites(todo, now), AfterWrites(rest, then)) BY <2>4 DEF Same
  <2> QED BY <2>3, <2>5 DEF rest
<1> QED BY <1>1, <1>4, <1>5

(* What lists of one, two and three files leave. *)
LEMMA OneWritten ==
  ASSUME NEW f \in FileNames, NEW x, NEW now
  PROVE  LET todo == <<<<f, x>>>>
         IN  /\ IsTodo(todo) /\ NamesDiffer(todo)
             /\ AfterWrites(todo, now)[f] = x
             /\ \A h \in FileNames \ {f} : AfterWrites(todo, now)[h] = now[h]
<1> DEFINE todo == <<<<f, x>>>>
<1>1. DOMAIN todo = {1} /\ todo[1] = <<f, x>> /\ IsTodo(todo) BY OneOrTwo
<1> HIDE DEF todo
<1>2. NamesDiffer(todo) BY <1>1 DEF NamesDiffer
<1>3. AfterWrites(todo, now)[f] = x
  <2>1. AfterWrites(todo, now)[todo[1][1]] = todo[1][2] BY <1>1, <1>2, AfterAll
  <2> QED BY <1>1, <2>1
<1>4. \A h \in FileNames \ {f} : AfterWrites(todo, now)[h] = now[h] BY <1>1 DEF AfterWrites
<1> QED BY <1>1, <1>2, <1>3, <1>4 DEF todo

LEMMA TwoWritten ==
  ASSUME NEW f \in FileNames, NEW x, NEW h \in FileNames \ {f}, NEW y, NEW now
  PROVE  LET todo == <<<<f, x>>, <<h, y>>>>
         IN  /\ IsTodo(todo) /\ NamesDiffer(todo)
             /\ AfterWrites(todo, now)[f] = x /\ AfterWrites(todo, now)[h] = y
             /\ \A e \in FileNames \ {f, h} : AfterWrites(todo, now)[e] = now[e]
<1> DEFINE todo == <<<<f, x>>, <<h, y>>>>
<1>1. DOMAIN todo = {1, 2} /\ todo[1] = <<f, x>> /\ todo[2] = <<h, y>> /\ IsTodo(todo) BY OneOrTwo
<1> HIDE DEF todo
<1>2. NamesDiffer(todo) BY <1>1 DEF NamesDiffer
<1>3. AfterWrites(todo, now)[f] = x /\ AfterWrites(todo, now)[h] = y
  <2>1. \A i \in DOMAIN todo : AfterWrites(todo, now)[todo[i][1]] = todo[i][2] BY <1>2, AfterAll
  <2> QED BY <1>1, <2>1
<1>4. \A e \in FileNames \ {f, h} : AfterWrites(todo, now)[e] = now[e] BY <1>1 DEF AfterWrites
<1> QED BY <1>1, <1>2, <1>3, <1>4 DEF todo

LEMMA ThreeWritten ==
  ASSUME NEW f \in FileNames, NEW x, NEW h \in FileNames \ {f}, NEW y,
         NEW e \in FileNames \ {f, h}, NEW z, NEW now
  PROVE  LET todo == <<<<f, x>>, <<h, y>>, <<e, z>>>>
         IN  /\ IsTodo(todo) /\ NamesDiffer(todo)
             /\ AfterWrites(todo, now)[f] = x /\ AfterWrites(todo, now)[h] = y
             /\ AfterWrites(todo, now)[e] = z
             /\ \A d \in FileNames \ {f, h, e} : AfterWrites(todo, now)[d] = now[d]
<1> DEFINE todo == <<<<f, x>>, <<h, y>>, <<e, z>>>>
<1>1. DOMAIN todo = {1, 2, 3} /\ todo[1] = <<f, x>> /\ todo[2] = <<h, y>> /\ todo[3] = <<e, z>>
  OBVIOUS
<1>2. IsTodo(todo)
  <2>1. todo \in Seq({<<f, x>>, <<h, y>>, <<e, z>>}) /\ todo # <<>> OBVIOUS
  <2> QED BY <2>1 DEF IsTodo
<1> HIDE DEF todo
<1>3. NamesDiffer(todo) BY <1>1 DEF NamesDiffer
<1>4. /\ AfterWrites(todo, now)[f] = x /\ AfterWrites(todo, now)[h] = y
      /\ AfterWrites(todo, now)[e] = z
  <2>1. \A i \in DOMAIN todo : AfterWrites(todo, now)[todo[i][1]] = todo[i][2] BY <1>3, AfterAll
  <2> QED BY <1>1, <2>1
<1>5. \A d \in FileNames \ {f, h, e} : AfterWrites(todo, now)[d] = now[d] BY <1>1 DEF AfterWrites
<1> QED BY <1>1, <1>2, <1>3, <1>4, <1>5 DEF todo

(* What is loaded when the files agree with what was done. *)
LEMMA Loaded ==
  ASSUME Agrees(files, told)
  PROVE  /\ LoadStage.entered = told.entered /\ LoadStage.entered \in BOOLEAN
         /\ LoadStage.confirmed \in BOOLEAN
         /\ told.confirmed = IF LoadStage.confirmed THEN files.confirmed ELSE Missing
         /\ LoadStage.status = "completed" => files.revised.extra = files.request
         /\ Loads(files.report)
<1>1. Loads(files.report) BY FilesAssumption DEF Agrees, Loads
<1>2. CASE files.stage = Missing
  <2>1. ~Loads(files.stage) BY <1>2 DEF Loads
  <2>2. LoadStage.entered = FALSE /\ LoadStage.confirmed = FALSE /\ LoadStage.status # "completed"
    BY <2>1 DEF LoadStage
  <2> QED BY <1>1, <1>2, <2>2 DEF Agrees
<1>3. CASE files.stage # Missing
  <2>1. files.stage \in RevisionStages /\ Loads(files.stage) BY <1>3, FilesAssumption DEF Agrees, Loads
  <2>2. LoadStage = [files.stage EXCEPT !.confirmed = @ /\ files.confirmed # Missing]
    BY <2>1 DEF LoadStage
  <2>3. /\ LoadStage.entered = files.stage.entered /\ LoadStage.status = files.stage.status
        /\ LoadStage.confirmed = (files.stage.confirmed /\ files.confirmed # Missing)
        /\ files.stage.entered \in BOOLEAN /\ files.stage.confirmed \in BOOLEAN
    BY <2>1, <2>2 DEF RevisionStages
  <2>4. /\ files.stage.entered = told.entered
        /\ told.confirmed = IF files.stage.confirmed THEN files.confirmed ELSE Missing
        /\ files.stage.status = "completed" => files.revised.extra = files.request
    BY <1>3 DEF Agrees
  <2>5. CASE files.stage.confirmed /\ files.confirmed # Missing BY <1>1, <2>3, <2>4, <2>5
  <2>6. CASE ~(files.stage.confirmed /\ files.confirmed # Missing) BY <1>1, <2>3, <2>4, <2>6
  <2> QED BY <2>5, <2>6
<1> QED BY <1>2, <1>3

(* The stage that is written, with what the user has done. *)
LEMMA StageWritten ==
  ASSUME NEW F, NEW t, F.report \in Reports, F.report.answers = t.answers, F.copy = t.answers,
         NEW status \in {"collecting_inputs", "skipped", "inputs_recorded", "running", "completed",
                         "failed", "confirmed", "skipped_unconfirmed"},
         NEW entered \in BOOLEAN, NEW confirmed \in BOOLEAN,
         F.stage = [status |-> status, entered |-> entered, confirmed |-> confirmed],
         t.entered = entered, t.confirmed = IF confirmed THEN F.confirmed ELSE Missing,
         status = "completed" => F.revised.extra = F.request
  PROVE  Agrees(F, t)
<1>1. /\ F.stage \in RevisionStages /\ F.stage.entered = entered /\ F.stage.confirmed = confirmed
      /\ F.stage.status = status
  BY DEF RevisionStages
<1>2. F.stage # Missing BY <1>1, FilesAssumption
<1> QED BY <1>1, <1>2 DEF Agrees

(* A handler moves while there is no other. *)
LEMMA LoneMoves ==
  ASSUME CallsInv, NEW c \in Callers, \A d \in Callers \ {c} : call[d] = NoCall,
         NEW k, call' = [call EXCEPT ![c] = k],
         k # NoCall => LoneCall(k, files', told'),
         k = NoCall => Agrees(files', told')
  PROVE  LoneFiles'
<1>1. call'[c] = k /\ \A d \in Callers \ {c} : call'[d] = NoCall BY DEF CallsInv
<1>2. \A d \in Callers : call'[d] # NoCall => LoneCall(call'[d], files', told') BY <1>1
<1>3. (\A d \in Callers : call'[d] = NoCall) => Agrees(files', told') BY <1>1
<1> QED BY <1>2, <1>3 DEF LoneFiles

LEMMA LoneWrites ==
  ASSUME CallsInv, NEW c \in Callers, \A d \in Callers \ {c} : call[d] = NoCall,
         NEW k, DOMAIN k = CallFields, NEW todo, NEW then, Writes(c, k, todo, then), UNCHANGED files,
         IsTodo(todo), NamesDiffer(todo), Agrees(AfterWrites(todo, files), told'),
         then = "llm" => Generates(k, AfterWrites(todo, files), told')
  PROVE  LoneFiles'
<1> DEFINE m == [k EXCEPT !.at = "open", !.todo = todo, !.then = then]
<1>1. call' = [call EXCEPT ![c] = m] BY DEF Writes
<1>2. /\ m.at = "open" /\ m.todo = todo /\ m.then = then /\ m.seen = k.seen /\ m.draft = k.draft
  BY DEF CallFields
<1> HIDE DEF m
<1>3. Writing(m) BY <1>2 DEF Writing
<1>4. then = "llm" => Generates(m, AfterWrites(todo, files), told') BY <1>2 DEF Generates
<1>5. LoneCall(m, files', told') BY <1>2, <1>3, <1>4 DEF LoneCall
<1>6. m # NoCall
  <2>1. NoCall.at = "none" BY DEF NoCall
  <2> QED BY <1>2, <2>1
<1> QED BY <1>1, <1>5, <1>6, LoneMoves

(* A report that is answered is a report with the answers it had and these. *)
LEMMA AnsweredReport ==
  ASSUME NEW r \in Reports, NEW g \in Submissions
  PROVE  /\ Answered(r, g) \in Reports
         /\ Answered(r, g).answers = Joined(g, r.answers)
<1>1. PICK asked \in SUBSET Questions : r.answers \in [asked -> Answers] BY DEF Reports
<1>2. /\ DOMAIN r = ReportFields /\ r.findings \in [Findings -> [says : Answers \cup {Missing},
                 original : Severities \cup {Missing}, severity : Severities]]
      /\ r.status \in {"pending", "answered", "not_needed"} /\ r.listed \in BOOLEAN
      /\ r.patch \in {Missing, "context_available", "applied", "rejected"}
  BY DEF Reports, ReportFields
<1>3. IsAnswers(r.answers) BY <1>1 DEF IsAnswers
<1>4. \A id \in DOMAIN g : g[id] \in Answers BY RevisionAssumption
<1>5. CASE DOMAIN g = {}
  <2> DEFINE s == [r EXCEPT !.status = PendingStatus(r)]
  <2>1. Answered(r, g) = s BY <1>5 DEF Answered
  <2>2. PendingStatus(r) \in {"pending", "answered", "not_needed"} BY <1>2 DEF PendingStatus
  <2>3. s \in Reports BY <2>2 DEF Reports
  <2>4. s.answers = r.answers BY <1>2 DEF ReportFields
  <2>5. Joined(g, r.answers) = r.answers BY <1>3, <1>5, AnswersJoin
  <2> HIDE DEF s
  <2> QED BY <2>1, <2>3, <2>4, <2>5
<1>6. CASE DOMAIN g # {}
  <2> DEFINE joined == Joined(g, r.answers)
             found == [f \in Findings |->
               IF Places(f, g) = {} THEN r.findings[f]
               ELSE Clarified(r.findings[f], g[Order[Max(Places(f, g))]])]
             s == [r EXCEPT !.answers = joined, !.findings = found, !.status = "answered"]
  <2>1. Answered(r, g) = s BY <1>6 DEF Answered, Joined
  <2>2. joined \in UNION {[some -> Answers] : some \in SUBSET Questions}
    <3> DEFINE some == DOMAIN joined
    <3>1. /\ IsAnswers(joined) /\ some = DOMAIN r.answers \cup (Questions \cap DOMAIN g)
          /\ \A ask \in Questions \cap DOMAIN g : joined[ask] = g[ask]
          /\ \A ask \in DOMAIN r.answers \ DOMAIN g : joined[ask] = r.answers[ask]
      BY <1>3, AnswersJoin
    <3> HIDE DEF joined
    <3>2. \A ask \in some : joined[ask] \in Answers BY <1>1, <1>4, <3>1
    <3>3. joined = [ask \in some |-> joined[ask]] /\ some \subseteq Questions BY <3>1 DEF IsAnswers
    <3> HIDE DEF some
    <3>4. joined \in [some -> Answers] BY <3>2, <3>3
    <3> QED BY <3>3, <3>4
  <2>3. ASSUME NEW f \in Findings
        PROVE  found[f] \in [says : Answers \cup {Missing}, original : Severities \cup {Missing},
                             severity : Severities]
    <3>1. r.findings[f] \in [says : Answers \cup {Missing}, original : Severities \cup {Missing},
                             severity : Severities]
      BY <1>2
    <3>2. CASE Places(f, g) = {} BY <3>1, <3>2
    <3>3. CASE Places(f, g) # {}
      <4> DEFINE ask == Order[Max(Places(f, g))]
      <4>1. ask \in DOMAIN g BY <3>3, LastPlace
      <4>2. found[f] = Clarified(r.findings[f], g[ask]) BY <3>3
      <4>3. g[ask] \in Answers BY <1>4, <4>1
      <4>4. OriginalSeverity(r.findings[f]) \in Severities BY <3>1 DEF OriginalSeverity
      <4>5. ResolvedSeverity(g[ask], OriginalSeverity(r.findings[f])) \in Severities
        BY <4>4 DEF ResolvedSeverity, Severities
      <4> HIDE DEF ask, found
      <4> QED BY <4>2, <4>3, <4>4, <4>5 DEF Clarified
    <3> QED BY <3>2, <3>3
  <2>4. found \in [Findings -> [says : Answers \cup {Missing}, original : Severities \cup {Missing},
                                severity : Severities]]
    BY <2>3
  <2> HIDE DEF found, joined
  <2>5. s \in Reports BY <1>2, <2>2, <2>4 DEF Reports, ReportFields
  <2>6. s.answers = joined BY <1>2 DEF ReportFields
  <2> HIDE DEF s
  <2> QED BY <2>1, <2>5, <2>6 DEF joined
<1> QED BY <1>5, <1>6

(* A request is made when there is no other. *)
LEMMA LoneBegins ==
  ASSUME AloneInv, NEW c \in Callers, calm', NEW k, NEW todo, NEW then, NEW harmless,
         Begin(c, k, todo, then, harmless), DOMAIN k = CallFields,
         IsTodo(todo), NamesDiffer(todo), Agrees(AfterWrites(todo, files), told'),
         then = "llm" => Generates(k, AfterWrites(todo, files), told')
  PROVE  OneCall' /\ LoneVersions' /\ LoneFiles'
<1>1. /\ \A d \in Callers : call[d] = NoCall /\ job[d] = NoCall
      /\ Writes(c, k, todo, then) /\ UNCHANGED files /\ UNCHANGED job
      /\ UNCHANGED versions /\ UNCHANGED workspace /\ UNCHANGED planned
      /\ calm
  BY DEF Begin, Idle, versionState, rows
<1>2. LoneFiles' BY <1>1, LoneWrites DEF AloneInv, RevisionInv
<1>3. LoneVersions' BY <1>1 DEF AloneInv, LoneVersions, Under
<1>4. \A d \in Callers \ {c} : call'[d] = NoCall BY <1>1 DEF Writes, AloneInv, RevisionInv, CallsInv
<1>5. OneCall' BY <1>1, <1>4 DEF OneCall, Idle
<1> QED BY <1>2, <1>3, <1>5

LEMMA BegunQuietly ==
  ASSUME AloneInv, NEW c \in Callers, calm', NEW k, NEW todo, NEW then, NEW harmless,
         Begin(c, k, todo, then, harmless)
  PROVE  /\ Agrees(files, told) /\ files.report \in Reports /\ files.report.answers = told.answers
         /\ files.copy = told.answers
         /\ DOMAIN told = {"answers", "entered", "confirmed"}
<1>1. calm /\ \A d \in Callers : call[d] = NoCall BY DEF Begin, Idle
<1>2. Agrees(files, told) BY <1>1 DEF AloneInv, LoneFiles
<1> QED BY <1>2 DEF Agrees, AloneInv, FilesInv

LEMMA LoneAnswers ==
  ASSUME AloneInv, NEW c \in Callers, calm', NEW where, AnswerRequest(c, where)
  PROVE  OneCall' /\ LoneVersions' /\ LoneFiles'
<1>1. PICK g, k, then, harmless :
        /\ g \in demand.answers /\ Begin(c, k, AnswerTodo(g), then, harmless) /\ Tell(g)
        /\ DOMAIN k = CallFields /\ then # "llm"
  <2>1. \A v, way : DOMAIN [Blank EXCEPT !.where = where, !.src = v, !.draft = way] = CallFields
    BY DEF Blank, CallFields
  <2>2. DOMAIN [Blank EXCEPT !.where = where] = CallFields BY BlankFields
  <2>3. ASSUME NEW g \in demand.answers, Answer(c, g, where)
        PROVE  \E k, then, harmless : /\ Begin(c, k, AnswerTodo(g), then, harmless) /\ Tell(g)
                                      /\ DOMAIN k = CallFields /\ then # "llm"
    BY <2>2, <2>3 DEF Answer
  <2>4. ASSUME NEW g \in demand.answers, NEW v, NEW way, AnswerAsync(c, g, way, v, where)
        PROVE  \E k, then, harmless : /\ Begin(c, k, AnswerTodo(g), then, harmless) /\ Tell(g)
                                      /\ DOMAIN k = CallFields /\ then # "llm"
    BY <2>1, <2>4 DEF AnswerAsync
  <2> QED BY <2>3, <2>4 DEF AnswerRequest
<1>2. g \in Submissions BY <1>1, RevisionAssumption DEF AloneInv
<1>3. /\ Agrees(files, told) /\ files.report \in Reports /\ files.report.answers = told.answers
      /\ DOMAIN told = {"answers", "entered", "confirmed"}
  BY <1>1, BegunQuietly
<1> DEFINE r == Answered(files.report, g)
           todo == <<<<"report", r>>, <<"copy", r.answers>>>>
           F == AfterWrites(todo, files)
<1>4. told'.answers = Joined(g, told.answers) /\ told'.entered = told.entered
      /\ told'.confirmed = told.confirmed
  BY <1>1, <1>3 DEF Tell, Joined
<1>5. r \in Reports /\ r.answers = told'.answers BY <1>2, <1>3, <1>4, AnsweredReport
<1>6. AnswerTodo(g) = todo BY DEF AnswerTodo
<1> HIDE DEF r
<1>7. /\ IsTodo(todo) /\ NamesDiffer(todo) /\ F.report = r /\ F.copy = r.answers
      /\ F.stage = files.stage /\ F.confirmed = files.confirmed /\ F.revised = files.revised
      /\ F.request = files.request
  <2>1. "report" \in FileNames /\ "copy" \in FileNames \ {"report"} BY DEF FileNames
  <2>2. /\ IsTodo(todo) /\ NamesDiffer(todo) /\ F["report"] = r /\ F["copy"] = r.answers
        /\ \A e \in FileNames \ {"report", "copy"} : F[e] = files[e]
    BY <2>1, TwoWritten
  <2> HIDE DEF F, todo
  <2> QED BY <2>2 DEF FileNames
<1> HIDE DEF F, todo
<1>8. Agrees(F, told') BY <1>3, <1>4, <1>5, <1>7 DEF Agrees
<1> QED BY <1>1, <1>6, <1>7, <1>8, LoneBegins DEF F

(* The stage that a request of the user's leaves. *)
LEMMA LoneStages ==
  ASSUME AloneInv, NEW c \in Callers, calm', NEW k, NEW todo, NEW then \in {"end", "generate"},
         NEW harmless, Begin(c, k, todo, then, harmless), DOMAIN k = CallFields,
         IsTodo(todo), NamesDiffer(todo), NEW F, F = AfterWrites(todo, files),
         F.report = files.report, F.copy = files.copy, told'.answers = told.answers,
         NEW status \in {"collecting_inputs", "skipped", "inputs_recorded", "confirmed",
                         "skipped_unconfirmed"},
         NEW entered \in BOOLEAN, NEW confirmed \in BOOLEAN,
         F.stage = [status |-> status, entered |-> entered, confirmed |-> confirmed],
         told'.entered = entered, told'.confirmed = IF confirmed THEN F.confirmed ELSE Missing
  PROVE  OneCall' /\ LoneVersions' /\ LoneFiles'
<1>1. F.report \in Reports /\ F.report.answers = told'.answers /\ F.copy = told'.answers
  BY BegunQuietly
<1> DEFINE t == told'
<1>2. Agrees(F, t)
  <2>1. t.entered = entered /\ t.confirmed = IF confirmed THEN F.confirmed ELSE Missing OBVIOUS
  <2>2. F.report \in Reports /\ F.report.answers = t.answers /\ F.copy = t.answers BY <1>1
  <2> HIDE DEF t
  <2> QED BY <2>1, <2>2, StageWritten
<1>3. Agrees(AfterWrites(todo, files), told') BY <1>2
<1> QED BY <1>3, LoneBegins

LEMMA OneStage ==
  ASSUME NEW x, NEW now, NEW todo, todo = <<<<"stage", x>>>>, NEW F, F = AfterWrites(todo, now)
  PROVE  /\ IsTodo(todo) /\ NamesDiffer(todo) /\ F.stage = x
         /\ F.report = now.report /\ F.copy = now.copy /\ F.confirmed = now.confirmed
         /\ F.request = now.request /\ F.revised = now.revised
<1>1. "stage" \in FileNames BY DEF FileNames
<1>2. IsTodo(todo) /\ NamesDiffer(todo) /\ F["stage"] = x /\ \A e \in FileNames \ {"stage"} : F[e] = now[e]
  BY <1>1, OneWritten
<1> QED BY <1>2 DEF FileNames

LEMMA FileAndStage ==
  ASSUME NEW f \in {"request", "confirmed"}, NEW y, NEW x, NEW now,
         NEW todo, todo = <<<<f, y>>, <<"stage", x>>>>, NEW F, F = AfterWrites(todo, now)
  PROVE  /\ IsTodo(todo) /\ NamesDiffer(todo) /\ F.stage = x
         /\ F.report = now.report /\ F.copy = now.copy /\ F[f] = y
<1>1. f \in FileNames /\ "stage" \in FileNames \ {f} BY DEF FileNames
<1>2. /\ IsTodo(todo) /\ NamesDiffer(todo) /\ F[f] = y /\ F["stage"] = x
      /\ \A e \in FileNames \ {f, "stage"} : F[e] = now[e]
  <2> DEFINE h == "stage"
  <2>1. h \in FileNames \ {f} /\ todo = <<<<f, y>>, <<h, x>>>> BY <1>1
  <2> HIDE DEF h
  <2>2. /\ IsTodo(todo) /\ NamesDiffer(todo) /\ F[f] = y /\ F[h] = x
        /\ \A e \in FileNames \ {f, h} : F[e] = now[e]
    BY <1>1, <2>1, TwoWritten
  <2> QED BY <2>2 DEF h
<1> QED BY <1>2 DEF FileNames

(* What is read when a generation starts, and the stage that says so. *)
LEMMA LoneRuns ==
  ASSUME Agrees(files, told), MayGenerate, NEW k, DOMAIN k = CallFields
  PROVE  LET F == AfterWrites(RunningTodo, files)
         IN  /\ DOMAIN Running(k) = CallFields
             /\ IsTodo(RunningTodo) /\ NamesDiffer(RunningTodo)
             /\ Agrees(F, told) /\ Generates(Running(k), F, told)
<1> DEFINE F == AfterWrites(RunningTodo, files)
           running == Running(k)
           now == LoadStage.confirmed
<1>1. /\ LoadStage.entered = told.entered /\ LoadStage.entered \in BOOLEAN /\ LoadStage.entered
      /\ now \in BOOLEAN /\ told.confirmed = IF now THEN files.confirmed ELSE Missing
  BY Loaded DEF MayGenerate
<1>2. told.entered = TRUE BY <1>1
<1>3. /\ IsTodo(RunningTodo) /\ NamesDiffer(RunningTodo)
      /\ F.stage = [status |-> "running", entered |-> TRUE, confirmed |-> now]
      /\ F.report = files.report /\ F.copy = files.copy /\ F.confirmed = files.confirmed
      /\ F.request = files.request
  <2> HIDE DEF now
  <2> DEFINE x == [status |-> "running", entered |-> TRUE, confirmed |-> now]
  <2>1. RunningTodo = <<<<"stage", x>>>> BY DEF RunningTodo, now, Staged
  <2>2. F = AfterWrites(RunningTodo, files) OBVIOUS
  <2> HIDE DEF F, x
  <2>3. /\ IsTodo(RunningTodo) /\ NamesDiffer(RunningTodo) /\ F.stage = x
        /\ F.report = files.report /\ F.copy = files.copy /\ F.confirmed = files.confirmed
        /\ F.request = files.request
    BY <2>1, <2>2, OneStage
  <2> QED BY <2>3 DEF x
<1>4. /\ DOMAIN running = CallFields /\ running.seen = LoadStage /\ running.draft = Asked
  BY DEF Running, CallFields
<1>5. Asked.extra = files.request BY DEF Asked
<1>6. running.seen.confirmed = now BY <1>4
<1> HIDE DEF F, running, now
<1>7. F.report \in Reports /\ F.report.answers = told.answers /\ F.copy = told.answers
  BY <1>3 DEF Agrees
<1>8. told.confirmed = IF now THEN F.confirmed ELSE Missing BY <1>1, <1>3
<1>9. Agrees(F, told) BY <1>1, <1>2, <1>3, <1>7, <1>8, StageWritten
<1>10. Generates(running, F, told) BY <1>1, <1>2, <1>3, <1>4, <1>5, <1>6, <1>8 DEF Generates
<1> QED BY <1>3, <1>4, <1>9, <1>10 DEF F, running

LEMMA LoneRequests ==
  ASSUME AloneInv, NEW c \in Callers, calm', RevisionRequest(c)
  PROVE  OneCall' /\ LoneVersions' /\ LoneFiles'
<1>1. DOMAIN Blank = CallFields BY BlankFields
<1>2. ASSUME NEW entered, NEW confirmed, TellRevision(entered, confirmed),
             DOMAIN told = {"answers", "entered", "confirmed"}
      PROVE  told'.answers = told.answers /\ told'.entered = entered /\ told'.confirmed = confirmed
  BY <1>2 DEF TellRevision
<1>3. ASSUME NEW enter \in BOOLEAN, Decide(c, enter) PROVE OneCall' /\ LoneVersions' /\ LoneFiles'
  <2> DEFINE status == IF enter THEN "collecting_inputs" ELSE "skipped"
             todo == <<Staged(status, enter, FALSE)>>
             F == AfterWrites(todo, files)
  <2>1. Begin(c, Blank, todo, "end", TRUE) /\ TellRevision(enter, Missing) BY <1>3 DEF Decide
  <2>2. DOMAIN told = {"answers", "entered", "confirmed"} BY <2>1, BegunQuietly
  <2>3. told'.answers = told.answers /\ told'.entered = enter /\ told'.confirmed = Missing
    BY <1>2, <2>1, <2>2
  <2>4. status \in {"collecting_inputs", "skipped"} OBVIOUS
  <2> HIDE DEF status
  <2>6. F = AfterWrites(todo, files) OBVIOUS
  <2> HIDE DEF F
  <2>5. /\ IsTodo(todo) /\ NamesDiffer(todo) /\ F.report = files.report /\ F.copy = files.copy
        /\ F.stage = [status |-> status, entered |-> enter, confirmed |-> FALSE]
    <3> DEFINE x == [status |-> status, entered |-> enter, confirmed |-> FALSE]
    <3>1. todo = <<<<"stage", x>>>> BY DEF todo, Staged
    <3> HIDE DEF todo, x
    <3>2. IsTodo(todo) /\ NamesDiffer(todo) /\ F.report = files.report /\ F.copy = files.copy /\ F.stage = x
      BY <2>6, <3>1, OneStage
    <3> QED BY <3>2 DEF x
  <2> HIDE DEF todo
  <2> QED BY <1>1, <2>1, <2>3, <2>4, <2>5, <2>6, LoneStages
<1>4. CASE Continue(c)
  <2> DEFINE todo == <<Staged("skipped_unconfirmed", FALSE, FALSE)>>
             F == AfterWrites(todo, files)
  <2>1. Begin(c, Blank, todo, "end", TRUE) /\ TellRevision(FALSE, Missing) BY <1>4 DEF Continue
  <2>2. DOMAIN told = {"answers", "entered", "confirmed"} BY <2>1, BegunQuietly
  <2>3. told'.answers = told.answers /\ told'.entered = FALSE /\ told'.confirmed = Missing
    BY <1>2, <2>1, <2>2
  <2>6. F = AfterWrites(todo, files) OBVIOUS
  <2> HIDE DEF F
  <2>5. /\ IsTodo(todo) /\ NamesDiffer(todo) /\ F.report = files.report /\ F.copy = files.copy
        /\ F.stage = [status |-> "skipped_unconfirmed", entered |-> FALSE, confirmed |-> FALSE]
    <3> DEFINE x == [status |-> "skipped_unconfirmed", entered |-> FALSE, confirmed |-> FALSE]
    <3>1. todo = <<<<"stage", x>>>> BY DEF todo, Staged
    <3> HIDE DEF todo, x
    <3>2. IsTodo(todo) /\ NamesDiffer(todo) /\ F.report = files.report /\ F.copy = files.copy /\ F.stage = x
      BY <2>6, <3>1, OneStage
    <3> QED BY <3>2 DEF x
  <2> HIDE DEF todo
  <2> QED BY <1>1, <2>1, <2>3, <2>5, <2>6, LoneStages
<1>5. CASE Input(c)
  <2> DEFINE extra == {calls + 1}
             todo == <<<<"request", extra>>, Staged("inputs_recorded", TRUE, FALSE)>>
             F == AfterWrites(todo, files)
  <2>1. /\ Begin(c, Blank, todo, "end", TRUE) /\ TellRevision(told.entered, Missing)
        /\ LoadStage.entered
    BY <1>5 DEF Input
  <2> HIDE DEF extra
  <2>2. DOMAIN told = {"answers", "entered", "confirmed"} /\ Agrees(files, told) BY <2>1, BegunQuietly
  <2>3. told.entered = TRUE BY <2>1, <2>2, Loaded
  <2>4. told'.answers = told.answers /\ told'.entered = TRUE /\ told'.confirmed = Missing
    BY <1>2, <2>1, <2>2, <2>3
  <2>6. F = AfterWrites(todo, files) OBVIOUS
  <2> HIDE DEF F
  <2>5. /\ IsTodo(todo) /\ NamesDiffer(todo) /\ F.report = files.report /\ F.copy = files.copy
        /\ F.stage = [status |-> "inputs_recorded", entered |-> TRUE, confirmed |-> FALSE]
    <3> DEFINE x == [status |-> "inputs_recorded", entered |-> TRUE, confirmed |-> FALSE]
    <3>1. todo = <<<<"request", extra>>, <<"stage", x>>>> BY DEF todo, Staged
    <3> HIDE DEF todo, x
    <3>2. IsTodo(todo) /\ NamesDiffer(todo) /\ F.report = files.report /\ F.copy = files.copy /\ F.stage = x
      BY <2>6, <3>1, FileAndStage
    <3> QED BY <3>2 DEF x
  <2> HIDE DEF todo
  <2> QED BY <1>1, <2>1, <2>4, <2>5, <2>6, LoneStages
<1>6. CASE Confirm(c)
  <2> DEFINE entered == LoadStage.entered
             todo == <<<<"confirmed", files.revised>>, Staged("confirmed", entered, TRUE)>>
             F == AfterWrites(todo, files)
  <2>1. Begin(c, Blank, todo, "end", TRUE) /\ TellRevision(told.entered, files.revised)
    BY <1>6 DEF Confirm
  <2>2. DOMAIN told = {"answers", "entered", "confirmed"} /\ Agrees(files, told) BY <2>1, BegunQuietly
  <2>3. told.entered = entered /\ entered \in BOOLEAN BY <2>2, Loaded
  <2> HIDE DEF entered
  <2>4. told'.answers = told.answers /\ told'.entered = entered /\ told'.confirmed = files.revised
    BY <1>2, <2>1, <2>2, <2>3
  <2>6. F = AfterWrites(todo, files) OBVIOUS
  <2> HIDE DEF F
  <2>5. /\ IsTodo(todo) /\ NamesDiffer(todo) /\ F.report = files.report /\ F.copy = files.copy
        /\ F.stage = [status |-> "confirmed", entered |-> entered, confirmed |-> TRUE]
        /\ F.confirmed = files.revised
    <3> DEFINE x == [status |-> "confirmed", entered |-> entered, confirmed |-> TRUE]
    <3>1. todo = <<<<"confirmed", files.revised>>, <<"stage", x>>>> BY DEF todo, Staged
    <3> HIDE DEF todo, x
    <3>2. /\ IsTodo(todo) /\ NamesDiffer(todo) /\ F.report = files.report /\ F.copy = files.copy
          /\ F.stage = x /\ F["confirmed"] = files.revised
      BY <2>6, <3>1, FileAndStage
    <3> QED BY <3>2 DEF x
  <2> HIDE DEF todo
  <2> QED BY <1>1, <2>1, <2>3, <2>4, <2>5, <2>6, LoneStages
<1>7. ASSUME NEW more, Regenerate(c, more) PROVE OneCall' /\ LoneVersions' /\ LoneFiles'
  <2> DEFINE before == IF Loads(files.request) THEN files.request ELSE {}
             extra == IF more THEN before \cup {calls + 1} ELSE before
             todo == <<<<"request", extra>>, Staged("inputs_recorded", TRUE, FALSE)>>
             F == AfterWrites(todo, files)
  <2>1. /\ Begin(c, Blank, todo, "generate", TRUE) /\ TellRevision(TRUE, Missing)
    BY <1>7 DEF Regenerate
  <2> HIDE DEF extra
  <2>2. DOMAIN told = {"answers", "entered", "confirmed"} BY <2>1, BegunQuietly
  <2>4. told'.answers = told.answers /\ told'.entered = TRUE /\ told'.confirmed = Missing
    BY <1>2, <2>1, <2>2
  <2>6. F = AfterWrites(todo, files) OBVIOUS
  <2> HIDE DEF F
  <2>5. /\ IsTodo(todo) /\ NamesDiffer(todo) /\ F.report = files.report /\ F.copy = files.copy
        /\ F.stage = [status |-> "inputs_recorded", entered |-> TRUE, confirmed |-> FALSE]
    <3> DEFINE x == [status |-> "inputs_recorded", entered |-> TRUE, confirmed |-> FALSE]
    <3>1. todo = <<<<"request", extra>>, <<"stage", x>>>> BY DEF todo, Staged
    <3> HIDE DEF todo, x
    <3>2. IsTodo(todo) /\ NamesDiffer(todo) /\ F.report = files.report /\ F.copy = files.copy /\ F.stage = x
      BY <2>6, <3>1, FileAndStage
    <3> QED BY <3>2 DEF x
  <2> HIDE DEF todo
  <2> QED BY <1>1, <2>1, <2>4, <2>5, <2>6, LoneStages
<1>8. CASE Generate(c)
  <2>1. MayGenerate /\ Begin(c, Running(Blank), RunningTodo, "llm", TRUE) /\ UNCHANGED told
    BY <1>8 DEF Generate
  <2>2. Agrees(files, told) BY <2>1, BegunQuietly
  <2> DEFINE k == Running(Blank)
             todo == RunningTodo
  <2>3. /\ DOMAIN k = CallFields /\ IsTodo(todo) /\ NamesDiffer(todo)
        /\ Agrees(AfterWrites(todo, files), told) /\ Generates(k, AfterWrites(todo, files), told)
    BY <1>1, <2>1, <2>2, LoneRuns
  <2>4. Begin(c, k, todo, "llm", TRUE) BY <2>1
  <2> HIDE DEF k, todo
  <2>5. Agrees(AfterWrites(todo, files), told') /\ Generates(k, AfterWrites(todo, files), told')
    BY <2>1, <2>3
  <2> QED BY <2>3, <2>4, <2>5, LoneBegins
<1> QED BY <1>3, <1>4, <1>5, <1>6, <1>7, <1>8 DEF RevisionRequest

----------------------------------------------------------------------------
(* A handler that goes on, while there is no other. *)

LEMMA StillOne ==
  ASSUME RevisionInv, OneCall, NEW c \in Callers, ~Idle(c),
         \A d \in Callers \ {c} : call'[d] = call[d] /\ job'[d] = job[d],
         call'[c] # NoCall /\ job'[c] # NoCall => call'[c].at = "patching"
  PROVE  OneCall'
<1>1. \A d \in Callers \ {c} : call'[d] = NoCall /\ job'[d] = NoCall BY DEF OneCall, Idle
<1> QED BY <1>1 DEF OneCall, Idle

LEMMA LoneHandler ==
  ASSUME AloneInv, calm, NEW c \in Callers, NEW step, step # "none", In(c, step)
  PROVE  /\ call[c] # NoCall /\ ~Idle(c) /\ call[c].at = step /\ DOMAIN call[c] = CallFields
         /\ LoneCall(call[c], files, told) /\ CallFits(call[c], versions)
         /\ \A d \in Callers \ {c} : call[d] = NoCall /\ job[d] = NoCall
         /\ step # "patching" => job[c] = NoCall
         /\ CallsInv /\ DOMAIN call = Callers /\ DOMAIN job = Callers /\ DOMAIN files = FileNames
<1>1. OneCall /\ LoneFiles /\ CallsInv /\ DOMAIN job = Callers /\ DOMAIN files = FileNames
  BY DEF AloneInv, RevisionInv, VersionsInv, FilesInv
<1>2. CallFits(call[c], versions) /\ call[c].at = step /\ call[c] # NoCall BY <1>1, InCall
<1>3. ~Idle(c) BY <1>2 DEF Idle
<1>4. \A d \in Callers \ {c} : call[d] = NoCall /\ job[d] = NoCall BY <1>1, <1>3 DEF OneCall, Idle
<1>5. step # "patching" => job[c] = NoCall BY <1>1, <1>2 DEF OneCall
<1> QED BY <1>1, <1>2, <1>3, <1>4, <1>5 DEF CallFits, LoneFiles, CallsInv

(* The versions, and the calls on them, are left alone. *)
LEMMA LoneFileStep ==
  ASSUME AloneInv, calm, NEW c \in Callers, NEW step, step \notin {"none", "patching"}, In(c, step),
         UNCHANGED versionState, UNCHANGED job,
         \A d \in Callers \ {c} : call'[d] = call[d]
  PROVE  OneCall' /\ LoneVersions'
<1>1. UNCHANGED versions /\ UNCHANGED workspace /\ UNCHANGED planned BY DEF versionState, rows
<1>2. LoneVersions' BY <1>1 DEF AloneInv, LoneVersions, Under
<1>3. ~Idle(c) /\ job'[c] = NoCall BY LoneHandler
<1>4. OneCall' BY <1>3, StillOne DEF AloneInv
<1> QED BY <1>2, <1>4

LEMMA LoneOpens ==
  ASSUME AloneInv, calm, NEW c \in Callers, Open(c) \/ Fill(c)
  PROVE  LoneFiles'
<1> DEFINE k == call[c]
           todo == k.todo
           F == AfterWrites(todo, files)
<1>1. PICK step \in {"open", "fill"} : In(c, step)
  BY DEF Open, Fill
<1>2. /\ k # NoCall /\ k.at = step /\ DOMAIN k = CallFields
      /\ LoneCall(k, files, told) /\ CallFits(k, versions)
      /\ \A d \in Callers \ {c} : call[d] = NoCall
      /\ CallsInv /\ DOMAIN files = FileNames
  BY <1>1, LoneHandler
<1>3. Writing(k) BY <1>2 DEF Writing
<1>4. /\ IsTodo(todo) /\ NamesDiffer(todo) /\ Agrees(F, told)
      /\ k.then = "llm" => Generates(k, F, told)
  BY <1>2, <1>3 DEF LoneCall
<1>5. CASE Open(c)
  <2> DEFINE m == [k EXCEPT !.at = "fill"]
  <2>1. call' = [call EXCEPT ![c] = m] /\ UNCHANGED told BY <1>5 DEF Open
  <2>2. /\ m.at = "fill" /\ m.todo = todo /\ m.then = k.then /\ m.seen = k.seen /\ m.draft = k.draft
    BY <1>2 DEF CallFields
  <2>3. Same(F, AfterWrites(todo, files')) BY <1>2, <1>4, <1>5, OpenedIsWritten DEF Open
  <2> HIDE DEF m, F, k
  <2>4. Agrees(AfterWrites(todo, files'), told) /\ \A x : Generates(x, F, told) => Generates(x, AfterWrites(todo, files'), told)
    BY <1>4, <2>3, AgreesWithSame
  <2>5. m.then = "llm" => Generates(m, AfterWrites(m.todo, files'), told)
    BY <1>4, <2>2, <2>4 DEF Generates
  <2>6. Writing(m) BY <2>2 DEF Writing
  <2>7. LoneCall(m, files', told') BY <1>4, <2>1, <2>2, <2>4, <2>5, <2>6 DEF LoneCall
  <2>8. m # NoCall
    <3>1. NoCall.at = "none" BY DEF NoCall
    <3> QED BY <2>2, <3>1
  <2> QED BY <1>2, <2>1, <2>7, <2>8, LoneMoves
<1>6. CASE Fill(c)
  <2>1. files' = [files EXCEPT ![Head(todo)[1]] = Head(todo)[2]] /\ UNCHANGED told BY <1>6 DEF Fill
  <2> DEFINE rest == AfterWrites(Tail(todo), files')
  <2>2. /\ Len(todo) > 1 => IsTodo(Tail(todo)) /\ NamesDiffer(Tail(todo)) /\ Same(F, rest)
        /\ ~(Len(todo) > 1) => Same(F, files')
    BY <1>2, <1>4, <2>1, RestIsWritten
  <2>3. CASE Len(todo) > 1
    <3> DEFINE m == [k EXCEPT !.at = "open", !.todo = Tail(todo), !.then = k.then]
    <3>1. call' = [call EXCEPT ![c] = m] BY <1>6, <2>3 DEF Fill, Writes
    <3>2. /\ m.at = "open" /\ m.todo = Tail(todo) /\ m.then = k.then /\ m.seen = k.seen
          /\ m.draft = k.draft
      BY <1>2 DEF CallFields
    <3> HIDE DEF m, F, k, rest
    <3>3. Agrees(rest, told) /\ \A x : Generates(x, F, told) => Generates(x, rest, told)
      BY <1>4, <2>2, <2>3, AgreesWithSame
    <3>4. m.then = "llm" => Generates(m, rest, told) BY <1>4, <3>2, <3>3 DEF Generates
    <3>5. Writing(m) BY <3>2 DEF Writing
    <3>6. LoneCall(m, files', told')
      BY <2>1, <2>2, <2>3, <3>2, <3>3, <3>4, <3>5 DEF LoneCall, rest
    <3>7. m # NoCall
      <4>1. NoCall.at = "none" BY DEF NoCall
      <4> QED BY <3>2, <4>1
    <3> QED BY <1>2, <3>1, <3>6, <3>7, LoneMoves
  <2>4. CASE ~(Len(todo) > 1)
    <3> DEFINE m == IF k.then = "end" THEN NoCall ELSE [k EXCEPT !.at = k.then]
    <3>1. call' = [call EXCEPT ![c] = m] BY <1>6, <2>4 DEF Fill, End
    <3>2. Agrees(files', told) /\ \A x : Generates(x, F, told) => Generates(x, files', told)
      <4> HIDE DEF F
      <4> QED BY <1>4, <2>2, <2>4, AgreesWithSame
    <3>3. m # NoCall => LoneCall(m, files', told')
      <4> SUFFICES ASSUME m # NoCall PROVE LoneCall(m, files', told') OBVIOUS
      <4>1. k.then # "end" /\ m = [k EXCEPT !.at = k.then] OBVIOUS
      <4>2. m.at = k.then /\ m.seen = k.seen /\ m.draft = k.draft BY <1>2, <4>1 DEF CallFields
      <4>3. k.then \in {"look", "generate", "llm", "list"} BY <1>2, <4>1 DEF CallFits
      <4> HIDE DEF m, F, k
      <4>4. ~Writing(m) /\ m.at \notin {"prompting", "patching"} BY <4>2, <4>3 DEF Writing
      <4>5. m.at = "llm" => Generates(m, files', told) BY <1>4, <3>2, <4>2 DEF Generates
      <4> QED BY <2>1, <3>2, <4>2, <4>4, <4>5 DEF LoneCall
    <3>4. m = NoCall => Agrees(files', told') BY <2>1, <3>2
    <3> HIDE DEF m
    <3> QED BY <1>2, <3>1, <3>3, <3>4, LoneMoves
  <2> QED BY <2>3, <2>4
<1> QED BY <1>5, <1>6

(* The report that is written, with the answers that there are. *)
LEMMA ReportWritten ==
  ASSUME NEW F, NEW t, Agrees(F, t), NEW r \in Reports, r.answers = t.answers,
         NEW todo, todo = <<<<"report", r>>>>
  PROVE  IsTodo(todo) /\ NamesDiffer(todo) /\ Agrees(AfterWrites(todo, F), t)
<1> DEFINE G == AfterWrites(todo, F)
<1>1. "report" \in FileNames BY DEF FileNames
<1>2. IsTodo(todo) /\ NamesDiffer(todo) /\ G["report"] = r /\ \A e \in FileNames \ {"report"} : G[e] = F[e]
  BY <1>1, OneWritten
<1> HIDE DEF G
<1>3. /\ G.report = r /\ G.copy = F.copy /\ G.stage = F.stage /\ G.confirmed = F.confirmed
      /\ G.revised = F.revised /\ G.request = F.request
  BY <1>2 DEF FileNames
<1>4. Agrees(G, t) BY <1>3 DEF Agrees
<1> QED BY <1>2, <1>4 DEF G

LEMMA LoneReports ==
  ASSUME AloneInv, calm, NEW c \in Callers, NEW r \in Reports, r.answers = told.answers,
         NEW step \in {"prompting", "patching", "list"}, In(c, step),
         Writes(c, call[c], <<<<"report", r>>>>, "end"), UNCHANGED files, UNCHANGED told
  PROVE  LoneFiles'
<1>1. /\ DOMAIN call[c] = CallFields /\ LoneCall(call[c], files, told) /\ CallsInv
      /\ call[c].at = step /\ \A d \in Callers \ {c} : call[d] = NoCall
  BY LoneHandler
<1>2. ~Writing(call[c]) BY <1>1 DEF Writing
<1>3. Agrees(files, told) BY <1>1, <1>2 DEF LoneCall
<1> DEFINE todo == <<<<"report", r>>>>
           k == call[c]
<1>4. todo = <<<<"report", r>>>> /\ Writes(c, k, todo, "end") OBVIOUS
<1> HIDE DEF todo, k
<1>5. IsTodo(todo) /\ NamesDiffer(todo) /\ Agrees(AfterWrites(todo, files), told)
  BY <1>3, <1>4, ReportWritten
<1>6. Agrees(AfterWrites(todo, files), told') BY <1>5
<1>7. DOMAIN k = CallFields BY <1>1 DEF k
<1> QED BY <1>1, <1>4, <1>5, <1>6, <1>7, LoneWrites

(* A handler that comes to its end, or to another step, and writes nothing now. *)
LEMMA LoneGoesOn ==
  ASSUME AloneInv, calm, NEW c \in Callers,
         NEW step \in {"look", "reread", "prompting", "patching", "generate", "llm", "list"}, In(c, step),
         UNCHANGED files, UNCHANGED told,
         NEW k, call' = [call EXCEPT ![c] = k],
         k # NoCall => /\ k.at \in {"reread", "prompting", "patching"}
                       /\ k.at # "reread" => k.seen \in Reports /\ k.seen.answers = told.answers
  PROVE  LoneFiles'
<1>1. /\ LoneCall(call[c], files, told) /\ CallsInv
      /\ call[c].at = step /\ \A d \in Callers \ {c} : call[d] = NoCall
  BY LoneHandler
<1>2. ~Writing(call[c]) BY <1>1 DEF Writing
<1>3. Agrees(files, told) BY <1>1, <1>2 DEF LoneCall
<1>4. k # NoCall => LoneCall(k, files', told') BY <1>3 DEF LoneCall, Writing
<1> QED BY <1>1, <1>3, <1>4, LoneMoves

(* A call on the versions starts, or none does, with no other at them. *)
LEMMA LoneStarts ==
  ASSUME VersionsInv, NEW c \in Callers, \A d \in Callers \ {c} : job'[d] = NoCall,
         UNCHANGED versions, UNCHANGED workspace, UNCHANGED planned,
         UpToDate(workspace, planned, versions, DOMAIN versions),
         NEW j, job'[c] = j, j = NoCall \/ Under(j),
         Under(j) => j.id = 0 /\ j.at \in {"patch", "derive", "roadmap", "review"} /\ j.run \in Nat
  PROVE  LoneVersions'
<1>1. 0 \notin DOMAIN versions BY DEF VersionsInv, TableFits
<1>2. Under(j) => LoneJob(j, workspace', planned', versions')
  <2> SUFFICES ASSUME Under(j) PROVE LoneJob(j, workspace', planned', versions') OBVIOUS
  <2>1. Others(j, versions) = DOMAIN versions BY <1>1 DEF Others
  <2> QED BY <2>1 DEF LoneJob, Saving
<1>3. \A d \in Callers : Under(job'[d]) => d = c BY DEF Under
<1>4. \A d \in Callers : Under(job'[d]) => LoneJob(job'[d], workspace', planned', versions')
  BY <1>2, <1>3
<1>5. \A d \in Callers : job'[d] # NoCall => job'[d].at # "over" BY DEF Under
<1>6. UpToDate(workspace', planned', versions', DOMAIN versions') OBVIOUS
<1> QED BY <1>4, <1>5, <1>6 DEF LoneVersions, Under

(* The steps that read what the handler has written before. *)
LEMMA LoneLooks ==
  ASSUME AloneInv, calm, NEW c \in Callers, Look(c) \/ Reread(c)
  PROVE  OneCall' /\ LoneVersions' /\ LoneFiles'
<1>1. UNCHANGED versions /\ UNCHANGED workspace /\ UNCHANGED planned /\ UNCHANGED files /\ UNCHANGED told
  BY DEF Look, Reread, versionState, rows
<1>2. PICK step \in {"look", "reread"} : In(c, step) BY DEF Look, Reread
<1>3. /\ LoneCall(call[c], files, told) /\ CallFits(call[c], versions) /\ CallsInv /\ ~Idle(c)
      /\ call[c].at = step /\ \A d \in Callers \ {c} : call[d] = NoCall /\ job[d] = NoCall
      /\ job[c] = NoCall /\ DOMAIN call[c] = CallFields /\ DOMAIN call = Callers /\ DOMAIN job = Callers
  BY <1>2, LoneHandler
<1>4. Agrees(files, told) /\ ~Writing(call[c])
  <2>1. ~Writing(call[c]) BY <1>3 DEF Writing
  <2> QED BY <1>3, <2>1 DEF LoneCall
<1>5. CASE Look(c)
  <2> DEFINE k == IF Loads(files.report) THEN [call[c] EXCEPT !.at = "reread"] ELSE NoCall
  <2>1. call' = [call EXCEPT ![c] = k] /\ UNCHANGED versionState /\ UNCHANGED job /\ In(c, "look")
    BY <1>5 DEF Look, End
  <2>2. k # NoCall => k.at = "reread" BY <1>3 DEF CallFields
  <2> HIDE DEF k
  <2>3. LoneFiles' BY <1>1, <2>1, <2>2, LoneGoesOn
  <2>4. \A d \in Callers \ {c} : call'[d] = call[d] BY <1>3, <2>1
  <2>5. OneCall' /\ LoneVersions' BY <2>1, <2>4, LoneFileStep
  <2> QED BY <2>3, <2>5
<1>6. CASE Reread(c)
  <2> DEFINE k == [call[c] EXCEPT !.at = call[c].draft, !.seen = files.report]
             j == IF call[c].draft = "patching" THEN Started("patch", call[c].src, 0) ELSE NoCall
  <2>1. Loads(files.report) /\ files.report \in Reports /\ files.report.answers = told.answers
    BY <1>4, Loaded DEF Agrees
  <2>2. /\ call' = [call EXCEPT ![c] = k] /\ In(c, "reread")
        /\ job' = IF call[c].draft = "patching" THEN [job EXCEPT ![c] = j] ELSE job
    BY <1>6, <2>1 DEF Reread
  <2>3. k.at = call[c].draft /\ k.seen = files.report BY <1>3 DEF CallFields
  <2>4. call[c].draft \in {"prompting", "patching"}
    BY <1>2, <1>3, <2>2 DEF In, CallFits, ToReread
  <2>5. job'[c] = j /\ \A d \in Callers \ {c} : call'[d] = call[d] /\ job'[d] = job[d]
    BY <1>3, <2>2
  <2>6. call'[c] = k BY <1>3, <2>2
  <2>7. /\ j # NoCall => call[c].draft = "patching" /\ Under(j)
        /\ Under(j) => j.id = 0 /\ j.at = "patch" /\ j.run = 0
    <3>1. CASE call[c].draft = "patching"
      <4>1. j.id = 0 /\ j.at = "patch" /\ j.run = 0 BY <3>1 DEF Started
      <4>2. NoCall.at = "none" BY DEF NoCall
      <4> HIDE DEF j
      <4>3. Under(j) BY <4>1, <4>2 DEF Under
      <4> QED BY <3>1, <4>1, <4>3
    <3>2. CASE call[c].draft # "patching" BY <3>2 DEF Under
    <3> QED BY <3>1, <3>2
  <2> HIDE DEF k, j
  <2>8. LoneFiles' BY <1>1, <2>1, <2>2, <2>3, <2>4, LoneGoesOn
  <2>9. OneCall'
    <3>1. call'[c] # NoCall /\ job'[c] # NoCall => call'[c].at = "patching" BY <2>3, <2>5, <2>6, <2>7
    <3> QED BY <1>3, <2>5, <3>1, StillOne DEF AloneInv
  <2>10. UpToDate(workspace, planned, versions, DOMAIN versions)
    <3>1. \A d \in Callers : ~Under(job[d]) BY <1>3 DEF Under
    <3> QED BY <3>1 DEF AloneInv, LoneVersions
  <2>11. LoneVersions' BY <1>1, <1>3, <2>5, <2>7, <2>10, LoneStarts DEF AloneInv, RevisionInv
  <2> QED BY <2>8, <2>9, <2>11
<1> QED BY <1>5, <1>6

(* The report read before is written back, with what has become of the patch. *)
LEMMA LonePrompts ==
  ASSUME AloneInv, calm, NEW c \in Callers, Prompted(c)
  PROVE  OneCall' /\ LoneVersions' /\ LoneFiles'
<1> DEFINE r == [call[c].seen EXCEPT !.patch = "context_available"]
<1>1. In(c, "prompting") /\ Writes(c, call[c], <<<<"report", r>>>>, "end")
      /\ UNCHANGED files /\ UNCHANGED told /\ UNCHANGED versionState /\ UNCHANGED job
  BY DEF Prompted, WriteBack
<1>2. call[c].seen \in Reports /\ call[c].seen.answers = told.answers
  BY <1>1, LoneHandler DEF LoneCall
<1>3. r \in Reports /\ r.answers = told.answers BY <1>2 DEF Reports
<1> HIDE DEF r
<1>4. LoneFiles' BY <1>1, <1>3, LoneReports
<1>5. \A d \in Callers \ {c} : call'[d] = call[d] BY <1>1 DEF Writes
<1> QED BY <1>1, <1>4, <1>5, LoneFileStep

LEMMA LonePatched ==
  ASSUME AloneInv, calm, NEW c \in Callers, Patched(c)
  PROVE  OneCall' /\ LoneVersions' /\ LoneFiles'
<1>1. /\ In(c, "patching") /\ UNCHANGED files /\ UNCHANGED told
      /\ UNCHANGED versions /\ UNCHANGED workspace /\ UNCHANGED planned
      /\ job' = [job EXCEPT ![c] = NoCall] /\ job[c].at = "over"
      /\ End(c) \/ WriteBack(c, job[c].result)
      /\ job[c].result = "raised" => End(c)
      /\ job[c].result # "raised" => WriteBack(c, job[c].result)
  BY DEF Patched, Leave, Goto, At, versionState, rows
<1>2. /\ LoneCall(call[c], files, told) /\ ~Idle(c) /\ call[c].at = "patching"
      /\ \A d \in Callers \ {c} : call[d] = NoCall /\ job[d] = NoCall
      /\ DOMAIN call = Callers /\ DOMAIN job = Callers
  BY <1>1, LoneHandler
<1>3. job'[c] = NoCall /\ \A d \in Callers \ {c} : job'[d] = job[d] BY <1>1, <1>2
<1>4. \A d \in Callers \ {c} : call'[d] = call[d]
  <2>1. ASSUME NEW status, WriteBack(c, status) PROVE \A d \in Callers \ {c} : call'[d] = call[d]
    BY <1>2, <2>1 DEF WriteBack, Writes
  <2>2. CASE End(c) BY <1>2, <2>2 DEF End
  <2> QED BY <1>1, <2>1, <2>2
<1>5. OneCall' BY <1>2, <1>3, <1>4, StillOne DEF AloneInv
<1>6. \A d \in Callers : ~Under(job[d]) BY <1>1, <1>2 DEF Under
<1>7. UpToDate(workspace, planned, versions, DOMAIN versions) BY <1>6 DEF AloneInv, LoneVersions
<1>8. LoneVersions'
  <2>1. \A d \in Callers : job'[d] = NoCall BY <1>2, <1>3
  <2> QED BY <1>1, <1>7, <2>1 DEF LoneVersions, Under
<1>9. LoneFiles'
  <2>1. CASE End(c) BY <1>1, <2>1, LoneGoesOn DEF End
  <2>2. CASE job[c].result # "raised" /\ WriteBack(c, job[c].result)
    <3> DEFINE status == job[c].result
               r == [call[c].seen EXCEPT !.patch = status]
    <3>1. status \in {"rejected", "applied"}
      <4>1. job[c] # NoCall
        <5>1. NoCall.at = "none" BY DEF NoCall
        <5> QED BY <1>1, <5>1
      <4>2. status \in {"rejected", "raised", "applied"} BY <1>1, <4>1 DEF AloneInv, LoneVersions
      <4> QED BY <2>2, <4>2
    <3>2. Writes(c, call[c], <<<<"report", r>>>>, "end") BY <2>2 DEF WriteBack
    <3>3. call[c].seen \in Reports /\ call[c].seen.answers = told.answers BY <1>2 DEF LoneCall
    <3> HIDE DEF status
    <3>4. r \in Reports /\ r.answers = told.answers BY <3>1, <3>3 DEF Reports
    <3> HIDE DEF r
    <3> QED BY <1>1, <3>2, <3>4, LoneReports
  <2> QED BY <1>1, <2>1, <2>2
<1> QED BY <1>5, <1>8, <1>9

(* A generation, from the stage it reads to what it leaves. *)
LEMMA LoneGenerates ==
  ASSUME AloneInv, calm, NEW c \in Callers, GenerateNow(c) \/ ListArtifacts(c)
  PROVE  OneCall' /\ LoneVersions' /\ LoneFiles'
<1>1. PICK step \in {"generate", "list"} : In(c, step) /\ (step = "generate" => GenerateNow(c))
                                                       /\ (step = "list" => ListArtifacts(c))
  BY DEF GenerateNow, ListArtifacts
<1>2. UNCHANGED files /\ UNCHANGED told /\ UNCHANGED versionState /\ UNCHANGED job
  BY DEF GenerateNow, ListArtifacts
<1>3. /\ LoneCall(call[c], files, told) /\ CallsInv /\ DOMAIN call[c] = CallFields
      /\ call[c].at = step /\ \A d \in Callers \ {c} : call[d] = NoCall
  BY <1>1, LoneHandler
<1>4. Agrees(files, told)
  <2>1. ~Writing(call[c]) BY <1>3 DEF Writing
  <2> QED BY <1>3, <2>1 DEF LoneCall
<1>5. CASE End(c)
  <2>1. LoneFiles' BY <1>1, <1>2, <1>5, LoneGoesOn DEF End
  <2>2. \A d \in Callers \ {c} : call'[d] = call[d] BY <1>5 DEF End
  <2> QED BY <1>1, <1>2, <2>1, <2>2, LoneFileStep
<1>6. CASE step = "generate" /\ MayGenerate
  <2> DEFINE k == Running(call[c])
             todo == RunningTodo
  <2>1. Writes(c, k, todo, "llm") BY <1>1, <1>6 DEF GenerateNow
  <2>2. /\ DOMAIN k = CallFields /\ IsTodo(todo) /\ NamesDiffer(todo)
        /\ Agrees(AfterWrites(todo, files), told) /\ Generates(k, AfterWrites(todo, files), told)
    BY <1>3, <1>4, <1>6, LoneRuns
  <2>3. \A d \in Callers \ {c} : call'[d] = call[d] BY <2>1 DEF Writes
  <2> HIDE DEF k, todo
  <2>4. Agrees(AfterWrites(todo, files), told') /\ Generates(k, AfterWrites(todo, files), told')
    BY <1>2, <2>2
  <2>5. LoneFiles' BY <1>2, <1>3, <2>1, <2>2, <2>4, LoneWrites
  <2> QED BY <1>1, <1>2, <2>3, <2>5, LoneFileStep
<1>7. CASE step = "list" /\ Loads(files.report)
  <2> DEFINE r == Listed(files.report)
  <2>1. Writes(c, call[c], <<<<"report", r>>>>, "end") BY <1>1, <1>7 DEF ListArtifacts
  <2>2. r \in Reports /\ r.answers = told.answers BY <1>4 DEF Agrees, Listed, Reports
  <2>3. \A d \in Callers \ {c} : call'[d] = call[d] BY <2>1 DEF Writes
  <2> HIDE DEF r
  <2>4. LoneFiles' BY <1>1, <1>2, <1>7, <2>1, <2>2, LoneReports
  <2> QED BY <1>1, <1>2, <2>3, <2>4, LoneFileStep
<1> QED BY <1>1, <1>5, <1>6, <1>7 DEF GenerateNow, ListArtifacts

LEMMA LoneGenerated ==
  ASSUME AloneInv, calm, NEW c \in Callers, Generated(c) \/ GenerationFailed(c)
  PROVE  OneCall' /\ LoneVersions' /\ LoneFiles'
<1>1. In(c, "llm") /\ UNCHANGED files /\ UNCHANGED told /\ UNCHANGED versionState /\ UNCHANGED job
  BY DEF Generated, GenerationFailed
<1>2. /\ LoneCall(call[c], files, told) /\ CallsInv /\ DOMAIN call[c] = CallFields
      /\ call[c].at = "llm" /\ \A d \in Callers \ {c} : call[d] = NoCall
  BY <1>1, LoneHandler
<1>3. Agrees(files, told) /\ Generates(call[c], files, told)
  <2>1. ~Writing(call[c]) BY <1>2 DEF Writing
  <2> QED BY <1>2, <2>1 DEF LoneCall
<1> DEFINE k == call[c]
           now == k.seen.confirmed
<1>4. /\ files.report \in Reports /\ files.report.answers = told.answers /\ files.copy = told.answers
      /\ told.entered = TRUE /\ now \in BOOLEAN
      /\ told.confirmed = IF now THEN files.confirmed ELSE Missing
      /\ k.draft.extra = files.request
  BY <1>3 DEF Agrees, Generates
<1>5. /\ "stage" \in FileNames /\ "revised" \in FileNames /\ "summary" \in FileNames
      /\ "report" \in FileNames /\ "copy" \in FileNames /\ "confirmed" \in FileNames
      /\ "request" \in FileNames
  BY DEF FileNames
<1>6. CASE Generated(c)
  <2> DEFINE x == [status |-> "completed", entered |-> TRUE, confirmed |-> now]
             todo == <<<<"revised", k.draft>>, <<"summary", "completed">>, <<"stage", x>>>>
             F == AfterWrites(todo, files)
  <2>1. Writes(c, k, todo, "list") BY <1>6 DEF Generated, Outcome, Staged
  <2>2. /\ IsTodo(todo) /\ NamesDiffer(todo) /\ F["revised"] = k.draft /\ F["stage"] = x
        /\ \A e \in FileNames \ {"revised", "summary", "stage"} : F[e] = files[e]
    <3> HIDE DEF x
    <3>1. "summary" \in FileNames \ {"revised"} /\ "stage" \in FileNames \ {"revised", "summary"}
      BY <1>5
    <3> QED BY <1>5, <3>1, ThreeWritten
  <2> HIDE DEF F, todo
  <2>3. /\ F.report = files.report /\ F.copy = files.copy /\ F.confirmed = files.confirmed
        /\ F.request = files.request /\ F.revised = k.draft /\ F.stage = x
    BY <1>5, <2>2
  <2> HIDE DEF k, now
  <2>4. Agrees(F, told) BY <1>4, <2>3, StageWritten
  <2>5. Agrees(AfterWrites(todo, files), told') BY <1>1, <2>4 DEF F
  <2>6. LoneFiles' BY <1>1, <1>2, <2>1, <2>2, <2>5, LoneWrites DEF k
  <2>7. \A d \in Callers \ {c} : call'[d] = call[d] BY <2>1 DEF Writes
  <2> QED BY <1>1, <2>6, <2>7, LoneFileStep
<1>7. CASE GenerationFailed(c)
  <2> DEFINE x == [status |-> "failed", entered |-> TRUE, confirmed |-> now]
             todo == <<<<"stage", x>>, <<"summary", "failed">>>>
             F == AfterWrites(todo, files)
  <2>1. Writes(c, k, todo, "end") BY <1>7 DEF GenerationFailed, Outcome, Staged
  <2>2. /\ IsTodo(todo) /\ NamesDiffer(todo) /\ F["stage"] = x
        /\ \A e \in FileNames \ {"stage", "summary"} : F[e] = files[e]
    <3> HIDE DEF x
    <3>1. "summary" \in FileNames \ {"stage"} BY <1>5
    <3> QED BY <1>5, <3>1, TwoWritten
  <2> HIDE DEF F, todo
  <2>3. /\ F.report = files.report /\ F.copy = files.copy /\ F.confirmed = files.confirmed
        /\ F.stage = x
    BY <1>5, <2>2
  <2> HIDE DEF k, now
  <2>4. Agrees(F, told) BY <1>4, <2>3, StageWritten
  <2>5. Agrees(AfterWrites(todo, files), told') BY <1>1, <2>4 DEF F
  <2>6. LoneFiles' BY <1>1, <1>2, <2>1, <2>2, <2>5, LoneWrites DEF k
  <2>7. \A d \in Callers \ {c} : call'[d] = call[d] BY <2>1 DEF Writes
  <2> QED BY <1>1, <2>6, <2>7, LoneFileStep
<1> QED BY <1>6, <1>7

(* Calls on the versions: one starts, or goes on. *)
LEMMA LoneVersionCall ==
  ASSUME AloneInv, calm', NEW c \in Callers, NEW op \in {"derive", "roadmap", "review"},
         NEW v \in DOMAIN versions, VersionCall(c, op, v)
  PROVE  OneCall' /\ LoneVersions' /\ LoneFiles'
<1> DEFINE j == Started(op, v, IF op = "derive" THEN 0 ELSE calls + 1)
<1>1. /\ calm /\ \A d \in Callers : call[d] = NoCall /\ job[d] = NoCall
      /\ job' = [job EXCEPT ![c] = j]
      /\ UNCHANGED versions /\ UNCHANGED workspace /\ UNCHANGED planned
      /\ UNCHANGED call /\ UNCHANGED files /\ UNCHANGED told
  BY DEF VersionCall, Goto, Idle, versionState, rows, revars
<1>2. DOMAIN job = Callers /\ VersionsInv /\ calls \in Nat
  BY DEF AloneInv, RevisionInv, VersionsInv
<1>3. job'[c] = j /\ \A d \in Callers \ {c} : job'[d] = NoCall BY <1>1, <1>2
<1>4. j.id = 0 /\ j.at = op /\ j.run \in Nat BY <1>2 DEF Started
<1> HIDE DEF j
<1>5. Under(j)
  <2>1. NoCall.at = "none" BY DEF NoCall
  <2> QED BY <1>4, <2>1 DEF Under
<1>6. UpToDate(workspace, planned, versions, DOMAIN versions)
  BY <1>1 DEF AloneInv, LoneVersions, Under
<1>7. LoneVersions' BY <1>1, <1>2, <1>3, <1>4, <1>5, <1>6, LoneStarts
<1>8. LoneFiles' BY <1>1 DEF AloneInv, LoneFiles
<1>9. OneCall' BY <1>1, <1>3 DEF OneCall, Idle
<1> QED BY <1>7, <1>8, <1>9

LEMMA LoneVersionStep ==
  ASSUME AloneInv, calm, calm', NEW c \in Callers, StepOfPatch(c) \/ StepOfCall(c), UNCHANGED revars
  PROVE  OneCall' /\ LoneVersions' /\ LoneFiles'
<1>1. LoneVersions' BY LoneCallKeeps DEF AloneInv, RevisionInv
<1>2. UNCHANGED call /\ UNCHANGED files /\ UNCHANGED told BY DEF revars
<1>3. LoneFiles' BY <1>2 DEF AloneInv, LoneFiles
<1>4. DOMAIN job = Callers /\ VersionsInv BY DEF AloneInv, RevisionInv, VersionsInv
<1>5. job[c].at # "none"
  BY DEF StepOfPatch, StepOfCall, PatchRejected, PatchOpen, PatchRaised, PatchWrite, PatchInsert,
         PatchMerge, PatchSave, DeriveLoad, DeriveInsert, RoadmapLoad, BlindSave, ReviewDone,
         ReviewFailed, ReviewList, ReviewInsert, ReviewMerge, ReviewSave, ReviewLink, At
<1>6. job[c] # NoCall BY <1>5 DEF NoCall
<1>7. \A d \in Callers \ {c} : job'[d] = job[d]
  BY <1>4
  DEF StepOfPatch, StepOfCall, PatchRejected, PatchOpen, PatchRaised, PatchWrite, PatchInsert,
      PatchMerge, PatchSave, DeriveLoad, DeriveInsert, RoadmapLoad, BlindSave, ReviewDone,
      ReviewFailed, ReviewList, ReviewInsert, ReviewMerge, ReviewSave, ReviewLink,
      InsertRow, Issue, Over, Leave, Goto
<1>8. call'[c] # NoCall => call'[c].at = "patching" BY <1>2, <1>6 DEF AloneInv, OneCall
<1>9. OneCall' BY <1>2, <1>6, <1>7, <1>8, StillOne DEF AloneInv, Idle
<1> QED BY <1>1, <1>3, <1>9

LEMMA AloneStarts == Init => AloneInv
<1> SUFFICES ASSUME Init PROVE AloneInv OBVIOUS
<1>1. SafeInv BY SafeStarts
<1>2. calls = 0 /\ demand \in Demands /\ \A c \in Callers : call[c] = NoCall /\ job[c] = NoCall
  BY DEF Init, AInit, RevisionInit
<1>3. OneCall BY <1>2 DEF OneCall, Idle
<1>4. Agrees(files, told)
  <2>1. /\ files.report = FirstReport /\ files.copy = NoAnswers /\ files.stage = Missing
        /\ told.answers = NoAnswers /\ told.entered = FALSE /\ told.confirmed = Missing
    BY DEF Init, RevisionInit
  <2>2. FirstReport \in Reports /\ FirstReport.answers = NoAnswers
    <3>1. NoAnswers \in UNION {[asked -> Answers] : asked \in SUBSET Questions}
      <4>1. NoAnswers \in [{} -> Answers] BY DEF NoAnswers
      <4> QED BY <4>1
    <3>2. [f \in Findings |-> [says |-> Missing, original |-> Missing, severity |-> "high"]]
            \in [Findings -> [says : Answers \cup {Missing}, original : Severities \cup {Missing},
                              severity : Severities]]
      BY DEF Severities
    <3> HIDE DEF NoAnswers
    <3>3. (IF Order = <<>> THEN "not_needed" ELSE "pending") \in {"pending", "answered", "not_needed"}
      OBVIOUS
    <3> QED BY <3>1, <3>2, <3>3 DEF Reports, FirstReport
  <2> QED BY <2>1, <2>2 DEF Agrees
<1>5. UpToDate(workspace, planned, versions, DOMAIN versions)
  <2>1. versions = Put(1, FirstRow, <<>>) /\ planned = 0 BY DEF Init, AInit
  <2>2. DOMAIN versions = {1} /\ versions[1].key = Prd
    <3>1. DOMAIN <<>> = {} OBVIOUS
    <3>2. DOMAIN versions = {1} /\ versions[1] = FirstRow BY <2>1, <3>1 DEF Put, Upon
    <3> QED BY <3>2 DEF FirstRow
  <2>3. CASE workspace = Missing BY <2>1, <2>2, <2>3 DEF UpToDate
  <2>4. CASE workspace # Missing
    <3>1. workspace = [current |-> [NoPointers EXCEPT ![Prd] = 1], roadmap |-> 0]
      BY <2>4 DEF Init, AInit
    <3>2. /\ workspace \in [current : [Keys -> Nat], roadmap : Nat] /\ workspace.roadmap = 0
          /\ \A k \in Keys : workspace.current[k] = IF k = Prd THEN 1 ELSE 0
      BY <3>1 DEF NoPointers, Keys
    <3>3. PointsLast(workspace.current, versions, {1}) BY <2>2, <3>2 DEF PointsLast
    <3> QED BY <2>1, <2>2, <2>4, <3>2, <3>3 DEF UpToDate
  <2> QED BY <2>3, <2>4
<1>6. LoneVersions BY <1>2, <1>5 DEF LoneVersions, Under
<1>7. LoneFiles BY <1>2, <1>4 DEF LoneFiles
<1> QED BY <1>1, <1>2, <1>3, <1>6, <1>7 DEF AloneInv, SafeInv

(* Nothing makes a behaviour calm again. *)
LEMMA CalmEnds ==
  ASSUME AloneInv, [Next]_vars
  PROVE  (calm' => calm) /\ calls' \in Nat /\ demand' \in Demands
<1>1. ASSUME NEW c \in Callers, NEW k, NEW todo, NEW then, NEW harmless,
             Begin(c, k, todo, then, harmless)
      PROVE  (calm' => calm) /\ calls' = calls + 1 /\ demand' = demand
  BY <1>1 DEF Begin
<1>2. ASSUME NEW c \in Callers, NEW where, AnswerRequest(c, where) \/ RevisionRequest(c)
      PROVE  (calm' => calm) /\ calls' = calls + 1 /\ demand' = demand
  BY <1>1, <1>2 DEF AnswerRequest, Answer, AnswerAsync, RevisionRequest, Decide, Input, Confirm,
                    Continue, Generate, Regenerate
<1>3. ASSUME NEW c \in Callers, NEW op, NEW v, VersionCall(c, op, v)
      PROVE  (calm' => calm) /\ calls' = calls + 1 /\ demand' = demand
  BY <1>3 DEF VersionCall, revars
<1>4. ASSUME NEW c \in Callers, StepOfRun(c)
      PROVE  (calm' => calm) /\ calls' = calls /\ demand' = demand
  BY <1>4 DEF StepOfRun, Open, Fill, Look, Reread, Prompted, Patched, GenerateNow, Generated,
              GenerationFailed, ListArtifacts, counters
<1>5. ASSUME NEW c \in Callers, StepOfPatch(c) \/ StepOfCall(c), UNCHANGED revars
      PROVE  (calm' => calm) /\ calls' = calls /\ demand' = demand
  <2>1. CASE StepOfPatch(c)
    <3>1. calls' = calls
      BY <2>1 DEF StepOfPatch, PatchRejected, PatchOpen, PatchRaised, PatchWrite, PatchInsert,
                  PatchMerge, PatchSave, counters
    <3>2. UNCHANGED calm \/ Fault \/ NoFault
      BY <2>1 DEF StepOfPatch, PatchRejected, PatchOpen, PatchRaised, PatchWrite, PatchInsert,
                  PatchMerge, PatchSave, InsertRow
    <3> QED BY <1>5, <3>1, <3>2 DEF Fault, NoFault, revars
  <2>2. CASE StepOfCall(c)
    <3>1. calls' = calls
      BY <2>2 DEF StepOfCall, DeriveLoad, DeriveInsert, RoadmapLoad, BlindSave, ReviewDone,
                  ReviewFailed, ReviewList, ReviewInsert, ReviewMerge, ReviewSave, ReviewLink, counters
    <3>2. UNCHANGED calm \/ Fault \/ NoFault
      BY <2>2 DEF StepOfCall, DeriveLoad, DeriveInsert, RoadmapLoad, BlindSave, ReviewDone,
                  ReviewFailed, ReviewList, ReviewInsert, ReviewMerge, ReviewSave, ReviewLink, InsertRow
    <3> QED BY <1>5, <3>1, <3>2 DEF Fault, NoFault, revars
  <2> QED BY <1>5, <2>1, <2>2
<1>6. ASSUME NEW where, Crash(where) PROVE (calm' => calm) /\ calls' = calls /\ demand' = demand
  BY <1>6 DEF Crash
<1>7. /\ calm' => calm
      /\ calls' = calls \/ calls' = calls + 1
      /\ demand' = demand
  <2>1. CASE UNCHANGED vars BY <2>1 DEF vars, avars, revars, counters
  <2>2. CASE Next BY <1>2, <1>3, <1>4, <1>5, <1>6, <2>2 DEF Next
  <2> QED BY <2>1, <2>2
<1>8. calls' \in Nat
  <2>1. calls \in Nat BY DEF AloneInv
  <2> QED BY <1>7, <2>1
<1> QED BY <1>7, <1>8 DEF AloneInv

LEMMA AloneKeeps == AloneInv /\ [Next]_vars => AloneInv'
<1> SUFFICES ASSUME AloneInv, [Next]_vars PROVE AloneInv' OBVIOUS
<1>1. RevisionInv' /\ FilesInv' BY RevisionKeeps, FilesKeepTheirNames DEF AloneInv
<1>2. (calm' => calm) /\ calls' \in Nat /\ demand' \in Demands BY CalmEnds
<1> SUFFICES ASSUME calm' PROVE OneCall' /\ LoneVersions' /\ LoneFiles'
  BY <1>1, <1>2 DEF AloneInv
<1>3. calm /\ OneCall /\ LoneVersions /\ LoneFiles BY <1>2 DEF AloneInv
<1>4. CASE UNCHANGED vars
  <2>1. /\ UNCHANGED call /\ UNCHANGED job /\ UNCHANGED files /\ UNCHANGED told
        /\ UNCHANGED versions /\ UNCHANGED workspace /\ UNCHANGED planned
    BY <1>4 DEF vars, avars, revars, rows
  <2> QED BY <1>3, <2>1 DEF OneCall, Idle, LoneVersions, LoneFiles
<1>5. ASSUME NEW c \in Callers, NEW where, AnswerRequest(c, where)
      PROVE  OneCall' /\ LoneVersions' /\ LoneFiles'
  BY <1>5, LoneAnswers
<1>6. ASSUME NEW c \in Callers, RevisionRequest(c) PROVE OneCall' /\ LoneVersions' /\ LoneFiles'
  BY <1>6, LoneRequests
<1>7. ASSUME NEW c \in Callers, NEW op \in {"derive", "roadmap", "review"},
             NEW v \in DOMAIN versions, VersionCall(c, op, v)
      PROVE  OneCall' /\ LoneVersions' /\ LoneFiles'
  BY <1>7, LoneVersionCall
<1>8. ASSUME NEW c \in Callers, StepOfRun(c) PROVE OneCall' /\ LoneVersions' /\ LoneFiles'
  <2>1. CASE Open(c) \/ Fill(c)
    <3>1. LoneFiles' BY <1>3, <2>1, LoneOpens
    <3>2. PICK step \in {"open", "fill"} : In(c, step) BY <2>1 DEF Open, Fill
    <3>3. UNCHANGED versionState /\ UNCHANGED job /\ \A d \in Callers \ {c} : call'[d] = call[d]
      BY <2>1 DEF Open, Fill, Writes, End, AloneInv, RevisionInv, CallsInv
    <3>4. OneCall' /\ LoneVersions' BY <1>3, <3>2, <3>3, LoneFileStep
    <3> QED BY <3>1, <3>4
  <2>2. CASE Look(c) \/ Reread(c) BY <1>3, <2>2, LoneLooks
  <2>3. CASE Prompted(c) BY <1>3, <2>3, LonePrompts
  <2>4. CASE Patched(c) BY <1>3, <2>4, LonePatched
  <2>5. CASE GenerateNow(c) \/ ListArtifacts(c) BY <1>3, <2>5, LoneGenerates
  <2>6. CASE Generated(c) \/ GenerationFailed(c) BY <1>3, <2>6, LoneGenerated
  <2> QED BY <1>8, <2>1, <2>2, <2>3, <2>4, <2>5, <2>6 DEF StepOfRun
<1>9. ASSUME NEW c \in Callers, StepOfPatch(c) \/ StepOfCall(c), UNCHANGED revars
      PROVE  OneCall' /\ LoneVersions' /\ LoneFiles'
  BY <1>3, <1>9, LoneVersionStep
<1>10. ASSUME NEW where, Crash(where) PROVE FALSE BY <1>10 DEF Crash
<1> QED BY <1>4, <1>5, <1>6, <1>7, <1>8, <1>9, <1>10 DEF Next

(* Calls that come one after the other, with none cut off, leave what the user *)
(* did last: the answers, the stage, the draft and the version made last.      *)
THEOREM LoneCallsAgree == Spec => []AloneAgrees
<1>1. AloneInv => AloneAgrees
  <2> SUFFICES ASSUME AloneInv, calm, Quiet
               PROVE  /\ files.report.answers = told.answers /\ files.copy = told.answers
                      /\ LoadStage.entered = told.entered
                      /\ ServedConfirmed = told.confirmed
                      /\ LoadStage.status = "completed" => files.revised.extra = files.request
                      /\ PointersAreLast
    BY DEF AloneAgrees
  <2>1. LoneFiles /\ LoneVersions /\ VersionsInv /\ \A c \in Callers : call[c] = NoCall /\ job[c] = NoCall
    BY DEF AloneInv, RevisionInv, Quiet, Idle
  <2>2. Agrees(files, told) BY <2>1 DEF LoneFiles
  <2>3. /\ files.report.answers = told.answers /\ files.copy = told.answers
        /\ LoadStage.entered = told.entered
        /\ told.confirmed = IF LoadStage.confirmed THEN files.confirmed ELSE Missing
        /\ LoadStage.status = "completed" => files.revised.extra = files.request
    BY <2>2, Loaded DEF Agrees
  <2>4. UpToDate(workspace, planned, versions, DOMAIN versions) BY <2>1 DEF LoneVersions, Under
  <2>5. PointersAreLast
    <3> SUFFICES ASSUME workspace # Missing
                 PROVE  /\ \A k \in Keys :
                             workspace.current[k] = Max({0} \cup {v \in DOMAIN versions : versions[v].key = k})
                        /\ workspace.roadmap = planned
      BY DEF PointersAreLast
    <3>1. /\ workspace \in [current : [Keys -> Nat], roadmap : Nat] /\ workspace.roadmap = planned
          /\ PointsLast(workspace.current, versions, DOMAIN versions)
      BY <2>4 DEF UpToDate
    <3>2. ASSUME NEW k \in Keys
          PROVE  workspace.current[k] = Max({0} \cup {v \in DOMAIN versions : versions[v].key = k})
      <4> DEFINE S == {0} \cup {v \in DOMAIN versions : versions[v].key = k}
                 now == workspace.current[k]
      <4>1. S \in SUBSET Nat /\ issued \in Nat /\ \A v \in S : v <= issued
        BY <2>1 DEF VersionsInv, TableFits
      <4>2. now \in Nat BY <3>1
      <4>3. now \in S /\ \A v \in S : v <= now BY <3>1, <4>2 DEF PointsLast
      <4> HIDE DEF S, now
      <4>4. Max(S) \in S /\ \A v \in S : v <= Max(S) BY <4>1, <4>3, GreatestOfNaturals
      <4>5. now <= Max(S) /\ Max(S) <= now BY <4>3, <4>4
      <4>6. Max(S) \in Nat BY <4>1, <4>4
      <4>7. ASSUME NEW m \in Nat, now <= m, m <= now PROVE now = m BY <4>2, <4>7
      <4> QED BY <4>5, <4>6, <4>7 DEF S, now
    <3> QED BY <3>1, <3>2
  <2> QED BY <2>3, <2>5 DEF ServedConfirmed
<1> QED BY <1>1, AloneStarts, AloneKeeps, PTL DEF Spec
=============================================================================
