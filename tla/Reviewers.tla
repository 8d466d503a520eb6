----------------------------- MODULE Reviewers -----------------------------
(***************************************************************************)
(* Who reviews a requirement: the gate that picks the depth of the review, *)
(* the choice of the reviewers and the rules each of them applies.         *)
(*   review/gating.py, review/parallel_review_manager.py,                  *)
(*   review/reviewer_agents                                                *)
(*                                                                         *)
(* A requirement q is what RequirementText!Normalized keeps of a text.  A  *)
(* topic stands for a title with its detail.                               *)
(***************************************************************************)
EXTENDS RequirementText

ReviewerNames == {"product", "engineering", "qa", "security"}
ReviewerOrder == <<"product", "engineering", "qa", "security">>
RequestedModes == {"auto", "quick", "full"}

Larger(a, b) == IF a >= b THEN a ELSE b

----------------------------------------------------------------------------
(* decide_review_mode *)
CompletenessSignals(q) ==
    {s \in {"summary", "scenarios", "acceptance", "modules", "roles", "dependencies"} :
        CASE s = "summary" -> q.summ
          [] s = "scenarios" -> q.scen
          [] s = "acceptance" -> q.acc > 0
          [] s = "modules" -> q.mods > 0
          [] s = "roles" -> q.roles > 0
          [] s = "dependencies" -> q.deps > 0}

CompletenessScore(q) == Cardinality(CompletenessSignals(q)) + q.extra

RiskHits(q) == Larger(q.kw, q.risks)
CrossHits(q) == Larger(q.cross, q.deps)

ComplexityScore(q) ==
    Cardinality({s \in {"long", "detailed", "risk", "cross", "modules"} :
        CASE s = "long" -> q.size = "long"
          [] s = "detailed" -> CompletenessScore(q) >= 4
          [] s = "risk" -> RiskHits(q) >= 2
          [] s = "cross" -> CrossHits(q) >= 1
          [] s = "modules" -> q.mods >= 3})

TooSparse(q) == q.size = "sparse" /\ CompletenessScore(q) <= 1
NeedsFull(q) == ComplexityScore(q) >= 2 \/ RiskHits(q) >= 2 \/ CrossHits(q) >= 1

SelectedMode(q, requested) ==
    CASE requested # "auto" -> requested
      [] requested = "auto" /\ TooSparse(q) -> "skip"
      [] requested = "auto" /\ ~TooSparse(q) /\ NeedsFull(q) -> "full"
      [] OTHER -> "quick"

----------------------------------------------------------------------------
(* select_reviewers: nobody wanted falls back to the product reviewer. *)
Wanted(q, r) ==
    CASE r = "product" -> q.scen \/ q.acc > 0 \/ q.summ
      [] r = "engineering" -> q.mods > 0 \/ q.deps > 0 \/ q.roles >= 3
      [] r = "qa" -> q.acc > 0 \/ q.scen \/ q.risks > 0
      [] r = "security" -> q.sens \/ q.risks > 0

Selected(q) ==
    LET wanted == {r \in ReviewerNames : Wanted(q, r)}
    IN  IF wanted = {} THEN {"product"} ELSE wanted

----------------------------------------------------------------------------
Finding(cat, topic, sev) == [cat |-> cat, topic |-> topic, sev |-> sev]
Risk(topic, sev) == [topic |-> topic, sev |-> sev]
When(c, S) == IF c THEN S ELSE {}

(* An answer: findings, risks, open questions, whether the reviewer names an *)
(* ambiguity and asks about it, and the semantic signals its wording carries. *)
NoAnswer == [findings |-> {}, risks |-> {}, questions |-> {}, ambiguous |-> FALSE,
             signals |-> {}]

ProductAnswer(q) ==
    [findings |-> When(~q.scen, {Finding("scope", "scenarios", "high")})
                    \cup When(q.acc = 0, {Finding("acceptance", "criteria", "high")}),
     risks |-> {},
     questions |-> When(~q.summ, {"goal"}) \cup When(q.scen /\ q.roles = 0, {"roles"}),
     ambiguous |-> ~q.summ,
     signals |-> {}]

EngineeringAnswer(q) ==
    LET unbounded == q.deps > 0 /\ q.mods = 0
    IN  [findings |-> When(unbounded, {Finding("architecture", "boundaries", "medium")}),
         risks |-> When(q.deps >= 2, {Risk("sequencing", "high")}),
         questions |-> When(q.roles >= 4, {"owners"}),
         ambiguous |-> unbounded,
         signals |-> When(unbounded \/ q.deps >= 2, {"dependency_blocker"})]

QaAnswer(q) ==
    LET thin == q.risks > 0 /\ q.acc < q.risks
    IN  [findings |-> When(q.acc = 0, {Finding("testability", "oracle", "high")})
                        \cup When(thin, {Finding("testability", "edges", "medium")}),
         risks |-> When(q.risks > 0, {Risk("regression", "medium")}),
         questions |-> When(q.scen /\ q.acc = 0, {"validation"}),
         ambiguous |-> (q.acc = 0),
         signals |-> When(q.acc = 0 \/ thin, {"testability_gap"})]

SecurityAnswer(q) ==
    [findings |-> When(q.sens /\ q.risks = 0, {Finding("security", "controls", "high")}),
     risks |-> When(q.sens, {Risk("gate", "high")}),
     questions |-> When(q.sens /\ q.acc = 0, {"checks"}),
     ambiguous |-> (q.sens /\ q.risks = 0),
     signals |-> When(q.sens, {"approval_blocker"})]

AnswerOf(q, r) ==
    CASE r = "product" -> ProductAnswer(q)
      [] r = "engineering" -> EngineeringAnswer(q)
      [] r = "qa" -> QaAnswer(q)
      [] r = "security" -> SecurityAnswer(q)
============================================================================
