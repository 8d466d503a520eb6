--------------------------- MODULE LongTermMemory ---------------------------
(***************************************************************************)
(* What a review leaves for later ones: rules and risks of its findings,   *)
(* kept in one table by scope, and their recall at the start of a review.  *)
(*   memory/extraction.py, memory/repository.py, memory/retrieval.py,      *)
(*   memory/service.py, run_review.py, workflow.py,                        *)
(*   service/review_service.py: review_prd_text_async                      *)
(* A topic stands for the words of a text: texts of neighbouring topics    *)
(* are alike.  Rows are only added, and each query sees a state of the     *)
(* table, so the queries of one call are one step.  A run has no answers   *)
(* to its clarifications yet when it extracts: no candidate is made of one.*)
(***************************************************************************)
EXTENDS ReviewIngress, FiniteSets

CONSTANTS Learners,          \* the reviews
          Submissions,       \* what may be asked, as in ReviewIngress
          Results,           \* what a review may find: [findings, risks, overall]
          Modes,             \* of recall: off, assist, strict, hybrid
          MaxKept            \* the memories kept of one review

ASSUME LongTermMemoryAssumption == MaxKept \in Nat \ {0}

VARIABLES
    memories,    \* the table
    learner,     \* per review: its step, its request, what it recalls, what it has to save
    together     \* history: the pairs of reviews that extracted at the same time

longTermVars == <<memories, learner, together>>

LongTermInit ==
    /\ memories = {}
    /\ learner = [r \in Learners |-> [step |-> "new"]]
    /\ together = {}

----------------------------------------------------------------------------
(* extract_memory_candidates.  A finding: who found it (one of the gates),   *)
(* whether it is grave, whether its text hints at a rule and at a risk.      *)
Reuse(kind) == CASE kind = "team_rule" -> 90 [] kind = "risk_pattern" -> 86
                 [] kind = "risk_item" -> 83 [] OTHER -> 47
Confidence(kind) == CASE kind = "team_rule" -> 74 [] kind = "risk_pattern" -> 76
                      [] kind = "risk_item" -> 72 [] OTHER -> 61
TypeOf(kind) == IF kind = "risk_item" THEN "risk_pattern" ELSE kind

Candidate(kind, about) == [kind |-> kind, topic |-> about.topic, vague |-> about.vague]

OfFinding(f) ==
    IF ~f.grave THEN <<>>
    ELSE (IF f.gate /\ f.rule THEN <<Candidate("team_rule", f)>> ELSE <<>>)
         \o (IF f.risk THEN <<Candidate("risk_pattern", f)>> ELSE <<>>)

OfRisk(risk) == IF risk.grave /\ risk.mitigated THEN <<Candidate("risk_item", risk)>> ELSE <<>>

Candidates(result) ==
    FlattenSeq([i \in DOMAIN result.findings |-> OfFinding(result.findings[i])])
    \o FlattenSeq([i \in DOMAIN result.risks |-> OfRisk(result.risks[i])])
    \o IF result.overall = "high" /\ Len(result.findings) >= 2
       THEN <<Candidate("review_case", [topic |-> 0, vague |-> FALSE])>> ELSE <<>>

(* _build_scope *)
LevelOf(kind, request) ==
    CASE kind # "review_case" /\ request.team # "" -> "team"
      [] request.project # "" -> "project"
      [] request.team # "" -> "team"
      [] OTHER -> "global"

Scope(kind, request) ==
    LET level == LevelOf(kind, request)
    IN  [level |-> level,
         team |-> IF level = "team" THEN request.team ELSE "",
         project |-> IF level = "project" THEN request.project ELSE "",
         types |-> {request.type, request.profile} \ {"default"}]

----------------------------------------------------------------------------
(* gatekeep_memory_candidates: what is vague, or like a memory of the same  *)
(* type or an earlier candidate, goes; the best of the others stay.         *)
Near(t, u) == t = u \/ t + 1 = u \/ u + 1 = t
Like(a, b) == TypeOf(a.kind) = TypeOf(b.kind) /\ Near(a.topic, b.topic)

(* Those that pass the gate: one after the other, each is compared with the *)
(* memories and with those that passed before it.                           *)
Passing(candidates, existing) ==
    {passed \in SUBSET (1 .. Len(candidates)) :
        \A i \in 1 .. Len(candidates) :
            i \in passed <=> /\ ~candidates[i].vague
                             /\ \A m \in existing : ~Like(candidates[i], m)
                             /\ \A j \in passed : j < i => ~Like(candidates[i], candidates[j])}

Rank(candidate) == CASE candidate.kind = "team_rule" -> 0 [] candidate.kind = "risk_pattern" -> 1
                     [] candidate.kind = "risk_item" -> 2 [] OTHER -> 3

Better(a, b) == Rank(a) < Rank(b) \/ (Rank(a) = Rank(b) /\ a.topic < b.topic)

(* The best of those that passed, in order: all, or as many as are kept. *)
Ranked(passed, candidates) ==
    {o \in UNION {[1 .. n -> passed] : n \in 0 .. MaxKept} :
        /\ Len(o) = MaxKept \/ Range(o) = passed
        /\ \A i, j \in DOMAIN o :
              i < j => o[i] # o[j] /\ ~Better(candidates[o[j]], candidates[o[i]])
        /\ \A i \in DOMAIN o, k \in passed \ Range(o) :
              ~Better(candidates[k], candidates[o[i]])}

Gatekeep(candidates, existing) ==
    {[i \in DOMAIN o |-> candidates[o[i]]] :
        o \in UNION {Ranked(passed, candidates) : passed \in Passing(candidates, existing)}}

(* list_memory_by_scope: global, then the team's, then the project's *)
ExistingGlobal(request) == {m \in memories : m.scope.level = "global"}   \* Mutant: nothing of a team
Existing(request) ==
    {m \in memories :
        \/ m.scope.level = "global"
        \/ request.team # "" /\ m.scope.level = "team" /\ m.scope.team = request.team
        \/ request.project # "" /\ m.scope.level = "project" /\ m.scope.project = request.project}

----------------------------------------------------------------------------
(* retrieve_memories_with_diagnostics_async, the scores in ten-thousandths *)
ByType(request) == {m \in memories : request.type \in m.scope.types}

Shared(m, request) ==                    \* _risk_surface_similarity, in percent
    CASE m.topic = request.topic -> 60 [] Near(m.topic, request.topic) -> 20 [] OTHER -> 0

OfScope(m, request) ==
    CASE request.project # "" /\ m.scope.project = request.project -> 10000
      [] request.team # "" /\ m.scope.team = request.team -> 7500
      [] request.type \in m.scope.types -> 4500
      [] OTHER -> 0

OfSurface(m, request) ==
    LET s == Shared(m, request) * 100
    IN  IF s < 1800 THEN 0 ELSE IF s + 800 > 4000 THEN 4000 ELSE s + 800

OfMode(m, mode) ==
    CASE mode = "strict" /\ m.kind = "team_rule" -> 1000
      [] mode = "hybrid" /\ TypeOf(m.kind) \in {"team_rule", "risk_pattern"} -> 800
      [] OTHER -> 0

Score(m, request, mode) ==
    OfScope(m, request) + OfSurface(m, request)
      + Reuse(m.kind) * 18 + Confidence(m.kind) * 14 + OfMode(m, mode)

LowThreshold(mode) == 3000                            \* Mutant: the bar too low
Threshold(mode) == CASE mode = "strict" -> 7000 [] mode = "assist" -> 6600 [] OTHER -> 6000

Fitting(request, mode) ==
    {m \in Existing(request) \cup ByType(request) :
        /\ mode = "strict" => m.kind = "team_rule"
        /\ Score(m, request, mode) >= Threshold(mode)}

(* The three best; which of equals depends on their titles. *)
Chosen(request, mode) ==
    {c \in SUBSET Fitting(request, mode) :
        /\ Cardinality(c) = IF Cardinality(Fitting(request, mode)) < 3
                            THEN Cardinality(Fitting(request, mode)) ELSE 3
        /\ \A m \in c, n \in Fitting(request, mode) \ c :
              Score(m, request, mode) >= Score(n, request, mode)}

(* The review begins: its request is read and routed, its context prepared. *)
(* A table that cannot be read turns recall off.                            *)
Recall(r) ==
    /\ learner[r].step = "new"
    /\ \E s \in Submissions, mode \in Modes :
       /\ Routable(s)
       /\ \E request \in {Canonical(s, ranked) : ranked \in Rankings(s)} :
          \E c \in {{}} \cup (IF mode = "off" THEN {} ELSE Chosen(request, mode)) :
             learner' = [learner EXCEPT ![r] =
                 [step |-> "reviewing", request |-> request, recalled |-> c]]
    /\ UNCHANGED <<memories, together>>

(* route_review_profile raises before the review begins. *)
Unroutable(r) ==
    /\ learner[r].step = "new" /\ \E s \in Submissions : ~Routable(s)
    /\ learner' = [learner EXCEPT ![r] = [step |-> "done"]]
    /\ UNCHANGED <<memories, together>>

(* process_review_memory_extraction_async: the candidates are compared with *)
(* the table once, then saved one by one.                                   *)
Extracting == {q \in Learners : learner[q].step = "saving"}

Extract(r) ==
    /\ learner[r].step = "reviewing"
    /\ \E result \in Results :
       \E kept \in Gatekeep(Candidates(result), Existing(learner[r].request)) :
          learner' = [learner EXCEPT ![r] =
              [step |-> "saving", request |-> learner[r].request, saved |-> 0, kept |-> kept]]
    /\ together' = together \cup {{r, q} : q \in Extracting}
    /\ UNCHANGED memories

Upsert(memory) == {m \in memories : m.id # memory.id} \cup {memory}

SaveMemory(r) ==
    /\ learner[r].step = "saving" /\ learner[r].saved < Len(learner[r].kept)
    /\ LET i == learner[r].saved + 1
           c == learner[r].kept[i]
       IN  memories' = Upsert([id |-> <<r, i>>, kind |-> c.kind, topic |-> c.topic,
                               scope |-> Scope(c.kind, learner[r].request)])
    /\ learner' = [learner EXCEPT ![r].saved = @ + 1]
    /\ UNCHANGED together

(* All is saved, or one could not be: the rest is skipped, the review goes on. *)
EndExtraction(r) ==
    /\ learner[r].step = "saving"
    /\ learner' = [learner EXCEPT ![r] = [step |-> "done"]]
    /\ UNCHANGED <<memories, together>>

LongTermNext ==
    \E r \in Learners :
        Recall(r) \/ Unroutable(r) \/ Extract(r) \/ SaveMemory(r) \/ EndExtraction(r)

----------------------------------------------------------------------------
(* Two memories of one type and one scope are alike only if their reviews  *)
(* extracted at the same time; one review never keeps two alike.           *)
OneMemoryOfAKind ==
    \A a, b \in memories :
        /\ a # b /\ Like(a, b)
        /\ [a.scope EXCEPT !.types = {}] = [b.scope EXCEPT !.types = {}]
        => {a.id[1], b.id[1]} \in together

(* What is recalled has a ground: it is of the project, of the team or of the *)
(* type asked for, or it resembles the requirement.  A memory of another team *)
(* or project comes in by its type only.                                      *)
RecallHasGround ==
    \A r \in Learners : learner[r].step = "reviewing" =>
        \A m \in learner[r].recalled :
            /\ OfScope(m, learner[r].request) > 0 \/ OfSurface(m, learner[r].request) > 0
            /\ m \in Existing(learner[r].request) \/ learner[r].request.type \in m.scope.types
=============================================================================
