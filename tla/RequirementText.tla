--------------------------- MODULE RequirementText ---------------------------
(***************************************************************************)
(* What the normaliser reads out of a requirement's text.                  *)
(*   review/normalizer.py                                                  *)
(*                                                                         *)
(* A text is a sequence of lines with its length class.  A line keeps what *)
(* the patterns see of it: whether it is a heading and under which title,  *)
(* the words it holds (one for each class of words the patterns tell       *)
(* apart), the names quoted in it and the roles it names.  Equal lines are *)
(* equal texts, so a set of lines has no duplicates, as _dedupe leaves it. *)
(***************************************************************************)
EXTENDS Integers, Sequences, FiniteSets

Titles == {"none", "flows", "acceptance", "scope", "non-goals", "other"}
Words == {"flow", "must", "acceptance", "api", "integration", "failure", "rollback",
          "audit", "sso", "encryption"}

FlowWords == {"flow"}
CriterionWords == {"must", "acceptance"}
DependencyWords == {"api", "integration", "sso"}
RiskWords == {"failure", "rollback", "audit"}
SensitiveWords == {"audit", "sso", "encryption"}
(* GatingConfig: risk_keywords and cross_system_keywords *)
GateRiskWords == {"rollback", "audit", "encryption"}
GateCrossWords == {"integration"}

Line(kind, title, words, modules, roles) ==
    [kind |-> kind, title |-> title, words |-> words, modules |-> modules, roles |-> roles]
(* The heading's own words are part of its text. *)
Heading(title) ==
    Line("heading", title,
         CASE title = "flows" -> {"flow"} [] title = "acceptance" -> {"acceptance"}
           [] OTHER -> {}, {}, {})
Text(words) == Line("text", "none", words, {}, {})

----------------------------------------------------------------------------
(* Lines of the section a line stands in: under the last heading above it. *)
SectionOf(lines, i) ==
    LET above == {j \in 1 .. (i - 1) : lines[j].kind = "heading"}
    IN  IF above = {} THEN "none"
        ELSE lines[CHOOSE j \in above : \A k \in above : k <= j].title

(* _extract_section_items and _extract_scope_items *)
SectionItems(lines, titles) ==
    {lines[i] : i \in {j \in DOMAIN lines : /\ lines[j].kind = "text"
                                             /\ SectionOf(lines, j) \in titles}}

(* _extract_matching_lines: headings are lines as well. *)
MatchingLines(lines, words) ==
    {lines[i] : i \in {j \in DOMAIN lines : lines[j].words \cap words # {}}}

(* The fallback for a text without such a section. *)
ItemsOrLines(lines, titles, words) ==
    IF SectionItems(lines, titles) # {} THEN SectionItems(lines, titles)
    ELSE MatchingLines(lines, words)

(* _extract_summary: the first paragraph that is not a heading *)
SummaryFound(lines) == \E i \in DOMAIN lines : lines[i].kind = "text"

AllWords(lines) == UNION {lines[i].words : i \in DOMAIN lines}

(* normalize_requirement, as far as the gate and the reviewers look: summ: a *)
(* summary was found; acc, deps, risks, mods, roles: how many criteria,      *)
(* dependency hints, risk hints, modules and roles; sens: a security word    *)
(* occurs; kw, cross: how many keywords of the gate; extra: how many of      *)
(* headings, in-scope and out-of-scope items there are.                      *)
Normalized(doc) ==
    LET lines == doc.lines
        found == {titles \in {{"scope"}, {"non-goals"}} : SectionItems(lines, titles) # {}}
    IN  [summ |-> SummaryFound(lines),
         scen |-> (ItemsOrLines(lines, {"flows"}, FlowWords) # {}),
         acc |-> Cardinality(ItemsOrLines(lines, {"acceptance"}, CriterionWords)),
         deps |-> Cardinality(MatchingLines(lines, DependencyWords)),
         risks |-> Cardinality(MatchingLines(lines, RiskWords)),
         mods |-> Cardinality(UNION {lines[i].modules : i \in DOMAIN lines}),
         roles |-> Cardinality(UNION {lines[i].roles : i \in DOMAIN lines}),
         sens |-> (AllWords(lines) \cap SensitiveWords # {}),
         kw |-> Cardinality(AllWords(lines) \cap GateRiskWords),
         cross |-> Cardinality(AllWords(lines) \cap GateCrossWords),
         extra |-> Cardinality(found)
                     + (IF \E i \in DOMAIN lines : lines[i].kind = "heading" THEN 1 ELSE 0),
         size |-> doc.size]
=============================================================================
