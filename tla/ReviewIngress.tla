---------------------------- MODULE ReviewIngress ----------------------------
(***************************************************************************)
(* What a request for a review is taken to ask for: its source, team,      *)
(* project and type, and the profile whose checklist and rules it gets.    *)
(*   review/ingress_normalization.py, review/profile_router.py             *)
(* A submission is a record                                                *)
(*   [source, team, project, asked, how, hint, signals, topic]             *)
(* of strings, "" where it says nothing; "asked" is the type it gives,     *)
(* "how" the way the text came, "signals" how many keywords of each        *)
(* profile the text has, "topic" what it is about.                         *)
(***************************************************************************)
EXTENDS Naturals, Sequences, SequencesExt

Profiles == {"admin_backoffice", "data_sensitive", "approval_workflow", "growth_analytics"}

(* Equal scores keep the order of a set of strings, which no one chose.    *)
ProfileOrders == {o \in [1 .. 4 -> Profiles] : \A i, j \in 1 .. 4 : i # j => o[i] # o[j]}

----------------------------------------------------------------------------
(* normalize_ingress_request *)
SourceOf(s) == IF s.source \in {"feishu", "web", "cli", "mcp", "hook"} THEN s.source ELSE "unknown"

(* _resolve_requirement_type: the type given, if it is known; else the way  *)
(* the text came.                                                           *)
RequirementType(s) ==
    CASE s.asked \in {"prd", "requirement", "product_requirement"} -> "product_requirement"
      [] s.asked \in {"bug", "bugfix", "bug_report"} -> "bug_report"
      [] s.asked \in {"task", "ticket", "task_request"} -> "task_request"
      [] s.asked = "" /\ s.how \in {"text", "path"} -> "product_requirement"
      [] s.asked = "" /\ s.how = "jira" -> "task_request"
      [] OTHER -> "unknown"

----------------------------------------------------------------------------
(* route_review_profile.  "default" is a supported hint without a score:    *)
(* the lookup raises.                                                       *)
HintedProfile(hint) ==
    CASE hint \in Profiles \cup {"default"} -> hint
      [] hint \in {"security", "security_heavy"} -> "data_sensitive"
      [] hint = "analytics" -> "growth_analytics"
      [] hint = "admin" -> "admin_backoffice"
      [] hint = "approval" -> "approval_workflow"
      [] OTHER -> ""

Routable(s) == HintedProfile(s.hint) # "default"

ProfileScore(s, p) == 2 * s.signals[p] + IF HintedProfile(s.hint) = p THEN 3 ELSE 0

(* The profiles by score, the highest first. *)
Rankings(s) ==
    {o \in ProfileOrders : \A i \in 1 .. 3 : ProfileScore(s, o[i]) >= ProfileScore(s, o[i + 1])}

FirstTwo(seq) == SubSeq(seq, 1, IF Len(seq) < 2 THEN Len(seq) ELSE 2)

Route(s, ranked) ==
    LET top == ProfileScore(s, ranked[1])
        second == ProfileScore(s, ranked[2])
    IN  IF top < 2 \/ top = second
        THEN [selected |-> "default",
              secondary |-> FirstTwo(SelectSeq(ranked, LAMBDA p : ProfileScore(s, p) > 0))]
        ELSE [selected |-> ranked[1],
              secondary |-> FirstTwo(SelectSeq(Tail(ranked), LAMBDA p : ProfileScore(s, p) >= 2))]

(* load_profile_pack: the profiles whose items make up the checklist and    *)
(* the rules of the review, in order.                                       *)
PackProfiles(route) ==
    <<"default">> \o (IF route.selected = "default" THEN <<>> ELSE <<route.selected>>)
                  \o SelectSeq(route.secondary, LAMBDA p : p # route.selected)

----------------------------------------------------------------------------
(* What the rest of a review reads of it. *)
Canonical(s, ranked) ==
    [source |-> SourceOf(s), team |-> s.team, project |-> s.project,
     type |-> RequirementType(s), topic |-> s.topic,
     profile |-> Route(s, ranked).selected,
     pack |-> PackProfiles(Route(s, ranked))]
=============================================================================
