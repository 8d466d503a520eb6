----------------------------- MODULE MCPlatform -----------------------------
(* Four submissions: of a team and a project, of another team with a hint,  *)
(* of a page without either, and one with the hint that cannot be routed.   *)
(* Two results: a rule and a risk; three findings that make alike memories. *)
EXTENDS Platform

NoSignals == [p \in Profiles |-> 0]

Asked(source, team, project, how, hint, signals, topic) ==
    [source |-> source, team |-> team, project |-> project, asked |-> "", how |-> how,
     hint |-> hint, signals |-> signals, topic |-> topic]

MCSubmissions ==
    {Asked("feishu", "t1", "p1", "text", "", NoSignals, 0),
     Asked("web", "t2", "", "text", "security", NoSignals, 1),
     Asked("page", "", "", "url", "", [NoSignals EXCEPT !["data_sensitive"] = 1], 3),
     Asked("web", "t1", "", "text", "default", NoSignals, 0)}

Finding(rule, risk, topic) ==
    [gate |-> TRUE, grave |-> TRUE, rule |-> rule, risk |-> risk, topic |-> topic, vague |-> FALSE]

MCResults ==
    {[findings |-> <<Finding(TRUE, FALSE, 3)>>, overall |-> "low",
      risks |-> <<[grave |-> TRUE, mitigated |-> TRUE, topic |-> 1, vague |-> FALSE]>>],
     [findings |-> <<Finding(TRUE, TRUE, 0), Finding(TRUE, FALSE, 1)>>, overall |-> "high",
      risks |-> <<>>]}
=============================================================================
