--------------------------- MODULE MCCommandGateway ---------------------------
EXTENDS CommandGateway, TLC

CONSTANTS c1, c2, doc

(* Both commands connect the same document. *)
Connected == [c \in Commands |-> doc]

RiskyOrClean == {[risky |-> r, findings |-> FALSE] : r \in BOOLEAN}
AnyReview == [risky : BOOLEAN, findings : BOOLEAN]

(* One command that meets a fault anywhere, or two commands that meet in    *)
(* the domain: over the opportunity, over the PRD, over the evidence.       *)
Pairs == {<<"generate", "generate_prd">>, <<"generate_prd", "prepare_delivery">>,
          <<"prepare_delivery", "prepare_delivery">>, <<"connect_feishu", "generate">>}

(* A second row of a table is for the command that could make one too many: *)
(* beside it the owners and the gate decide, and nothing else is going on.  *)
Quiet == /\ \A d \in deliveries : d.cmd # NoCommand
         /\ \A a \in Assessors : assess[a] \in IF kind[c1] = "prepare_delivery" THEN {0, 2} ELSE {0}
         /\ \A o \in DOMAIN opps : opps[o].status = "approved"

(* Evidence is taken back only while no opportunity rests on it. *)
Mixes ==
  /\ Len(insights) = 2 \/ Len(opps) = 2 => kind[c1] = "generate" /\ kind[c2] = "none"
  /\ Len(opps) = 2 => prds = <<>> /\ sources = 0 /\ Len(insights) = 1
  /\ Len(prds) = 2 \/ sources > Len(prds) + 1 =>
        /\ kind[c1] \in {"generate_prd", "prepare_delivery"} /\ kind[c2] = "none"
        /\ insights = <<>> /\ Quiet
  /\ opps # <<>> => evidence[doc] = "confirmed"
  /\ \/ kind[c2] = "none"
     \/ <<kind[c1], kind[c2]>> \in Pairs /\ faults = 0
============================================================================
