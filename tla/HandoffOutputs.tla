---------------------------- MODULE HandoffOutputs ----------------------------
(***************************************************************************)
(* What a finished review hands on: packs, prompts, a PRD draft, a task    *)
(* bundle and the delivery bundle, each of which may fail by itself.  The  *)
(* server makes them once; the MCP process makes them again on a retry, or *)
(* only the bundle.  Any of them is cut off where it stands when a process *)
(* dies: a file is emptied before it is filled, so it may be left torn.    *)
(* Which document they are made from is left out, but not whether one is.  *)
(*   service/review_service.py: build_delivery_handoff_outputs,            *)
(*   build_handoff_prompts, _resolve_handoff_source,                       *)
(*   generate_delivery_bundle_for_mcp;                                     *)
(*   monitoring/retry.py: _retry_bundle_generation                         *)
(***************************************************************************)
EXTENDS Naturals, FiniteSets

CONSTANTS Packs,               \* the code has three, the prompts need one of them
          Prompts,             \* the code has three
          MaxGenerations       \* bound on the generations and edits that begin

ASSUME HandoffAssumption ==
    /\ "execution_pack" \in Packs /\ Packs \cap Prompts = {}
    /\ {"task_bundle_v1", "delivery_bundle"} \cap (Packs \cup Prompts) = {}
    /\ MaxGenerations \in Nat

VARIABLES
    document,    \* is there one to work from: the request's, or a revision's
    disk,        \* the artifacts that are whole: a torn one serves no more than none
    report,      \* report.json: has it a document, which artifacts does it list
    told,        \* the latest bundle_generation event of the audit log
    maker,       \* per process: the generation or edit it is at, or none
    generations, \* how many have begun
    interrupted    \* history: since the last one that made everything began with no
                 \* other at work, two met, or one was cut off or not told of

handoffVars == <<document, disk, report, told, maker, generations, interrupted>>

Makers == {"server", "mcp"}
Outputs == Packs \cup Prompts \cup {"task_bundle_v1", "delivery_bundle"}   \* not the draft
Nobody == [step |-> "none"]
Torn == [text |-> "torn", doc |-> FALSE, lists |-> {}]
NobodyWorks == \A p \in Makers : maker[p] = Nobody

HandoffInit ==
    /\ document \in BOOLEAN
    /\ disk = {}
    /\ report = [text |-> "whole", doc |-> document, lists |-> {}]
    /\ told = [kind |-> "none", status |-> "none"]
    /\ maker = [p \in Makers |-> Nobody]
    /\ generations = 0 /\ interrupted = FALSE

(* The user's revision stands in for a document that is missing. *)
Revise ==
    /\ report.text = "whole" /\ generations > 0 /\ ~document
    /\ document' = TRUE
    /\ UNCHANGED <<disk, report, told, maker, generations, interrupted>>

----------------------------------------------------------------------------
(* _resolve_handoff_source: a confirmed revision, what the report or the   *)
(* request has, or a draft for want of these.                              *)
HandoffSource == report.doc \/ document

(* The paths a later generation begins with, whether or not the files exist. *)
PathsGiven(kind) == IF kind = "first" THEN {} ELSE Packs

FilesOf(step) ==
    CASE step = "packs"   -> Packs
      [] step = "prompts" -> Prompts
      [] step = "tasks"   -> {"task_bundle_v1"}
      [] step = "bundle"  -> {"delivery_bundle"}    \* and the five texts it refers to
      [] OTHER            -> {}

At(step, kind) ==
    [step |-> step, kind |-> kind, doc |-> HandoffSource, todo |-> FilesOf(step),
     writing |-> "nothing", made |-> {}, ends |-> {}, seen |-> report]

Starts(p, now) ==
    /\ maker[p] = Nobody /\ generations < MaxGenerations
    /\ report.text = "whole"               \* or nothing is found to work on
    /\ maker' = [maker EXCEPT ![p] = now]
    /\ generations' = generations + 1
    /\ interrupted' = (~NobodyWorks \/ (interrupted /\ now.kind \notin {"first", "retry"}))
    /\ UNCHANGED <<document, disk, report, told>>

(* The server's own at the end of the review, which has written the report;  *)
(* a retry of everything, or the bundle alone, over MCP.                     *)
Begin(p, kind) ==
    /\ kind = "first" <=> p = "server"
    /\ kind = "first" <=> generations = 0
    /\ Starts(p, At(IF kind = "bundle" THEN "bundle" ELSE "packs", kind))

(* Answers, revisions and roadmaps read the report and write it back whole. *)
BeginEdit(p) == generations > 0 /\ Starts(p, At("report", "edit"))

----------------------------------------------------------------------------
(* write_text empties a file, then fills it.  An exception before or after   *)
(* is caught by the stage, which goes on with its next file.                 *)
StartFile(p, f) ==
    /\ f \in maker[p].todo /\ maker[p].writing = "nothing"
    /\ \/ /\ maker' = [maker EXCEPT ![p].writing = f]
          /\ disk' = disk \ {f}
       \/ /\ maker[p].kind # "bundle"
          /\ maker' = [maker EXCEPT ![p].todo = @ \ {f}]
          /\ UNCHANGED disk

SharesFile(p) == \E q \in Makers \ {p} : maker[q] # Nobody /\ maker[q].writing = maker[p].writing

(* Two writers at once may leave a mixture of their texts. *)
FinishFile(p) ==
    /\ maker[p].step # "none" /\ maker[p].writing \in maker[p].todo
    /\ LET f == maker[p].writing
           over == [maker[p] EXCEPT !.todo = @ \ {f}, !.writing = "nothing"]
       IN \/ /\ \/ disk' = disk \cup {f}
                \/ SharesFile(p) /\ UNCHANGED disk
             /\ maker' = [maker EXCEPT ![p] = [over EXCEPT !.made = @ \cup {f}]]
          \/ /\ maker[p].kind # "bundle"
             /\ maker' = [maker EXCEPT ![p] = over]
             /\ UNCHANGED disk
    /\ UNCHANGED <<document, report, told, generations, interrupted>>

NextStep(step) ==
    CASE step = "packs"   -> "prompts"
      [] step = "prompts" -> "draft"
      [] step = "draft"   -> "tasks"
      [] step = "tasks"   -> "bundle"
      [] OTHER            -> "trace"

EndAs(p, end) ==
    LET next == NextStep(maker[p].step) IN
    /\ maker[p].writing = "nothing"
    /\ maker' = [maker EXCEPT ![p].step = next, ![p].todo = FilesOf(next),
                              ![p].ends = @ \cup {end}]

EndOf(failed, all) ==
    CASE failed = {} -> "ok" [] failed = all -> "failed" [] OTHER -> "partial_success"

EndStage(p) ==
    /\ maker[p].step \in {"packs", "prompts", "tasks", "bundle"}
    /\ maker[p].todo = {}
    /\ EndAs(p, EndOf(FilesOf(maker[p].step) \ maker[p].made, FilesOf(maker[p].step)))
    /\ UNCHANGED <<document, disk, report, told, generations, interrupted>>

(* The execution pack comes last. *)
MakePacks(p) ==
    /\ maker[p].step = "packs"
    /\ \E f \in Packs : StartFile(p, f) /\ (f = "execution_pack" => maker[p].todo = {f})
    /\ UNCHANGED <<document, report, told, generations, interrupted>>

(* build_handoff_prompts: before the first the execution pack is read.     *)
MakePrompts(p) ==
    /\ maker[p].step = "prompts"
    /\ \/ /\ maker[p].todo = Prompts => "execution_pack" \in maker[p].made
                                         /\ "execution_pack" \in disk
          /\ \E f \in Prompts : StartFile(p, f)
       \/ /\ maker[p].todo = Prompts
          /\ \/ "execution_pack" \notin maker[p].made /\ EndAs(p, "skipped")
             \/ /\ "execution_pack" \in maker[p].made
                /\ "execution_pack" \notin disk /\ EndAs(p, "failed")
          /\ UNCHANGED disk
    /\ UNCHANGED <<document, report, told, generations, interrupted>>

(* The draft is of the document in report.json, which still is that of the *)
(* generation before; only without one is it of the source just resolved.  *)
DraftSource(p) == report.doc \/ maker[p].doc

MakeDraft(p) ==
    /\ maker[p].step = "draft"
    /\ \E end \in IF DraftSource(p) THEN {"ok", "failed"} ELSE {"skipped"} : EndAs(p, end)
    /\ UNCHANGED <<document, disk, report, told, generations, interrupted>>

(* generate_task_bundle_v1_artifact makes do with whatever the report has. *)
MakeTasks(p) ==
    /\ maker[p].step = "tasks" /\ StartFile(p, "task_bundle_v1")
    /\ UNCHANGED <<document, report, told, generations, interrupted>>

(* _generate_delivery_bundle wants a path of every pack, not the file.     *)
MakeBundle(p) ==
    /\ maker[p].step = "bundle"
    /\ \/ /\ Packs \subseteq maker[p].made \cup PathsGiven(maker[p].kind)
          /\ StartFile(p, "delivery_bundle")
       \/ /\ ~(Packs \subseteq maker[p].made \cup PathsGiven(maker[p].kind))
          /\ EndAs(p, "failed") /\ UNCHANGED disk
    /\ UNCHANGED <<document, report, told, generations, interrupted>>

----------------------------------------------------------------------------
(* report.json is read again.  One that is torn is left as it is, and the  *)
(* generation goes on to its event; only the bundle over MCP writes a new  *)
(* one, of nothing but its artifacts.                                      *)
LoadReport(p) ==
    /\ maker[p].step = "trace"
    /\ LET next == IF report.text = "whole" \/ maker[p].kind = "bundle" THEN "report" ELSE "tell"
       IN maker' = [maker EXCEPT ![p].step = next, ![p].seen = report]
    /\ UNCHANGED <<document, disk, report, told, generations, interrupted>>

EmptyReport(p) ==
    /\ maker[p].step = "report" /\ maker[p].writing = "nothing"
    /\ report' = Torn
    /\ maker' = [maker EXCEPT ![p].writing = "report"]
    /\ UNCHANGED <<document, disk, told, generations, interrupted>>

(* What was read, with what was made. *)
Saved(p) ==
    [text  |-> "whole",
     doc   |-> maker[p].seen.doc \/ (maker[p].kind \in {"first", "retry"} /\ maker[p].doc),
     lists |-> maker[p].seen.lists \cup maker[p].made]

SaveReport(p) ==
    /\ maker[p].step = "report" /\ maker[p].writing = "report"
    /\ report' = Saved(p) \/ (SharesFile(p) /\ UNCHANGED report)
    /\ maker' = [maker EXCEPT ![p] = IF @.kind = "edit" THEN Nobody
                                     ELSE [@ EXCEPT !.step = "tell", !.writing = "nothing"]]
    /\ UNCHANGED <<document, disk, told, generations, interrupted>>

(* _combine_operation_status, of the statuses a stage can have *)
CombinedByLast(ends) ==           \* Mutant: only a failed stage counts
    IF "failed" \in ends THEN "partial_success" ELSE "ok"
Combined(ends) ==
    IF ends \subseteq {"ok", "skipped"} THEN "ok"
    ELSE IF ends \cap {"ok", "partial_success"} = {} THEN "failed" ELSE "partial_success"

(* _append_audit_event_safe: an event that cannot be written is dropped.   *)
Tell(p) ==
    /\ maker[p].step = "tell"
    /\ \/ told' = [kind |-> maker[p].kind, status |-> Combined(maker[p].ends)]
          /\ UNCHANGED interrupted
       \/ interrupted' = TRUE /\ UNCHANGED told
    /\ maker' = [maker EXCEPT ![p] = Nobody]
    /\ UNCHANGED <<document, disk, report, generations>>

(* The process dies, or an exception leaves the generation: a file outside  *)
(* the stages, or any file of the bundle over MCP.  What was being written  *)
(* stays torn.                                                              *)
Abandon(p) ==
    /\ maker[p] # Nobody
    /\ maker' = [maker EXCEPT ![p] = Nobody]
    /\ interrupted' = TRUE
    /\ UNCHANGED <<document, disk, report, told, generations>>

HandoffNext ==
    \/ Revise
    \/ \E p \in Makers :
          \/ \E kind \in {"first", "retry", "bundle"} : Begin(p, kind)
          \/ BeginEdit(p)
          \/ MakePacks(p) \/ MakePrompts(p) \/ MakeDraft(p) \/ MakeTasks(p) \/ MakeBundle(p)
          \/ FinishFile(p) \/ EndStage(p)
          \/ LoadReport(p) \/ EmptyReport(p) \/ SaveReport(p) \/ Tell(p) \/ Abandon(p)

----------------------------------------------------------------------------
(* When nobody is at work and the log's latest event says of a whole        *)
(* generation that it went well, every pack, prompt and bundle is there to  *)
(* the last byte, and report.json lists them all: no stage failed unnoticed, *)
(* a stage that was skipped hides no other's failure, and what an earlier    *)
(* generation left torn has been made again.  It takes no other at work      *)
(* beside that one, and none cut off or not told of since.                   *)
OkIsWhole ==
    NobodyWorks /\ ~interrupted /\ told.kind \in {"first", "retry"} /\ told.status = "ok"
        => Outputs \subseteq disk \cap report.lists
=============================================================================
