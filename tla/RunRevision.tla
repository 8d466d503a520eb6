---------------------------- MODULE RunRevision ----------------------------
(***************************************************************************)
(* What happens to a run after its review: the user answers clarification  *)
(* questions, and asks for a revised PRD, which a model writes from the    *)
(* review, the answers and the user's instructions and the user confirms,  *)
(* has written again, or does without.  All of it is files in the run's    *)
(* directory.  The handlers are coroutines of the server: each runs to its *)
(* next await, so only answers with a patch and generations, which await   *)
(* a patch and the model, have others in between.  Answers, with and       *)
(* without a patch, also come over MCP, from a process that takes no       *)
(* notice of the server.                                                   *)
(***************************************************************************)
EXTENDS ArtifactVersions

CONSTANTS
  Order,        \* the questions the review asks, in order; none: no gate
  Findings,     \* the findings questions may be about
  Lists,        \* question -> the findings it is about
  Answers, LongAnswers,   \* answers, and those long enough to lower a severity
  Submissions,  \* lists of answers users send: functions of question ids
  Demands       \* what may be asked for in a behaviour: kinds of requests, lists
                \* of answers, and how many calls, a bound of the model

Questions == ToSet(Order)

ASSUME RevisionAssumption ==
  /\ Order \in Seq(Questions) /\ Missing # "high"
  /\ LongAnswers \subseteq Answers
  /\ Lists \in [Questions -> SUBSET Findings]
  /\ \A g \in Submissions : \A id \in DOMAIN g : g[id] \in Answers
  /\ \A d \in Demands : d.answers \subseteq Submissions /\ d.calls \in 0..MaxCalls

VARIABLES
  files,   \* the files of the run
  call,    \* the handler each coroutine is inside of
  told,    \* history: the answers given, whether a revision has been entered,
           \* and the draft that is confirmed
  safe,    \* history: no answer with a patch or over MCP, and no crash
  demand   \* what is asked for in this behaviour

revars == <<files, call, told, safe, demand>>
vars == <<avars, revars>>
versionState == <<rows, disk, issued, children, planned>>

-----------------------------------------------------------------------------
(* The clarification gate.                                                 *)

ResolvedSeverity(answer, severity) ==
  IF answer \in LongAnswers /\ severity = "high" THEN "medium" ELSE severity

OriginalNow(f) == f.severity
OriginalSeverity(f) == IF f.original = Missing THEN f.severity ELSE f.original

Clarified(f, answer) ==
  [says |-> answer, original |-> OriginalSeverity(f),
   severity |-> ResolvedSeverity(answer, OriginalSeverity(f))]

(* build_clarification_payload, without a status given to it. *)
PendingStatus(r) ==
  IF r.status = "pending" /\ Questions \subseteq DOMAIN r.answers THEN "answered" ELSE r.status

(* Where the questions about f are that g answers; the last of them decides. *)
Places(f, g) == {i \in DOMAIN Order : Order[i] \in DOMAIN g /\ f \in Lists[Order[i]]}

(* Any answer at all, even of a question that was not asked, closes the gate. *)
Answered(r, g) ==
  IF DOMAIN g = {} THEN [r EXCEPT !.status = PendingStatus(r)]
  ELSE [r EXCEPT
          !.answers = Upon([q \in Questions \cap DOMAIN g |-> g[q]], @),
          !.findings = [f \in Findings |->
             IF Places(f, g) = {} THEN @[f] ELSE Clarified(@[f], g[Order[Max(Places(f, g))]])],
          !.status = "answered"]

-----------------------------------------------------------------------------
(* Files.  One that is missing, or torn by a crash, loads as empty.        *)

NoAnswers == [q \in {} |-> Missing]

Severities == {"high", "medium"}
Reports ==
  [ status   : {"pending", "answered", "not_needed"},
    answers  : UNION {[asked -> Answers] : asked \in SUBSET Questions},
    findings : [Findings -> [says     : Answers \cup {Missing},
                             original : Severities \cup {Missing},
                             severity : Severities]],
    patch    : {Missing, "context_available", "applied", "rejected"},
    listed   : BOOLEAN ]
RevisionStages ==
  [ status    : {"collecting_inputs", "skipped", "inputs_recorded", "running", "completed",
                 "failed", "confirmed", "skipped_unconfirmed"},
    entered   : BOOLEAN,
    confirmed : BOOLEAN ]

\* A file that is missing or torn has no content.
ASSUME FilesAssumption == {Missing, Torn} \cap (Reports \cup RevisionStages) = {}

FirstReport ==
  [ status   |-> IF Order = <<>> THEN "not_needed" ELSE "pending",
    answers  |-> NoAnswers,
    findings |-> [f \in Findings |-> [says |-> Missing, original |-> Missing, severity |-> "high"]],
    patch    |-> Missing, listed |-> FALSE ]

RevisionInit ==
  /\ files = [report |-> FirstReport, copy |-> NoAnswers, stage |-> Missing, request |-> Missing,
              revised |-> Missing, summary |-> Missing, confirmed |-> Missing]
  /\ call = [c \in Callers |-> NoCall]
  /\ told = [answers |-> NoAnswers, entered |-> FALSE, confirmed |-> Missing]
  /\ safe = TRUE
  /\ demand \in Demands

Init == AInit /\ RevisionInit

Loads(f) == f \notin {Missing, Torn}

(* _is_review_stable_for_revision. *)
Stable(r) == r.status # "pending"

LoadStage ==
  IF Loads(files.stage)
  THEN [files.stage EXCEPT !.confirmed = @ /\ files.confirmed # Missing]
  ELSE [status |-> IF Stable(files.report) THEN "prompted" ELSE "unavailable",
        entered |-> FALSE, confirmed |-> FALSE]

ServedConfirmed == IF LoadStage.confirmed THEN files.confirmed ELSE Missing

-----------------------------------------------------------------------------
(* Calls.                                                                  *)

Idle(c) == call[c] = NoCall /\ job[c] = NoCall
In(c, step) == call[c].at = step
End(c) == call' = [call EXCEPT ![c] = NoCall]

Blank == [where |-> "server", at |-> "open", todo |-> <<>>, then |-> "end",
          seen |-> Missing, src |-> 0, draft |-> Missing]

(* The coroutine writes the files of todo, one after the other, and goes on. *)
Writes(c, k, todo, then) ==
  call' = [call EXCEPT ![c] = [k EXCEPT !.at = "open", !.todo = todo, !.then = then]]

Open(c) ==
  /\ In(c, "open")
  /\ files' = [files EXCEPT ![Head(call[c].todo)[1]] = Torn]
  /\ call' = [call EXCEPT ![c].at = "fill"]
  /\ UNCHANGED <<versionState, job, calm, counters, told, safe, demand>>

Fill(c) ==
  LET k == call[c]
  IN /\ In(c, "fill")
     /\ files' = [files EXCEPT ![Head(k.todo)[1]] = Head(k.todo)[2]]
     /\ IF Len(k.todo) > 1 THEN Writes(c, k, Tail(k.todo), k.then)
        ELSE IF k.then = "end" THEN End(c)
        ELSE call' = [call EXCEPT ![c].at = k.then]
     /\ UNCHANGED <<versionState, job, calm, counters, told, safe, demand>>

(* A request whose handler has run to its first write. *)
Begin(c, k, todo, then, harmless) ==
  /\ Idle(c) /\ calls < demand.calls /\ calls' = calls + 1
  /\ calm' = (calm /\ \A d \in Callers : Idle(d))
  /\ safe' = (safe /\ harmless)
  /\ Writes(c, k, todo, then)
  /\ UNCHANGED <<versionState, job, files, faults, crashes, demand>>

-----------------------------------------------------------------------------
(* answer_review_clarification, and its async form.                        *)

AnswerTodo(g) ==
  LET r == Answered(files.report, g)
  IN <<<<"report", r>>, <<"copy", r.answers>>>>

Tell(g) == told' = [told EXCEPT !.answers = Upon([q \in Questions \cap DOMAIN g |-> g[q]], @)]

Answer(c, g, where) ==
  /\ Loads(files.report) /\ files.report.status # "not_needed"
  /\ Begin(c, [Blank EXCEPT !.where = where], AnswerTodo(g), "end", where = "server")
  /\ Tell(g)

(* With a context, a prompt for a patch is made, or the patch sent along applied. *)
AnswerAsync(c, g, then, v, where) ==
  /\ Loads(files.report) /\ files.report.status # "not_needed"
  /\ v \in DOMAIN versions
  /\ Begin(c, [Blank EXCEPT !.where = where, !.src = v, !.draft = then], AnswerTodo(g), "look", FALSE)
  /\ Tell(g)

(* The report is read twice: for the answer to the user, where one that another *)
(* process is writing ends the call, and for the patch, where it counts as {}.  *)
Look(c) ==
  /\ In(c, "look")
  /\ IF Loads(files.report) THEN call' = [call EXCEPT ![c].at = "reread"] ELSE End(c)
  /\ UNCHANGED <<versionState, job, calm, counters, files, told, safe, demand>>

Emptied == [FirstReport EXCEPT !.status = "not_needed"]

Reread(c) ==
  LET report == IF Loads(files.report) THEN files.report ELSE Emptied
  IN /\ In(c, "reread")
     /\ call' = [call EXCEPT ![c].at = call[c].draft, ![c].seen = report]
     /\ job' = IF call[c].draft = "patching"
               THEN [job EXCEPT ![c] = Started("patch", call[c].src, 0)] ELSE job
     /\ UNCHANGED <<versionState, calm, counters, files, told, safe, demand>>

(* The report read before the await is written back. *)
WriteBack(c, status) ==
  Writes(c, call[c], <<<<"report", [call[c].seen EXCEPT !.patch = status]>>>>, "end")

Prompted(c) ==
  /\ In(c, "prompting") /\ WriteBack(c, "context_available")
  /\ UNCHANGED <<versionState, job, calm, counters, files, told, safe, demand>>

Patched(c) ==
  /\ In(c, "patching") /\ At(c, "over")
  /\ IF job[c].result = "raised" THEN End(c) ELSE WriteBack(c, job[c].result)
  /\ Leave(c)
  /\ UNCHANGED <<versionState, calm, counters, files, told, safe, demand>>

-----------------------------------------------------------------------------
(* record_revision_stage_decision, record_revision_input and               *)
(* confirm_revision_action.                                                *)

Staged(status, entered, confirmed) ==
  <<"stage", [status |-> status, entered |-> entered, confirmed |-> confirmed]>>

TellRevision(entered, confirmed) ==
  told' = [told EXCEPT !.entered = entered, !.confirmed = confirmed]

Decide(c, enter) ==
  /\ Loads(files.report) /\ Stable(files.report)
  /\ Begin(c, Blank, <<Staged(IF enter THEN "collecting_inputs" ELSE "skipped", enter, FALSE)>>, "end", TRUE)
  /\ TellRevision(enter, Missing)

(* An instruction is the number of the call that gave it. *)
Input(c) ==
  /\ Loads(files.report) /\ Stable(files.report) /\ LoadStage.entered
  /\ Begin(c, Blank, <<<<"request", {calls + 1}>>,
                       Staged("inputs_recorded", TRUE, FALSE)>>, "end", TRUE)
  /\ TellRevision(told.entered, Missing)

Confirm(c) ==
  /\ Loads(files.report) /\ files.revised # Missing
  /\ Begin(c, Blank, <<<<"confirmed", files.revised>>,
                       Staged("confirmed", LoadStage.entered, TRUE)>>, "end", TRUE)
  /\ TellRevision(told.entered, files.revised)

Continue(c) ==
  /\ Loads(files.report)
  /\ Begin(c, Blank, <<Staged("skipped_unconfirmed", FALSE, FALSE)>>, "end", TRUE)
  /\ TellRevision(FALSE, Missing)

(* Enters the revision by itself, and goes on to generate. *)
Regenerate(c, more) ==
  LET before == IF Loads(files.request) THEN files.request ELSE {}
      extra  == IF more THEN before \cup {calls + 1} ELSE before
  IN /\ Loads(files.report)
     /\ Begin(c, Blank, <<<<"request", extra>>,
                          Staged("inputs_recorded", TRUE, FALSE)>>, "generate", TRUE)
     /\ TellRevision(TRUE, Missing)

-----------------------------------------------------------------------------
(* generate_revision_for_run_async.                                        *)

MayGenerate ==
  /\ Loads(files.report) /\ Stable(files.report)
  /\ LoadStage.entered
  /\ Loads(files.request)

(* The answers the model is given are the clarification's resolved_answers, *)
(* which no one writes: the gate calls what it keeps answers_applied.       *)
ResolvedAnswers(r) == NoAnswers
Asked == [extra |-> files.request, status |-> files.report.status,
          answers |-> files.report.answers, given |-> ResolvedAnswers(files.report)]
Running(k) == [k EXCEPT !.seen = LoadStage, !.draft = Asked]
RunningTodo == <<Staged("running", TRUE, LoadStage.confirmed)>>

Generate(c) ==
  /\ MayGenerate
  /\ Begin(c, Running(Blank), RunningTodo, "llm", TRUE)
  /\ UNCHANGED told

GenerateNow(c) ==
  /\ In(c, "generate")
  /\ IF MayGenerate THEN Writes(c, Running(call[c]), RunningTodo, "llm") ELSE End(c)
  /\ UNCHANGED <<versionState, job, calm, counters, files, told, safe, demand>>

(* The model answers, minutes later; the stage is the one read before. *)
Outcome(c, status) == Staged(status, TRUE, call[c].seen.confirmed)

Generated(c) ==
  /\ In(c, "llm")
  /\ Writes(c, call[c], <<<<"revised", call[c].draft>>, <<"summary", "completed">>,
                          Outcome(c, "completed")>>, "list")
  /\ UNCHANGED <<versionState, job, calm, counters, files, told, safe, demand>>

GenerationFailed(c) ==
  /\ In(c, "llm")
  /\ Writes(c, call[c], <<Outcome(c, "failed"), <<"summary", "failed">>>>, "end")
  /\ UNCHANGED <<versionState, job, calm, counters, files, told, safe, demand>>

(* _update_report_artifacts reads the report again. *)
Listed(r) == [r EXCEPT !.listed = TRUE]
ListArtifacts(c) ==
  /\ In(c, "list")
  /\ IF Loads(files.report)
     THEN Writes(c, call[c], <<<<"report", Listed(files.report)>>>>, "end")
     ELSE End(c)
  /\ UNCHANGED <<versionState, job, calm, counters, files, told, safe, demand>>

-----------------------------------------------------------------------------
(* Calls on the workspace's versions, beside those on the run. *)
VersionCall(c, op, v) ==
  /\ Idle(c) /\ calls < demand.calls /\ calls' = calls + 1
  /\ v \in DOMAIN versions /\ (op = "review" => versions[v].key = Prd)
  /\ calm' = (calm /\ \A d \in Callers : Idle(d))
  /\ Goto(c, Started(op, v, IF op = "derive" THEN 0 ELSE calls + 1))
  /\ UNCHANGED <<versionState, faults, crashes, revars>>

RunsIn(c) == IF call[c] = NoCall THEN "server" ELSE call[c].where

(* A process ends: its calls are dropped where they are. *)
Crash(where) ==
  /\ crashes < MaxCrashes /\ crashes' = crashes + 1
  /\ LET ends == {c \in Callers : RunsIn(c) = where}
     IN /\ call' = [c \in Callers |-> IF c \in ends THEN NoCall ELSE call[c]]
        /\ job' = [c \in Callers |-> IF c \in ends THEN NoCall ELSE job[c]]
  /\ calm' = FALSE /\ safe' = FALSE
  /\ UNCHANGED <<versionState, calls, faults, files, told, demand>>

(* The server's coroutines take turns: one has the loop until its next await. *)
Awaits == {"llm", "prompting", "patching"}
HasLoop(c) ==
  /\ RunsIn(c) = "server"
  /\ (call[c] # NoCall /\ call[c].at \notin Awaits) \/ At(c, "write")
MayMove(c) == RunsIn(c) = "mcp" \/ \A d \in Callers \ {c} : ~HasLoop(d)

Kinds == {"answer", "mcp", "context", "patch", "enter", "skip", "input", "confirm", "continue",
          "generate", "regenerate", "derive", "roadmap", "review"}
Asks(kind) == kind \in demand.kinds

AnswerRequest(c, where) ==
  \E g \in demand.answers :
    \/ Asks("answer") /\ Answer(c, g, where)
    \/ \E v \in DOMAIN versions :
         \/ Asks("context") /\ AnswerAsync(c, g, "prompting", v, where)
         \/ Asks("patch") /\ AnswerAsync(c, g, "patching", v, where)

RevisionRequest(c) ==
  \/ Asks("enter") /\ Decide(c, TRUE)
  \/ Asks("skip") /\ Decide(c, FALSE)
  \/ Asks("input") /\ Input(c)
  \/ Asks("confirm") /\ Confirm(c)
  \/ Asks("continue") /\ Continue(c)
  \/ Asks("generate") /\ Generate(c)
  \/ Asks("regenerate") /\ \E more \in BOOLEAN : Regenerate(c, more)

StepOfRun(c) ==
  \/ Open(c) \/ Fill(c) \/ Look(c) \/ Reread(c) \/ Prompted(c) \/ Patched(c)
  \/ GenerateNow(c) \/ Generated(c) \/ GenerationFailed(c) \/ ListArtifacts(c)

Next ==
  \/ \E c \in Callers :
       \/ Asks("mcp") /\ AnswerRequest(c, "mcp")
       \/ /\ MayMove(c)
          /\ \/ AnswerRequest(c, "server") \/ RevisionRequest(c)
             \/ \E op \in {"derive", "roadmap", "review"}, v \in DOMAIN versions :
                  Asks(op) /\ VersionCall(c, op, v)
             \/ StepOfRun(c)
             \/ (StepOfPatch(c) \/ StepOfCall(c)) /\ UNCHANGED revars
  \/ \E where \in {"server", "mcp"} : Crash(where)

Spec == Init /\ [][Next]_vars

-----------------------------------------------------------------------------
TypeOK ==
  /\ VersionsTypeOK
  /\ Loads(files.report) => files.report \in Reports
  /\ Loads(files.stage) => files.stage \in RevisionStages
  /\ Loads(files.request) => files.request \subseteq 1..MaxCalls
  /\ \A c \in Callers : call[c] # NoCall => call[c].where \in {"server", "mcp"}
  /\ told.entered \in BOOLEAN /\ safe \in BOOLEAN /\ demand.kinds \subseteq Kinds

Quiet == \A c \in Callers : Idle(c)

\* The severity of a finding is that of the answer it carries, however often
\* the answer has been changed.
FindingsFollow(r) ==
  \A f \in Findings :
    LET asking == {q \in DOMAIN r.answers : f \in Lists[q]}
    IN IF asking = {} THEN r.findings[f].severity = "high"
       ELSE \E q \in asking :
              /\ r.findings[f].says = r.answers[q]
              /\ r.findings[f].severity = ResolvedSeverity(r.answers[q], "high")

\* As long as answers come to the server only, and none with a patch, none is
\* lost, whatever else goes on: no handler writes a report it read before an
\* await.  The findings, and the copy in the review's own files, follow them.
AnswersKept ==
  safe /\ (\A c \in Callers : ~HasLoop(c)) =>
    /\ files.report.answers = told.answers
    /\ files.copy = told.answers
    /\ FindingsFollow(files.report)

\* No revised PRD, and no confirmed one, was written from a review with
\* questions pending, though asking again enters the revision unasked.
DraftOfStableReview ==
  \A f \in {files.revised, files.confirmed} : Loads(f) => f.status # "pending"

\* A revised PRD is written with the answers the review had been given by then
\* (the report of tests/test_revision_service.py:26 hands them on as
\* resolved_answers, and "clarification" is among the draft's sources_used).
AnswersReachDraft == Loads(files.revised) => files.revised.given = files.revised.answers

\* When calls come one after the other, and none is cut off, what is served is
\* what the user did last: answers, the stage entered, the draft confirmed, a
\* draft that heeds every instruction, and the version made last.
AloneAgrees ==
  calm /\ Quiet =>
    /\ files.report.answers = told.answers /\ files.copy = told.answers
    /\ LoadStage.entered = told.entered
    /\ ServedConfirmed = told.confirmed
    /\ LoadStage.status = "completed" => files.revised.extra = files.request
    /\ PointersAreLast
=============================================================================
