------------------------------ MODULE Delivery ------------------------------
(***************************************************************************)
(* The files of one finished review run, delivery_bundle.json,             *)
(* approval_records.json, status_snapshot.json, execution_tasks.json,      *)
(* run_trace.json and the requests for the coding agents, and the calls    *)
(* that rewrite them: generate, approve, hand off, prepare, update.        *)
(* Nothing locks the run's directory: the MCP server each agent starts and *)
(* the command line are processes of their own, and a call is a sequence   *)
(* of whole-file reads and writes.  Another process, or a crash, comes     *)
(* between any two of them.  A file being written is empty until it is     *)
(* written out, and an empty or unreadable file loads like a missing one.  *)
(***************************************************************************)
EXTENDS Naturals, Sequences, SequencesExt

CONSTANTS
  Procs,        \* processes that serve calls on the run's directory
  Modes,        \* execution modes callers ask for
  Selections,   \* agents a caller prepares requests for
  HighRisk,     \* the bundle lists a high risk
  Nothing,      \* the content of a file that is missing, torn or empty
  MaxCalls, MaxCrashes   \* bounds of the model

ExecutionModes == {"agent_auto", "agent_assisted", "human_only"}
Agents == {"codex", "claude_code", "openclaw"}

ASSUME DeliveryAssumption ==
  /\ Modes \subseteq ExecutionModes
  /\ Selections \subseteq Agents \cup {"all"}
  /\ HighRisk \in BOOLEAN
  /\ MaxCalls \in Nat /\ MaxCrashes \in Nat

VARIABLES
  bundle,     \* delivery_bundle.json
  records,    \* approval_records.json: the events it holds
  snapshot,   \* status_snapshot.json
  tasks,      \* execution_tasks.json
  trace,      \* run_trace.json: the review's part, and the updates it holds
  requests,   \* <agent>_request.json: the task it names
  contexts,   \* <task>_execution_context.md: the task it describes
  temp,       \* execution_context.md, on its way to one of them
  job,        \* the call each process is inside of
  generation, \* bundles generated so far
  told,       \* history: approval events written to the bundle ...
  moves,      \* ... task updates written to the tasks ...
  calm,       \* ... and whether no two calls overlapped and none was cut off
  calls, crashes

files == <<bundle, records, snapshot, tasks, trace, requests, contexts, temp>>
history == <<told, moves, calm>>
vars == <<files, job, generation, history, calls, crashes>>

-----------------------------------------------------------------------------
BundleStatuses == {"draft", "need_more_info", "approved", "blocked_by_risk"}
TaskStatuses == {"pending", "assigned", "in_progress", "waiting_review",
                 "completed", "failed", "cancelled"}

VALID_TRANSITIONS ==
  [ draft           |-> {"need_more_info", "approved", "blocked_by_risk"},
    need_more_info  |-> {"draft", "blocked_by_risk"},
    blocked_by_risk |-> {"draft"},
    approved        |-> {} ]

VALID_TASK_TRANSITIONS ==
  [ pending        |-> {"assigned", "cancelled"},
    assigned       |-> {"in_progress", "cancelled"},
    in_progress    |-> {"waiting_review", "completed", "failed", "cancelled"},
    waiting_review |-> {"in_progress", "failed", "cancelled"},
    completed      |-> {},
    failed         |-> {},
    cancelled      |-> {} ]

(* The packs of a bundle that become tasks, and who executes each. *)
Packs == {"implementation_pack", "test_pack"}
Executor(pack) == IF pack = "implementation_pack" THEN "codex" ELSE "claude_code"

(* A routed task is named for its pack, a prepared one for its agent too. *)
Routed(pack) == [agent |-> Executor(pack), by |-> "handoff"]
Prepared(agent) == [agent |-> agent, by |-> "prepare"]
TaskIds == {Routed(pack) : pack \in Packs} \cup {Prepared(a) : a \in Agents}
DEFAULT_PACK_SPECS == <<Routed("implementation_pack"), Routed("test_pack")>>

SelectedAgents(s) == IF s = "all" THEN <<"codex", "claude_code", "openclaw">> ELSE <<s>>

(* An approval event: which bundle, its place in the bundle's history, the new status. *)
Event(b) == [of |-> b.generation, n |-> Len(b.history), to |-> b.status]

NoTrace == [review |-> FALSE, updates |-> {}]
NoRequest == [task |-> Nothing, final |-> FALSE]

Draft(n) == [generation |-> n, status |-> "draft", history |-> <<>>]

(* A review has just finished and its bundle has been built. *)
Init ==
  /\ bundle = Draft(1) /\ generation = 1
  /\ records = Nothing /\ snapshot = Nothing /\ tasks = Nothing
  /\ trace = [review |-> TRUE, updates |-> {}]
  /\ requests = [a \in Agents |-> NoRequest]
  /\ contexts = [t \in TaskIds |-> Nothing]
  /\ temp = Nothing
  /\ job = [p \in Procs |-> Nothing]
  /\ told = {} /\ moves = {} /\ calm = TRUE
  /\ calls = 0 /\ crashes = 0

-----------------------------------------------------------------------------
(* Calls.  A step named for a file writes that file.                       *)

ScriptRecordFirst(op) ==
  CASE op = "approve"  -> <<"old_records", "records", "bundle", "snapshot">>
    [] op = "generate" -> <<"bundle">>
    [] op = "handoff"  -> <<"build", "place", "tasks">>
    [] op = "prepare"  -> <<"build", "place">>
    [] op = "update"   -> <<"check", "tasks", "snapshot", "old_trace", "trace">>
Script(op) ==
  CASE op = "generate" -> <<"bundle">>
    [] op = "approve"  -> <<"bundle", "old_records", "records", "snapshot">>
    [] op = "handoff"  -> <<"build", "place", "tasks">>
    [] op = "prepare"  -> <<"build", "place">>
    [] op = "update"   -> <<"check", "tasks", "snapshot", "old_trace", "trace">>

Busy(p) == job[p] # Nothing
At(p, op, step) == Busy(p) /\ job[p].op = op /\ job[p].at = step

(* The next step, or the answer; a finished call has no further effect. *)
Advance(p, c) ==
  LET s == Script(c.op)
  IN \E i \in DOMAIN s :
       /\ s[i] = c.at
       /\ job' = [job EXCEPT ![p] = IF i = Len(s) THEN Nothing ELSE [c EXCEPT !.at = s[i + 1]]]
Refuse(p) == job' = [job EXCEPT ![p] = Nothing]

(* What p may find in a file: nothing while another process is writing it. *)
Read(p, file, content) ==
  {content} \cup {Nothing : q \in {r \in Procs \ {p} : Busy(r) /\ job[r].at = file}}

(* A call that has read what it starts from: a new one, before its script's *)
(* first step.  One refused at that point changes nothing, and is no step.  *)
Fresh(op) == [op |-> op, at |-> Script(op)[1], alone |-> \A q \in Procs : ~Busy(q),
              bundle |-> Nothing, tasks |-> Nothing, old |-> Nothing,
              move |-> Nothing, todo |-> <<>>, agents |-> {}]

Begin(p, c) ==
  /\ ~Busy(p) /\ calls < MaxCalls
  /\ calls' = calls + 1
  /\ job' = [q \in Procs |-> IF q = p THEN c
                            ELSE IF Busy(q) THEN [job[q] EXCEPT !.alone = FALSE]
                            ELSE Nothing]
  /\ calm' = (calm /\ c.alone)
  /\ UNCHANGED <<files, generation, told, moves, crashes>>

ApprovalActions == [approve |-> "approved", need_more_info |-> "need_more_info",
                    block_by_risk |-> "blocked_by_risk", reset_to_draft |-> "draft"]

(* The statuses an update may ask for. *)
Resolved == TaskStatuses \ {"pending"}

-----------------------------------------------------------------------------
(* generate_delivery_bundle, of a run that has its report: a fresh draft of the same id, with no history. *)
Generate(p) == Begin(p, Fresh("generate"))

GenerateBundle(p) ==
  /\ At(p, "generate", "bundle")
  /\ bundle' = Draft(generation + 1) /\ generation' = generation + 1
  /\ Advance(p, job[p])
  /\ UNCHANGED <<records, snapshot, tasks, trace, requests, contexts, temp, history, calls, crashes>>

(* approve_handoff. *)
ApproveLoad(p, action) ==
  LET to == ApprovalActions[action]
  IN \E b \in Read(p, "bundle", bundle) :
       /\ b # Nothing /\ to \in VALID_TRANSITIONS[b.status]
       /\ Begin(p, [Fresh("approve") EXCEPT !.bundle =
            [b EXCEPT !.status = to, !.history = Append(@, to)]])

ApproveBundle(p) ==
  /\ At(p, "approve", "bundle")
  /\ bundle' = job[p].bundle
  /\ told' = told \cup {Event(job[p].bundle)}
  /\ Advance(p, job[p])
  /\ UNCHANGED <<records, snapshot, tasks, trace, requests, contexts, temp,
                 generation, moves, calm, calls, crashes>>

ApproveOldRecords(p) ==
  /\ At(p, "approve", "old_records")
  /\ \E r \in Read(p, "records", records) :
       Advance(p, [job[p] EXCEPT !.old = IF r = Nothing THEN {} ELSE r.events])
  /\ UNCHANGED <<files, generation, history, calls, crashes>>

WithRecordAnew(old, e) == {e}
WithRecord(old, e) == old \cup {e}

ApproveRecords(p) ==
  /\ At(p, "approve", "records")
  /\ records' = [events |-> WithRecord(job[p].old, Event(job[p].bundle))]
  /\ Advance(p, job[p])
  /\ UNCHANGED <<bundle, snapshot, tasks, trace, requests, contexts, temp,
                 generation, history, calls, crashes>>

(* The snapshot is built anew: what it said of the execution is dropped. *)
ApproveSnapshot(p) ==
  /\ At(p, "approve", "snapshot")
  /\ snapshot' = [status |-> job[p].bundle.status, execution |-> Nothing]
  /\ Advance(p, job[p])
  /\ UNCHANGED <<bundle, records, tasks, trace, requests, contexts, temp,
                 generation, history, calls, crashes>>

-----------------------------------------------------------------------------
(* handoff_to_executor and prepare_agent_handoff. *)
ResolveMode(mode) ==
  CASE mode = "human_only" -> "human_only"
    [] HighRisk            -> "agent_assisted"
    [] OTHER               -> mode

RoutableUnlessBlocked(b) == b.status # "blocked_by_risk"
Routable(b) == b.status = "approved"

Route(b, mode) == [of |-> b.generation, mode |-> ResolveMode(mode),
                   rows |-> [pack \in Packs |-> "pending"]]

HandoffLoad(p, mode) ==
  \E b \in Read(p, "bundle", bundle) :
    /\ b # Nothing /\ Routable(b)
    /\ Begin(p, [Fresh("handoff") EXCEPT !.tasks = Route(b, mode), !.todo = DEFAULT_PACK_SPECS])

(* A preview is prepared from a bundle in any status. *)
PrepareLoad(p, selection) ==
  LET agents == SelectedAgents(selection)
  IN /\ Read(p, "bundle", bundle) # {Nothing}
     /\ Begin(p, [Fresh("prepare") EXCEPT !.agents = ToSet(agents),
                     !.todo = [i \in DOMAIN agents |-> Prepared(agents[i])]])

(* The adapter writes the context to a file all tasks share, and its agent's request. *)
Build(p) ==
  /\ Busy(p) /\ job[p].at = "build"
  /\ LET t == Head(job[p].todo)
     IN temp' = t /\ requests' = [requests EXCEPT ![t.agent] = [task |-> t, final |-> FALSE]]
  /\ Advance(p, job[p])
  /\ UNCHANGED <<bundle, records, snapshot, tasks, trace, contexts,
                 generation, history, calls, crashes>>

(* The context moves to the task's own file, and the request is pointed there. *)
Place(p) ==
  /\ Busy(p) /\ job[p].at = "place"
  /\ LET t == Head(job[p].todo)
         rest == [job[p] EXCEPT !.todo = Tail(@)]
     IN /\ contexts' = IF temp = Nothing THEN contexts ELSE [contexts EXCEPT ![t] = temp]
        /\ requests' = [requests EXCEPT ![t.agent] = [task |-> t, final |-> TRUE]]
        /\ IF rest.todo = <<>> THEN Advance(p, rest)
           ELSE job' = [job EXCEPT ![p] = [rest EXCEPT !.at = "build"]]
  /\ temp' = Nothing
  /\ UNCHANGED <<bundle, records, snapshot, tasks, trace, generation, history, calls, crashes>>

HandoffTasks(p) ==
  /\ At(p, "handoff", "tasks")
  /\ tasks' = job[p].tasks
  /\ Advance(p, job[p])
  /\ UNCHANGED <<bundle, records, snapshot, trace, requests, contexts, temp,
                 generation, history, calls, crashes>>

-----------------------------------------------------------------------------
(* update_execution_task. *)
(* Repeating the present status confirms it; a review is asked for by assisted agents only. *)
Allowed(from, to, mode) ==
  \/ to = from
  \/ /\ to \in VALID_TASK_TRANSITIONS[from]
     /\ to = "waiting_review" => mode = "agent_assisted"

UpdateLoad(p, pack, to) ==
  \E t \in Read(p, "tasks", tasks) :
    /\ t # Nothing /\ Allowed(t.rows[pack], to, t.mode)
    /\ Begin(p, [Fresh("update") EXCEPT !.tasks = [t EXCEPT !.rows[pack] = to],
                    !.move = [pack |-> pack, from |-> t.rows[pack], to |-> to]])

UpdateCheck(p) ==
  /\ At(p, "update", "check")
  /\ \E b \in Read(p, "bundle", bundle) :
       IF b # Nothing THEN Advance(p, [job[p] EXCEPT !.bundle = b]) ELSE Refuse(p)
  /\ UNCHANGED <<files, generation, history, calls, crashes>>

UpdateTasks(p) ==
  /\ At(p, "update", "tasks")
  /\ tasks' = job[p].tasks
  /\ moves' = moves \cup {job[p].move}
  /\ Advance(p, job[p])
  /\ UNCHANGED <<bundle, records, snapshot, trace, requests, contexts, temp,
                 generation, told, calm, calls, crashes>>

(* The snapshot of the bundle's status and of every task. *)
SnapshotBefore(c) ==
  [status |-> c.bundle.status, execution |-> [c.tasks.rows EXCEPT ![c.move.pack] = c.move.from]]
SnapshotOf(c) == [status |-> c.bundle.status, execution |-> c.tasks.rows]

UpdateSnapshot(p) ==
  /\ At(p, "update", "snapshot")
  /\ snapshot' = SnapshotOf(job[p])
  /\ Advance(p, job[p])
  /\ UNCHANGED <<bundle, records, tasks, trace, requests, contexts, temp,
                 generation, history, calls, crashes>>

UpdateOldTrace(p) ==
  /\ At(p, "update", "old_trace")
  /\ \E r \in Read(p, "trace", trace) :
       Advance(p, [job[p] EXCEPT !.old = IF r = Nothing THEN NoTrace ELSE r])
  /\ UNCHANGED <<files, generation, history, calls, crashes>>

UpdateTrace(p) ==
  /\ At(p, "update", "trace")
  /\ trace' = [job[p].old EXCEPT !.updates = @ \cup {job[p].move}]
  /\ Advance(p, job[p])
  /\ UNCHANGED <<bundle, records, snapshot, tasks, requests, contexts, temp,
                 generation, history, calls, crashes>>

-----------------------------------------------------------------------------
(* A process dies inside a call; the file it was writing may stay empty. *)
Torn(p, file, content) == {content} \cup {Nothing : x \in {y \in {p} : job[y].at = file}}

Crash(p) ==
  /\ Busy(p) /\ crashes < MaxCrashes
  /\ crashes' = crashes + 1 /\ calm' = FALSE
  /\ bundle' \in Torn(p, "bundle", bundle)
  /\ records' \in Torn(p, "records", records)
  /\ snapshot' \in Torn(p, "snapshot", snapshot)
  /\ tasks' \in Torn(p, "tasks", tasks)
  /\ trace' \in Torn(p, "trace", trace)
  /\ Refuse(p)
  /\ UNCHANGED <<requests, contexts, temp, generation, told, moves, calls>>

Approve(p) ==
  \/ \E action \in DOMAIN ApprovalActions : ApproveLoad(p, action)
  \/ ApproveBundle(p)
  \/ ApproveOldRecords(p)
  \/ ApproveRecords(p)
  \/ ApproveSnapshot(p)
Handoff(p) ==
  \/ \E mode \in Modes : HandoffLoad(p, mode)
  \/ \E selection \in Selections : PrepareLoad(p, selection)
  \/ Build(p)
  \/ Place(p)
  \/ HandoffTasks(p)
Update(p) ==
  \/ \E pack \in Packs, to \in Resolved : UpdateLoad(p, pack, to)
  \/ UpdateCheck(p)
  \/ UpdateTasks(p)
  \/ UpdateSnapshot(p)
  \/ UpdateOldTrace(p)
  \/ UpdateTrace(p)

Next == \E p \in Procs :
  \/ Generate(p) \/ GenerateBundle(p)
  \/ Approve(p) \/ Handoff(p) \/ Update(p)
  \/ Crash(p)

Spec == Init /\ [][Next]_vars

-----------------------------------------------------------------------------
Maybe(S) == S \cup {Nothing}
Bundles == [generation : Nat \ {0}, status : BundleStatuses, history : Seq(BundleStatuses)]
Told == [of : Nat \ {0}, n : Nat \ {0}, to : BundleStatuses]
Records == [events : SUBSET Told]
Moved == [pack : Packs, from : TaskStatuses, to : TaskStatuses \ {"pending"}]
Tables == [of : Nat \ {0}, mode : ExecutionModes, rows : [Packs -> TaskStatuses]]
Traces == [review : BOOLEAN, updates : SUBSET Moved]
Steps == {"bundle", "old_records", "records", "snapshot", "build", "place", "tasks",
          "check", "old_trace", "trace"}
Jobs == [op : {"generate", "approve", "handoff", "prepare", "update"}, at : Steps, alone : BOOLEAN,
         bundle : Maybe(Bundles), tasks : Maybe(Tables), old : {Nothing} \cup (SUBSET Told) \cup Traces,
         move : Maybe(Moved), todo : Seq(TaskIds), agents : SUBSET Agents]

(* No content is the missing file, and no call is the idle process. *)
ASSUME NothingAssumption ==
  /\ Nothing \notin Records /\ Nothing \notin Traces
  /\ Nothing \notin TaskIds /\ Nothing \notin Jobs

(* The types of the files as read back, and of what was ever written to them. *)
TypeOK ==
  /\ bundle \in Maybe(Bundles)
  /\ records \in Maybe(Records)
  /\ snapshot \in Maybe([status : BundleStatuses, execution : Maybe([Packs -> TaskStatuses])])
  /\ tasks \in Maybe(Tables)
  /\ trace \in Maybe(Traces)
  /\ requests \in [Agents -> [task : Maybe(TaskIds), final : BOOLEAN]]
  /\ contexts \in [TaskIds -> Maybe(TaskIds)]
  /\ temp \in Maybe(TaskIds)
  /\ generation \in Nat \ {0}
  /\ told \subseteq Told /\ moves \subseteq Moved /\ calm \in BOOLEAN
  /\ calls \in 0..MaxCalls /\ crashes \in 0..MaxCrashes

(* No task is handed to an executor for a bundle nobody approved: not when *)
(* the bundle is generated again under the same id, not when another       *)
(* process rewrites it between the load of a handoff and its last write.   *)
HandoffOfApproved ==
  tasks # Nothing => \E e \in told : e.of = tasks.of /\ e.to = "approved"

(* The audit files tell of nothing that did not happen: an approval record *)
(* follows the event's write to the bundle, a trace entry the update's     *)
(* write to the tasks, and the snapshot's status was once the bundle's,    *)
(* whichever call is cut off, or has its write overwritten, and when.      *)
NothingInvented ==
  /\ records # Nothing => records.events \subseteq told
  /\ trace # Nothing => trace.updates \subseteq moves
  /\ snapshot # Nothing /\ snapshot.status # "draft" => \E e \in told : e.to = snapshot.status

(* As long as calls come one at a time and none is cut off, no approval    *)
(* event is missing from the records and no update from the trace, and the *)
(* trace of the review is kept beside them.                                *)
AuditComplete ==
  calm /\ (\A p \in Procs : ~Busy(p)) =>
    /\ told = IF records = Nothing THEN {} ELSE records.events
    /\ trace = [review |-> TRUE, updates |-> moves]

(* What the workspace reader reports as the bundle's status: the snapshot's if there is one. *)
ServedStatus == IF snapshot # Nothing THEN snapshot.status ELSE bundle.status

Served(t) == /\ requests[t.agent] = [task |-> t, final |-> TRUE]
             /\ contexts[t] = t

(* What the files say once call c has answered. *)
Tells(c) ==
  CASE c.op = "approve" ->
         /\ bundle = c.bundle /\ ServedStatus = bundle.status
         /\ Event(bundle) \in records.events
    [] c.op = "update" ->
         /\ ServedStatus = bundle.status /\ snapshot.execution = tasks.rows
         /\ tasks.rows[c.move.pack] = c.move.to
         /\ c.move \in trace.updates
    [] c.op = "handoff" ->
         \A pack \in Packs : Served(Routed(pack)) /\ tasks.rows[pack] = "pending"
    [] c.op = "prepare" ->
         \A a \in c.agents : Served(Prepared(a))
    [] OTHER -> bundle.status = "draft"

(* A call that answers, and that no other overlapped, leaves the files in  *)
(* agreement about what it did, whatever earlier calls lost by overlapping *)
(* or by dying half way.                                                   *)
Answers(p) ==
  /\ Busy(p) /\ job'[p] = Nothing /\ crashes' = crashes
  /\ job[p].at = Last(Script(job[p].op)) /\ Len(job[p].todo) <= 1
AloneTells ==
  [][\A p \in Procs : Answers(p) =>
       \A c \in {job[p]} : c.alone => Tells(c)']_vars
=============================================================================
