# PM Pal: TLA+ models and proofs

PM Pal reviews product requirement documents with language models and carries
what a review finds through evidence, insights, opportunities, PRDs and
deliveries. Its server is one Python process: an asyncio event loop that serves
the HTTP API, background coroutines and worker threads, SQLite databases, and one
directory of files per review run. MCP servers and a command line are further
processes over those directories. This directory holds TLA+ modules for the
parts of it where order matters, TLC configurations that check them on small
instances, and proofs for every instance.

Paths below are relative to `src/pm_pal/` unless they start with `src/`.

## 1. Inventory

What each part keeps, does, and shares with the others; what is hard about it;
and what would make it correct. The parts of 1.1 to 1.14 are modelled; those of
1.15 are not.

### 1.1 Agent command ledger — `server/agent_router.py`

- *State*: `agent_commands` and `agent_tasks` in SQLite, one pair of rows per
  command, written in one transaction.
- *Operations*: a message proposes a command; its requester confirms, retries or
  dismisses it; `run_command` claims it, awaits `CommandGateway.execute` and
  stores the outcome.
- *Interaction*: calls the command gateway; the client polls the task row.
- *Hard*: the gateway call suspends for minutes, and a confirmation, a retry or
  a dismissal of the same command is handled meanwhile; a crash leaves
  `executable` and `running` rows no one scans.
- *Correct when*: nothing is done before its requester approved it, a command is
  executed by one call at a time and never after it succeeded, and an approved
  command is settled unless the process dies.

### 1.2 Review run lifecycle — `server/app.py`, `job_registry.py`, `job_state.py`, `sse.py`, `run_review.py`

- *State*: the registry of `JobRecord`s and the subscribers' queues in memory;
  a run directory with `run_progress.json`, `report.md` and `report.json`.
- *Operations*: submit, run in a background task, publish progress, stream it to
  clients, rebuild the registry from the directories at startup.
- *Hard*: files are written one after the other and not atomically; the registry
  after a crash is a reading of what is left; a stream is looked up in one turn
  of the loop and subscribed in another.
- *Correct when*: an accepted run is always known and ends, its shown status
  agrees with what streams told, and no stream hangs.

### 1.3 Review graph — `workflow.py`, `state.py`, `agents/*`, the progress hook of `job_state.py`

- *State*: the `ReviewState` of LangGraph, merged after each superstep; the node
  progress of the job record.
- *Operations*: ten nodes, two of them in parallel, and a router that sends a
  risky review back at most `_MAX_REVISION_ROUNDS` times.
- *Hard*: in a revision pass every field still holds the value of the pass
  before; the branches return whole copies of the trace.
- *Correct when*: every report is of one pass, the loop ends, and the progress
  shown is what runs.

### 1.4 Connector sync — `connectors/sync/*`, `connectors/*_sync.py`, `integrations/*/events.py`, `integrations/*/config_store.py`

- *State*: `sync_tasks`, `processed_events`, `connector_health`,
  `connector_configs`, and the versions of project materials.
- *Operations*: a webhook or a user enqueues tasks, a thread polls them in
  batches of five, fetches pages, stores versions, retries with backoff.
- *Hard*: each SQL statement is a commit; the worker's thread and the event loop
  share the tables; events are redelivered; a process may die between any two
  statements; one stamp stands for all pages of a project.
- *Correct when*: no event is lost, a completed task has brought in its edit,
  attempts are bounded, and tasks settle.

### 1.5 Project domain and quality gate — `project_domain/*`, `quality_engine/*`

- *State*: the SQLite tables `pm_evidence`, `pm_insight`, `pm_opportunity`,
  `pm_prd_version`, `pm_delivery`, `project_sources`; audit events and trace
  links beside them.
- *Operations*: ingest and confirm evidence; create an insight or an
  opportunity; submit, approve, reject; create, assess, approve, waive, mark
  ready a PRD; export a delivery.
- *Hard*: services read a row, check it and write the *whole* row back later;
  an assessment awaits a whole review between the two; gateway threads do the
  same beside the event loop.
- *Correct when*: what is delivered was decided by an owner, what is approved
  passed the gate, and decisions stand.

### 1.6 Command gateway — `server/command_gateway.py`

- *State*: none of its own; it drives the project domain and starts reviews.
- *Operations*: `connect_feishu`, `generate_insight`/`generate_opportunity`,
  `generate_prd`, `start_review`, `prepare_delivery`.
- *Hard*: each is several transactions, and a failed one is run again from the
  top; what it made before is found by `command_id`, where it is marked so.
- *Correct when*: a command makes one of each thing however often it is run.

### 1.7 Delivery bundle and execution — `packs/approval.py`, `service/execution_service.py`, `execution/*`, `workspace/repository.py`

- *State*: JSON files in the directory of one finished run: the bundle, the
  approval records, the status snapshot, the execution tasks, the trace, and a
  request and a context file per agent.
- *Operations*: generate the bundle, approve it or send it back, hand it off or
  prepare a preview for agents, write a task's update back.
- *Interaction*: each coding agent starts an MCP server of its own over the same
  directories; the command line is one more process.
- *Hard*: each call reads whole files, changes them and writes several whole
  files back, with no lock and no atomic replacement; an unreadable file loads
  like a missing one.
- *Correct when*: nothing is handed out that nobody approved, the audit files
  tell of nothing that did not happen, and a call that ran alone leaves the
  files in agreement.

### 1.8 Clarification and revision — `review/clarification_gate.py`, `service/revision_service.py`, handlers of `service/review_service.py` and `server/app.py`

- *State*: the run's `report.json` and the review's own copy of the answers, the
  revision's stage, request, draft, summary and confirmed draft, all files.
- *Operations*: answer questions, with a prompt for a patch or a patch applied;
  enter or skip the revision, give instructions, have a draft generated or
  generated again, confirm it or go on without.
- *Hard*: an answer with a patch and a generation hold what they read across an
  await and write it back; MCP answers come from another process; an unreadable
  file loads as an empty one.
- *Correct when*: no answer is lost and severities follow the latest, no draft
  is of an unanswered review, and what is served is what the user did last.

### 1.9 Artifacts and patches — `service/artifact_patch_service.py`, `service/artifact_service.py`, `workspace/artifact_repository.py`, `workspace/workspace_repository.py`

- *State*: `artifact_versions`, `workspaces`, `artifact_review_runs` in SQLite,
  and the files the versions point at.
- *Operations*: apply a patch to a version, derive a version, review a version
  into a version of another artifact, replace the roadmap.
- *Hard*: each is several transactions with awaits between; the workspace is
  saved whole from the copy read first, with all the versions it had then; the
  path of a patched version is named by a number two patches can share.
- *Correct when*: pointers and parents resolve, the file of a version holds what
  its checksum is of, and block ids stay unique.

### 1.10 Parallel review — `review/normalizer.py`, `gating.py`, `parallel_review_manager.py`, `reviewer_agents/*`, `aggregator.py`, the reviewer node of `workflow.py`

- *State*: the review state's items, findings and high-risk ratio; the review's
  six files.
- *Operations*: read a text's structure, choose skip, quick or full, choose
  among four reviewers, run them at once with a timeout each, merge what they
  say, find and arbitrate conflicts, write the files, flag every item.
- *Hard*: any subset of the reviewers may fail, in any order; the verdict on an
  item, which decides on another pass, is made of all their findings.
- *Correct when*: a failure shows and hides no high finding, an untestable
  requirement does not get through early, and a silent reviewer holds nothing up.

### 1.11 Project space — `server/project_space.py`, `service/materials_service.py`, `integrations/*/config_store.py`, `config_routes.py`

- *State*: `project_sources`, `project_events`, `provider_connections`,
  `model_presets`, the project's row, `connector_configs`; a master key from the
  environment.
- *Operations*: upload, fetch, edit, roll back and delete materials; start a
  review of one and link its run; save and test connections and presets; save a
  connector's settings; the sync worker fetches with them and stamps the row.
- *Hard*: the worker's thread writes versions and the connector's row beside the
  event loop, which reads before an await what it uses after it; the master key
  may be another after a restart.
- *Correct when*: version numbers tell versions apart, a run is linked to what it
  reviewed, and a secret is used as it was given or not at all.

### 1.12 Work on a finished run — `notifications/*`, `monitoring/retry.py`, `service/review_service.py`, `service/selective_rerun_service.py`, `impact_analysis_service.py`

- *State*: files in the run's directory: `notifications.jsonl`, the audit log,
  packs, prompts, the PRD draft, the task bundle, `report.json`.
- *Operations*: notify over each channel; make the handoff's outputs, each of
  which may fail; retry either over MCP; plan which nodes to run again for a
  changed PRD.
- *Hard*: an answer may be lost and the message not; the MCP process makes again
  what the server may still be making; stages fail one by one.
- *Correct when*: a loss can be seen and retried, "ok" means that everything is
  there, and a node whose input changes is not reused.

### 1.13 Memories — `review/memory_store.py`, `memory/*`, `review/ingress_normalization.py`, `review/profile_router.py`

- *State*: one JSON file of past cases that processes share; one table of
  memories by team, project and type.
- *Operations*: a review imports seeds, looks up similar cases and stores its
  own; it is routed to a profile, recalls memories, and keeps what is worth it.
- *Hard*: the file is read and written whole, unlocked; candidates are compared
  with the table once and saved one by one.
- *Correct when*: no case is lost by reviews one after the other, what is kept
  is new, and what is recalled has to do with the request.

### 1.14 Job queue — `platform/local.py`

- *State*: jobs by key, in memory and in a table. Nothing in the server uses it
  yet; tests do.
- *Operations*: enqueue, attempt, recover after a restart.
- *Hard*: a crash between any two commits; an enqueue while a recovery awaits.
- *Correct when*: a job runs once at a time, never after its completion, and
  within its attempts.

### 1.15 Parts not modelled

| part | why not |
| --- | --- |
| traceability and handoff text (`handoff/*`) | links and text made again at each handoff; no decision reads them back |
| roadmap and comparison | computed from finished runs, text and scores, nothing waits on it |
| normaliser cache | a hit is what a miss would compute; a trace field tells them apart |
| workspace traces | append-only records |
| skills and their cache | one node of the graph, `risk`; the cache is keyed by content and expires |
| security and rate limiting | signatures, tokens and a counter per client: left to tests |
| source connectors | remote calls and conversion of text: a fetch that returns the edit or raises in `ConnectorSync` |
| MCP server, command line | wrappers; where they are processes of their own, `Delivery`, `RunRevision`, `Notifications`, `HandoffOutputs` and `ReviewMemory` have them |
| agent runtime | which action a message asks for: `AgentCommands` takes any |
| report exports, prompts, templates, schemas | text, layout and types |
| language model runtime | an answer is usable or not |
| frontend | the clients of `ReviewRun` |
| evaluation, deployment | offline |

## 2. Plan

Order of work, the most important behaviour first.

1. `AgentCommands` with the abstract `CommandLifecycle`, and its proofs (done).
2. `ReviewRun`, the server's runs, crashes and streams (done).
3. `ReviewWorkflow`, the graph inside a run, and its proofs (done).
4. `ConnectorSync` (done).
5. `ProjectDomain`, and `CommandGateway` composed over it (done).
6. `Delivery`: bundle approval and execution tasks over the files of a run, and
   its proofs (done).
7. `ArtifactVersions`, and `RunRevision` composed over it: versions and patches,
   clarification answers, the revision (done).
8. `ParallelReview` with the algorithms it rests on, `ProjectSpace`, and
   `Platform` with the six parts that work around the reviews (done).
9. Proofs, for every value of the constants, of every safety property that a run
   checks and of the refinement of `CommandLifecycle` (done, section 5).
10. What is left: proofs of the properties that the modules state and no run
    checks (`LinearKeepsSnapshots`, `DraftOfStableReview`, `VersionAboveParent`,
    `CompletedIsSubmitted`). Liveness stays with TLC.

Composition:

- `CommandGateway` EXTENDS `ProjectDomain` and calls its operations from worker
  threads.
- `RunRevision` EXTENDS `ArtifactVersions`: the patch that comes with an answer
  is a call of the latter between two steps of the former.
- `ParallelReview` EXTENDS `ReviewAggregation`, `Reviewers` and
  `RequirementText`: a state machine over three modules of operators.
- `ProjectSpace` EXTENDS `ProjectMaterials` and `ConnectorSettings`, which
  EXTENDS `ProviderSettings`: a restart changes the master key for both.
- `LongTermMemory` EXTENDS `ReviewIngress`, which says whose memories a request
  may see. `Platform` EXTENDS it with `Notifications`, `HandoffOutputs`,
  `SelectiveRerun`, `JobQueue` and `ReviewMemory`.
- `AgentCommands` has the gateway call as one commit that may succeed, fail or be
  cut off, which is what `CommandGateway` opens up; the guarantee it gives to
  `CommandGateway` (one call at a time, none after success, none after a crash)
  is the guard of `Execute` and `GCrash` there. `ReviewRun` has the graph as its
  `graph` phase, which `ReviewWorkflow` opens up; its reviewer node is what
  `ParallelReview` opens up.

The parts of `ProjectSpace`, and those of `Platform`, are independent: none
reads what another writes. Each of their next-state relations moves one part
with the others at rest, so that a run visits the sum of their states and not
the product. Where parts do meet (a review started with a preset reads a
connection; a PUT and the sync worker meet at a row) they are in one module.

`PROJECT.json` has the correspondence of every definition with its source lines.

## 3. The modules

### 3.1 `AgentCommands`, `CommandLifecycle`

`cmd` and `task` are the two rows; `pc` and `on` are the coroutines of
concurrent requests; `loop` names the coroutine that holds the event loop
between two commits, so that only a crash can fall there. `hist` records what no
row does: who approved, how often the gateway was called, whether it returned.

| action | code |
| --- | --- |
| `AddMessage` | `add_message`: the rows, and the immediate run of an action without confirmation |
| `Confirm`, `Dismiss` | `confirm_task`, `retry_task` |
| `Claim` | `run_command` up to `await gateway.execute` |
| `GatewayApply` | the gateway's effect, in a thread or after an await |
| `RunSucceeds`, `RunFails` | the rest of `run_command` and its except branches |
| `Crash` | the process dies; rows stay |

`CommandLifecycle` is what a user may rely on, one phase per command.
`ImplementsLifecycle` maps a row and the calls in flight to a phase: `running`
with no call in flight is `lost`, and a command being worked on is `working`
even if its row was dismissed meanwhile.

### 3.2 `ReviewRun`

`dir`, `snap` and `report` are the disk, `job` the registry, `pc` the background
tasks, `stream` and `queue` the clients. Reports and snapshots pass through
*torn*, because `write_text` truncates first. `busy` is the run whose code holds
the loop while it writes several files. `Recover` is `JobRegistry.recover`:
both reports present (torn or not) reads as completed, an active or unreadable
snapshot as failed. Two consequences of that rule are in the model and named in
the properties: a failed run that has both reports is shown as completed after a
restart (`CompletedIsFinal` is stated of completed runs only), and a
`report.json` torn by a crash still counts.

### 3.3 `ReviewWorkflow`

A field of the state holds the number of the pass that produced it, which is
what freshness is about. `StartNode`, `EndNode` and `NodeRaises` interleave the
nodes of a superstep, `EndStep` applies their updates together, merges the
traces as `merge_state_dicts` does and follows the edges of
`build_review_graph`. `items` and `risky` are the two bits of data the control
depends on; agents answer unusable model output with an empty result.

### 3.4 `ConnectorSync`

One connector of one project. `loop` is the handler the event loop is inside of
and `tick` the worker's thread, both advancing one SQL statement at a time;
`Stamps` selects Notion's handler, which compares `last_edited_time` with the
stored stamp for manual tasks, or the handlers of Feishu and GitHub, which do
not. Pages carry the number of edits they have seen. A batch is the set of tasks
claimed, taken oldest first (`Older`). Backoff is a flag, `due`,
that becomes true at some time. `TickFault` raises in any statement and follows
the try of `run_sync_task`; `Crash` leaves only the tables.

### 3.5 `ProjectDomain`, `CommandGateway`

An operation of a service is two actions: the read and check, which puts the
write decided on into `call[w]` of the process `w`, and the transaction that
commits it (`InsertInsight` to `UpsertDelivery`). On the event loop nothing
of another handler comes in between, but the threads of the gateway and a crash
do. `AssessBegin` and `AssessEnd` are `assess_quality` before and after its
await; `Decision(Summary(r))` is the gate applied to what the kernel hands over.
A PRD's `truth`, and `hist`, are not in the code: the verdict the review
deserved, and what owners decided.

`CommandGateway` adds the worker thread of each command: `thread[c].pc` walks
through the action as the code does, in the order of its calls. `RunRaises` is
an exception anywhere in the run, `Execute` the next run of a failed command.
Of several opportunities or PRDs that qualify the code takes the one updated
last; the model takes any.

### 3.6 `Delivery`

One variable per file of the run, `Nothing` when it is missing, torn or empty.
`job[p]` is the call process `p` is inside of, with what it has read; `Script(op)`
is the order of its writes (and of the reads whose result is written back), a
step named for the file it writes. Another process may move between any two
steps and may read a file in the middle of being written, which is `Nothing` in
`Read`; `Crash` ends a call anywhere and may leave the file being written empty.

| actions | code |
| --- | --- |
| `Generate`, `GenerateBundle` | `generate_delivery_bundle_for_mcp`: a fresh draft under the same id |
| `ApproveLoad` ... `ApproveSnapshot` | `approve_handoff_for_mcp`: load and transition, bundle, records, snapshot |
| `HandoffLoad`, `Build`, `Place`, `HandoffTasks` | `handoff_to_executor_for_mcp`: route, adapter and materialisation per task, tasks |
| `PrepareLoad`, `Build`, `Place` | `prepare_agent_handoff_for_run_for_mcp` |
| `UpdateLoad` ... `UpdateTrace` | `update_execution_task_for_mcp`: tasks, bundle check, tasks, snapshot, trace |

A call that is refused before its first write changes nothing and is no step, so
the read and the check are one with the call's start. The history variables are
not in the code: `told`, the approval events written to the bundle; `moves`, the
updates written to the tasks; `calm`, whether calls came one at a time. The
initial state is the one a review leaves: the bundle just built. `Nothing` is assumed to
be none of the records the files hold (`NothingAssumption`).

Calls that overlap, or a bundle generated again, lose things nothing in the
repository promises to keep: of two updates at once the second write puts the
other's task back; an approval drops the snapshot's execution section; tasks of
an earlier bundle stay when it is generated again; a preview overwrites the
request of a task handed off. The properties therefore say what survives such
calls (`HandoffOfApproved`, `NothingInvented`) and what a call promises when it
runs alone (`AuditComplete`, `AloneTells`).

### 3.7 `ArtifactVersions`

`versions`, `workspace` and `links` are the three tables, `disk` the contents at
`content_path`. `job[c]` is the call a coroutine is inside of (`NoCall` when it is
in none); each step of it is
one transaction or one file operation, and may fail (`Fault`). `Copy` is what
`get_workspace` returns and `SaveWorkspace` what `upsert_workspace` writes: the
row, and every version of the copy. A document is a version number and blocks
with ids; `ApplyPatch` is `_apply_patch_to_document`, all operations or none.

| actions | code |
| --- | --- |
| `PatchRejected`, `PatchRaised`, `PatchOpen` ... `PatchSave` | `apply_artifact_patch_async` |
| `DeriveLoad`, `DeriveInsert`, `BlindSave` | `_derive_feishu_workspace_version`, which asks no transaction whether it succeeded |
| `RoadmapLoad`, `BlindSave` | `_update_feishu_workspace_roadmap` |
| `ReviewDone` ... `ReviewLink` | `review_artifact_version_async`, which the service exports and only tests call |

History, not in the code: `children`, how many calls made something of each
version; `planned`, the roadmap saved last; `calm`, whether calls overlapped.

Two things the code does not keep, and the properties except: two patches of one
version share a file (`LinearKeepsSnapshots`, which the module states, speaks of
versions used once), and a workspace saved from a stale copy points back at
earlier versions (`PointersResolve` says only that what is pointed at exists).

### 3.8 `RunRevision`

`files` is one record field per file, `call[c]` the handler a coroutine is in:
`todo` the files it has yet to write, each opened (torn) and then filled, `then`
where it goes afterwards, `seen` and `draft` what it carries across an await. The
server's coroutines take turns (`MayMove`): one has the loop until its next
await. Calls that came over MCP are in a process of its own and may move at any
time. `Crash` ends one of the two processes.

| actions | code |
| --- | --- |
| `Answer` | `answer_review_clarification`: apply, write the report, write the review's copy |
| `AnswerAsync`, `Look`, `Reread`, `Prompted`, `Patched` | `answer_review_clarification_async`: the same, two reads of the report, the patch or its prompt, the write-back |
| `Decide`, `Input`, `Confirm`, `Continue`, `Regenerate` | the stage, input and confirm handlers |
| `Generate`, `GenerateNow`, `Generated`, `GenerationFailed`, `ListArtifacts` | `generate_revision_for_run_async`, asked for or following `Regenerate` |

Of the answers one request brings to a finding, the last in the order of the
questions decides (`Places`), each applied to the original severity. `Reports` and
`RevisionStages` are what the two files may hold; a file that is missing or torn
is neither (`FilesAssumption`).

`demand` is what is asked for in a behaviour, chosen once from `Demands`: it
bounds the mix, not the interleaving. `told` and `safe` are history: what the
user has been acknowledged, and whether only the plain answers of the server
came so far.

`AnswersKept` holds only of plain answers: one with a patch writes back the
report it read before the patch, and one from another process may be read half
written, which the re-read takes for an empty report and writes back as such. A
generation writes back the stage it read before the model answered, so
`AloneAgrees` is stated of calls one after the other.

### 3.9 `RequirementText`, `Reviewers`, `ReviewAggregation`, `ParallelReview`

The first three are operators: what `normalize_requirement` keeps of a text given
as lines with the words its patterns look for; the gate (`SelectedMode`), the
choice of reviewers (`Selected`) and the rules each of them applies (`AnswerOf`);
and the aggregation, from `AggregateFindings` to `Arbitrated`, with the flags of
an item and the findings of the result page (`DerivedFindings`).

`ParallelReview` runs them: `outcome` is the state of each reviewer's call,
`filePass` the pass that wrote each of the six files, `items` how many parsed items
have acceptance criteria of their own.

| action | code |
| --- | --- |
| `QuickReview`, `SkipReview`, `StartReviewers` | the reviewer node by `decide_review_mode` |
| `EndReviewer`, `TimeOut` | `_run_reviewer_with_resilience`, one call each |
| `GatherReturns`, `WriteFile`, `PublishFullReview` | the gather, the artifacts in their order, what the node returns |
| `NodeRaises` | the cache, the case store or a file fails |
| `Clarify`, `Finish` | `_route_decider_node` |

`FailuresShow` compares what is published with the answers that arrived, which
the code no longer has by then.

### 3.10 `ProjectMaterials`, `ProviderSettings`, `ConnectorSettings`, `ProjectSpace`

`ProjectMaterials`: `sources` is the table in the order of insertion, `writer[w]`
how far the event loop's and the worker's write has come (version read, row
inserted, event recorded), `reviews` what each request for a review holds across
the await of `enqueue_review`. A text is named by the row that had it first.

`ProviderSettings`: a sealed key is the key with the master key it was sealed
under, and `CanOpen` is whether that is the one of today. Handlers have no
await, so each is one step, but for `SavePreset`, whose two transactions can be
cut apart (`SaveCutShort`). `saved` is history: the key a connection was last given.

`ConnectorSettings`: the row of one connector, of any of the three services. A
PUT reads it twice and writes it whole (`PutRead`, `PutUpsert`, `PutWrite`), the
worker fetches with it and stamps it (`Fetch`, `TouchRead`, `TouchWrite`). The
history `given` is what users asked for, `blind` that the row was rewritten
under a master key that does not open it, `met` that a stamp wrote over a PUT;
in the last two cases secrets are lost, and `FetchAsGiven` says what holds
otherwise.

`ProjectSpace` puts them side by side.

### 3.11 `Notifications`, `HandoffOutputs`, `SelectiveRerun`

`Notifications`: both processes walk through the channels their environment
names, one record per attempt; a request that times out may have arrived.
`Retry` sends again whatever has a failed record.

`HandoffOutputs`: `maker[p]` is the generation a process is at: whether it found a
document, which files its stage has left to make, which one it is writing, what
it has made and how its stages ended. `write_text` empties a file before it fills
it, so each file is written in two steps, `StartFile` and `FinishFile`, of which
either may raise and be caught by the stage; `MakePacks` to `MakeBundle` say when
a stage may write, `EndStage` how it ends. `report.json` is read by `LoadReport`,
emptied by `EmptyReport` and filled by `SaveReport`; one that does not load is
skipped, and the event, `Tell`, says ok all the same. `BeginEdit` is an answer, a
revision or a roadmap that reads the report and writes it back whole. `Abandon` is
a death, or an exception no stage catches: what was being written stays torn.
`disk` holds the artifacts that are whole, and `interrupted` remembers that, since
the last whole generation began with no other at work, two met, or one was cut
off or not told of. Left out is which document is worked from (only whether there
is one) and the draft itself, of which only the end of its stage is followed: the
status of a generation depends on no more.

`SelectiveRerun`: one request after the other, compared, analysed (by the model's
word or the fallback) and planned: the closure of the nodes that are affected is
the least set closed under the plan's edges. `ReadsOf` is what the agents of the graph
read, which the plan's own edges are held against.

### 3.12 `JobQueue`, `ReviewMemory`

`JobQueue`: memory and table apart, since a row may fail to be written; `live`
counts the awaited handlers of a job, `recovery` is where `recover` stands.

`ReviewMemory`: each use of the file is a read (`RetrieveSimilar`, `EndOfReview`,
`StoreReviewCase`) and a write in two steps (`EmptyFile`, `FillFile`), between
which another process may read an empty file or a kill may leave one.

### 3.13 `ReviewIngress`, `LongTermMemory`

Operators from a submission to its source, type, profile and scope; then a review
recalls (`Recall`), decides what to keep (`Extract`, compared with the table
once) and saves it row by row (`SaveMemory`). A text is a topic, a number, alike
its neighbours; the scores are the code's, in ten-thousandths, so that the
thresholds bite where they do in the code. `together` is history: which reviews
extracted at the same time.

### 3.14 `Platform` and the MC modules

`Platform` puts the modules of 3.11 to 3.13 side by side. `MCAgentCommands`,
`MCReviewRun` and `MCReviewWorkflow` only give their module to TLC; `MCDelivery`
adds the permutations of the processes; `MCConnectorSync` names what an event is
about and the mappings; `MCCommandGateway` names the reviews and restricts the mix of
what happens at once (`Mixes`, a state constraint, below); `MCRunRevision` has
two questions about one finding, answers, patches, and the mixes of requests;
`MCParallelReview` seven texts; `MCProjectSpace` the bounds of two mixes;
`MCPlatform` four submissions and two results of a review.

## 4. Runs

States are distinct states. Deadlock is not checked anywhere: all the systems
rest when bounded inputs are used up.

| run | checks | bounds | states |
| --- | --- | --- | --- |
| `agent` | approval before effect, single flight, no run after success, settling, refinement of `CommandLifecycle` | 2 commands, 2 users, 2 handlers, 2 runs each, 1 crash | 94,768 |
| `review_run` | stream and record, finality, streams end, runs settle | 2 runs, 2 clients, 1 progress event each, 1 crash, 1 failing write | 140,618 |
| `workflow` | branches joined, one-pass report, end | 2 revisions (the code's constant) | 2,012 |
| `sync` | events kept, completed carries the edit, announced edits settle | Notion; 2 pages, 1 event about both, 1 manual sync of all, 2 edits, 2 attempts, batch 2, 1 fault | 1.3 M |
| `delivery` | tasks of approved bundles only, records, trace and snapshot invent nothing, audit complete when calls come one by one, a call alone leaves the files in agreement | 2 processes, 4 calls, 1 crash, 2 modes, previews for one agent or all | 1.1 M |
| `domain` | decided before delivered, passed before approved, approval behind each PRD, one of each per command | below | 1.9 M |
| `domain_late` | **violated**: no assessment undoes an owner's decision | no command | |
| `domain_gate` | **violated**: an approved PRD has no findings | no command | |
| `revision` | pointers resolve, answers kept, agreement of calls made one by one | 2 coroutines, six mixes of 2 to 5 calls, 2 questions, 2 patches, 1 failing transaction, 1 crash | 1.9 M |
| `parallel` | failures show, the untestable never slips, high is real, reviews end | 7 texts, 3 modes asked for, 1 item with and 1 without criteria, 2 revisions | 94,068 |
| `space` | versions apart, reviewed text kept, secrets as given | 3 rows of 2 titles, or 2 rows with 1 review and 1 restart; 2 connections, 2 presets, 1 key; 1 connector; 2 master keys, any number of restarts | 595,082 |
| `platform` | a loss can be retried, ok is whole, reuse is unaffected, jobs run once, cases kept, one memory of a kind, recall has ground | 2 notifications, 4 records; 2 packs, 1 prompt, 2 generations; any plan; 2 jobs, 2 attempts, 2 restarts; 2 processes, 2 reviews, 1 seed, 1 kill; 3 reviews, 3 modes, 2 memories each | 1.9 M |

Why the bounds are enough:

- `agent`: two handlers are what it takes to race on one command, a second
  command shows independence, two runs are a failure and its retry, one crash
  falls between any two commits. The proofs lift all of these.
- `review_run`: two runs share the loop and the registry, two clients may be on
  one run or on two; one crash at each point; a second crash meets a state a
  first one can already have left. The proofs lift the bounds for the safety
  properties, as they do in each of the following runs.
- `workflow`: the code's own bound. The proofs hold for any.
- `sync`: two pages are needed for a push that is half enqueued and for the
  shared stamp, which the manual sync reads; the second edit is made without an
  event and is found by either. Two attempts are a retry and exhaustion; a batch
  of two holds a task that waits while the first runs. In the code the numbers
  are 5 and 5. One event suffices, since each has tasks of its own.
- `delivery`: two processes overlap; four calls are an approval, a handoff, an
  update and one more of any kind beside them or after them, a second approval
  cycle or a second bundle included (five calls, 5 M states, were checked once,
  with no error). The two processes are alike and no property names one, so
  permuting them is sound for these safety properties. Of the packs both are
  there; `human_only` and `agent_auto` on a bundle with a high risk, which turns
  automatic tasks into assisted ones, are the modes that behave differently.
- `domain`: one command that meets a fault or a crash anywhere, or two commands
  that meet each other with no fault: over the opportunity, the PRD, the delivery
  or the evidence. A second row of a table is allowed where the command could
  make one too many: two insights or opportunities for `generate`, two PRDs for
  `generate_prd` and `prepare_delivery`; the second PRD can be assessed and
  decided, so that a delivery cut off by an error finds another PRD on its retry.

- `revision`: two coroutines overlap, and three calls of the kinds that share a
  file or a table are enough for a stale copy to meet a change that came after
  it; the mix of five is a whole revision: enter, give instructions, generate,
  confirm, generate again. Two questions about one finding, and a long and a
  short answer, are what it takes for severities to follow the wrong answer. Of
  the two patches one appends to a block and inserts another, the second changes
  that block, deletes one and inserts under the id just deleted; either fits the
  first version, neither twice, nor the second after the first.
  The coroutines are alike, so permuting them is sound for these invariants.

- `parallel`: the texts reach every mode, full reviews of one up to all four
  reviewers, high findings of product or security alone, and of all but engineering;
  one item of either sort gives ratios of none, half and all, on both sides of
  the threshold. Two revisions are the code's.
- `space`: two titles are needed for a version of one to be told from the
  other's, three rows for a version to be counted past a deletion or a roll back.
  A row read and not yet inserted counts as one. Two master keys are one and
  another; restarts are not bounded. Ids, titles and master keys are alike, and
  permuting them is sound for these safety properties.
- `platform`: every environment of the notifications with the two processes
  sending at once; a generation, or a rewriting of the report, beside or after
  another, so that the second makes whole what the first left torn, or tears what
  it had made; any affected nodes, any
  cache; two jobs so that one is waited for while the other is enqueued; two
  processes at the file of cases. Of the submissions two are of different teams,
  one has neither team nor project, one cannot be routed; of the results one
  makes two memories of different types and one makes candidates that are alike
  and more than are kept. Nothing in `Platform` needs two parts to move together.

### Fairness

- `agent`: a coroutine that is ready is run, and a gateway call returns or
  raises (its connectors have timeouts). Nothing makes a user act or a crash
  happen. The fairness is on each handler's own actions, not on `Next`.
- `review_run`: a created task runs and the graph ends (model calls time out); a
  subscribed stream is served while its client stays; a dead server is started
  again (`Recover`). Crashes and disconnects are not fair.
- `workflow`: nodes that are ready start, nodes that run end; raising is never
  forced, so the loop is shown to end with the graph that never fails.
- `sync`: a provider redelivers an event until it is answered, which is strong
  fairness of the delivery (it is disabled while another handler runs);
  handlers, the worker's thread and backoffs go on. Faults are not fair, and
  `EventSettles` promises nothing after one.
- `parallel`: each node's own steps, and the timeout that `asyncio.wait_for` puts
  on each reviewer; of the reviewers themselves nothing is assumed.
- The other runs check safety only and state no fairness.

### What the violated runs show

- `domain_late`: `assess_quality` checks the status before its review and writes
  `quality_checked` after it; an approval, a waiver or even a delivery in
  between is followed by a PRD that is only quality-checked again.
- `domain_gate`: the gate asks for a revision if the review has findings or
  clarification questions, but is handed a `ReviewResultSummary`, which carries
  neither; only the high-risk ratio ever blocks.

### Met while modelling

What the code does where no property could hold, or where the property above
excepts it; each at its line.

- The review's trace in a revision pass: the copy that `risk` returns still holds
  the `planner` span of the pass before, and `merge_state_dicts` lays it over the
  new one (`state.py:108`; stated as `SpansOfBothBranches`).
- The revision's model reads `resolved_answers` and `stable_conclusions` of the
  clarification; the gate writes `answers_applied` and `findings_updated`, so the
  user's answers never reach it (`revision_service.py:111`; stated as
  `AnswersReachDraft`).
- Notion's manual sync skips a page edited before `last_synced_at`, which any
  page's webhook task moves; the idempotency key of a manual sync holds no time,
  so one resource is synced by hand once (`connectors/notion_sync.py:164`).
- A connector's row saved or stamped under another master key, were it only for
  a mapping, is written without the secrets that did not open: they are gone when
  the first key is back (`notion/config_store.py:202`). Without a master key not
  even a mapping can be saved, and a Notion task fails after its page is stored.
- `auth_mode` defaults to `pat`, so `MARRDP_GITHUB_AUTH_MODE` is never consulted
  (`github/config_store.py:87`).
- A retry sends every notification again that has ever failed on a channel, on
  all of its channels (`monitoring/retry.py:208`).
- The first retry after a confirmed revision renders `prd_v1.md` from the document
  in `report.json`, still that of the generation before
  (`draft_generator.py:201`); making the bundle again over MCP tells "ok" with
  packs missing, since it asks for their paths (`service/review_service.py:2147`).
- A generation over MCP that is killed in a write leaves a pack or `report.json`
  torn under an older event that says ok; after a torn report no retry and no
  bundle begins any more (`monitoring/retry.py:171`,
  `service/review_service.py:2137`); a report torn by another process while a
  generation is at work is skipped and the event says ok (`:1675`). `OkIsWhole`
  speaks of none of these: it takes that nothing was interrupted since.
- The rerun plan has no edge from `risk` to `delivery_planning`, which reads the
  risks (`service/selective_rerun_service.py:20`).
- `recover` takes a job enqueued while it awaits another for an interrupted one
  and runs it a second time (`platform/local.py:172`).
- A snapshot torn inside a multi-byte character raises a `UnicodeDecodeError`
  that `read_progress_snapshot` does not catch (`server/job_state.py:502`); the
  torn snapshots of `ReviewRun` are unreadable JSON.
- The gateway compares a source's checksum with the stored text, while the review
  prefers the live document behind its URL (`server/command_gateway.py:431`).
- The profile hint `default` is supported and has no score: a `KeyError`
  (`review/profile_router.py:99`).

## 5. Proofs

Every safety property that a passing run checks, `SecretsAsGiven`, `AloneTells`,
`NoRunAfterSuccess` and `ImplementsLifecycle` included, is a theorem, checked by
TLAPS for every value of the constants that satisfies the modules' assumptions.
The bounds on runs, calls, rows, crashes and revisions are constants, so the
results hold for any. The assumptions, each named in its module and evaluated by
TLC on the runs:

- bounds are naturals (`ReviewWorkflowAssumption`, `NotificationsAssumption`,
  `ReviewMemoryAssumption`, `MaterialsAssumption`, and parts of the others; the
  attempts of `SyncAssumption` and `JobQueueAssumption` and the memories kept of
  `LongTermMemoryAssumption` are at least one, as in the code);
- what stands for "none" is none of the others: `ConstantsAssumption`,
  `ReviewRunAssumption`, `ProjectDomainAssumption`, `NothingAssumption`,
  `VersionsAssumption`, `WorkspaceAssumption`, `FilesAssumption`,
  `SettingsAssumption`, and `SyncAssumption` of the page that stands for all;
- parameters are of the kind the code has: actions and reviews
  (`CommandGatewayAssumption`, `ProjectDomainAssumption`), modes and agents
  (`DeliveryAssumption`), questions and answers (`RevisionAssumption`), texts
  (`ParallelReviewAssumption`), the execution pack among the packs, and packs,
  prompts and bundles all different files (`HandoffAssumption`), finitely many jobs (`JobQueueAssumption`).

All the proofs have the same outline: the property is weakened by what a call
carries from one step to the next, so the inductive invariant says of each call
in flight what it has read, and which part of that still holds when others have
moved. Lemmas about tables and files come first, then one lemma per action, then
the step theorem.

### `AgentCommands_proofs`

Theorems `TypeCorrect`, `ApprovalFirst`, `OneFlight`, `TaskMirrors` and
`NoSecondSuccess`, all from `Invariance`: `Spec => []IInv`. None of the
properties is inductive. What `IInv` adds:

- who holds the loop is exactly the handler at its claim (`LoopInv`), and every
  handler not idle serves a command of the ledger (`OnInv`);
- a command about to be claimed is `executable` or `failed` (`ClaimInv`): the
  confirmation's check and the claim are one stretch of the loop;
- with a call in flight the row is `running` or `dismissed` and the command has
  had a run (`FlightInv`), a state no confirmation accepts; hence two busy
  handlers are never on one command (`ExclInv`);
- an id with no row yet has had no run, no effect and no success (`FreshInv`);
  a command that needs confirmation and is past it, or has had a run or an
  effect, was approved by its owner (`ApprovalInv`);
- after success the row is `completed` or `dismissed` and no handler serves the
  command (`SuccessInv`), so that nothing enables another.

The step theorem has one lemma per action, on top of one lemma per table update.

`LedgerImplementsLifecycle` is the refinement: under the mapping of
`ImplementsLifecycle` every state of the ledger has a phase, the initial one is
initial, and every step is one of `CommandLifecycle` or leaves the phases alone.
`IInv` is what excludes the rest: a claim finds the phase `ready`, a return of
the gateway finds `working`, and a crash makes `lost` of `working` and nothing
else. The abstract specification states no fairness; that commands end is a
liveness property of the ledger, and stays with TLC.

### `ReviewWorkflow_proofs`

Theorems `WorkflowTypes`, `JoinSeesBothBranches`, `OnePassReport` and
`FreshVerdict` from `WorkflowInvariance`. The invariant says which sets of nodes
can be a superstep (`From1`, the whole pass, down to `From8`, its end), and for
each point of the pass which fields are fresh by then; a field is stale again
when the round goes up, and the point of the graph goes back with it. Lemma
`Edges` states where each superstep leads.

### `Delivery_proofs`

Theorems `TypeCorrect`, `TasksWereApproved` and `AuditInventsNothing` from
`Inductive`: `Spec => []IInv`, for any number of processes, calls and crashes.
The files alone are not inductive, because a call carries what it read past the
writes of others. `JobOK` follows a call from its first read: an approval past
its bundle write carries an event that is in the history, and the records it read
tell of nothing else; a handoff and an update carry tasks of an approved bundle;
an update past its task write carries a move that happened, and a trace that
tells of nothing else. As both histories only grow, what another process writes
cannot undo these facts (lemma `Grows`), and a process that moves on has only its
own call to account for (`OneMoves`). `BundleInv` adds that a bundle not in draft
got its status by an event, which is what the routing check of `approved` rests
on. The order of the writes is what the proof uses: records after bundle, trace
after tasks.

`AuditMissesNothing` and `LoneCallsTell` rest on a second invariant, `Whole`. As
long as a call has had the files to itself no other is at them, and in a calm
behaviour each call has (`LoneInv`). `AuditInv`: in a calm behaviour the records
have every approval told and the trace every move, but for that of the call under
way while it is due, and what that call read of them is what they hold. `TellsInv`:
a call alone has brought bundle, tasks and snapshot to where its script has come,
and a task is either placed for its agent or still on its list. The last write of
a script closes the gap, which is where `AloneTells` looks.

### `ReviewRun_proofs`

Theorems `TypeCorrect`, `StreamsAgree`, `CompletionIsFinal` and
`AcceptedRunsAreKept`, from `ReviewRunInv`. Neither property is inductive, since
what clients were told outlives the record that told it. `TaskAgreesWithRecord`
ties the task's place to the registry; `FilesFollowTask` says that a task at its
files has made those before; `CompletedIsOnDisk` that whoever was told of a
completion, or will be by the record, has both reports on disk, which is what
`Recover` reads after a crash; `ClientOK` that a terminal event on its way in a
queue says what the record says. The report's order, `report.md` before
`report.json` before the record, is what the proof uses.

### `CommandGateway_proofs`

Theorems `TypeCorrect`, `DeliveredWereDecided`, `OnlyPassedAreApproved`,
`PrdsAreOfApproved` and `CommandsMakeOne`, of `GSpec`, so of the project domain
with the gateway's threads beside it. `CallsOK` is about the pending writes: a
whole row read earlier and to be written back carries a decision that was taken,
of an opportunity that was approved, though the row it replaces may say something
else by then. `RowsOK` says so of the rows. `CommandsOK` is about the commands:
what a thread did not find before it began to create is not there until it
writes it, because no other process makes rows with its `command_id` and the
ledger runs a command once at a time; and what it has made is one of each.

### `ConnectorSync_proofs`

Theorems `TypeCorrect`, `NoEventIsLost`, `EditsAreCarried` and `AttemptsBudgeted`
(the latter of a property no run checks). `SyncInv` has, beside the types:
`RowsInv`, what each status says of the attempts; `BatchInv`, that tasks claimed
are as they were when claimed and the one being run follows the worker's place;
`LeftInv`, that only a fault leaves a task running; `HookInv`, that a webhook's
handler leaves no page behind; `AnnouncedInv`, `ContentInv` and `StoreInv`, that
nothing is announced or stored which the provider did not have and the worker
stores nothing older than what is held; `WorkInv`, the heart of it: the task of an
event fetches its page whatever its age, and holds at least the announced edit
once there is nothing left to fetch.

### `Platform_proofs`

The components of `Platform` have no variable in common, so
`OneComponentSteps` gives each an invariant of its own.

- `QueueRunsJobsOnce` (`JobQueueInv`): of a job that no recovery was overtaken by,
  a live handler means that memory and table say it runs, and that the recovery,
  if one is under way, awaits this very job (`Regular`); a record counts at least
  the attempts that failed (`Spent`).
- `CasesAreKept` (`ReviewMemoryInv`): while no two processes met at the file, one
  at most is at it, the file is torn only while that one writes, and what it is
  about to write has all that is known.
- `ReusedAreUnaffected` (`RerunInv`): closedness of the closure against `ReadsOf`,
  edge by edge.
- `OkMeansWhole` (`HandoffInv`): a file is made once, so that emptying one takes
  nothing from those made (`MakesOnce`, for which the kinds of outputs must be
  disjoint); what stages have made that went well or were skipped (`StagesMade`);
  of one alone at work, that what it made is on disk, and listed once it has
  written the report (`Alone`); and that what the last event says stands while
  nobody or only an edit is at work, which holds the list while the report is
  empty (`ToldStands`). That no two write one file follows from being alone.
- `LossesAreRetriable` (`NotificationsInv`): for each channel the server is
  through with, the notification was taken or a failed record exists that a retry
  acts on; MCP's own sends do not take such a record away.
- `MemoriesAreOfOneKind`, `RecalledHasGround` (`LongTermInv`): what a review is
  saving is unlike each memory it can read, but for those of a review that
  extracted at the same time; of its own, unlike each other.

The rest of the module is about `ProjectSpace`.

- `VersionsStayApart`, `ReviewedTextsAreKept` (`MaterialsInv`): a version is never
  above its row's number, and above all that were counted when it was read, which
  is kept as a fact of each row read and not yet inserted (`ReadInv`); a text
  under review is in its row or the row was edited as a document (`TextInv`).
- `SecretsAreAsGiven` (`SettingsInv` and, of the connector, `ConnectorTypeOK`,
  `RowAsGiven`, `TouchAsRead`, `PutAsGiven`): a row holds what users gave, a
  worker what it made of the row it read, and a PUT under way merges to what users
  will have given.

### `Reviews_proofs`

`FailuresAreShown`, `UntestableNeverSlipped` and `HighsAreReal`, of
`ParallelReview`: `ParallelInv` says that who was asked is who the text selects,
and that what is published is made of how those ended, item flags and ratio
included (`MadeOfResults`). The lemmas `FindingsMerged`, `RisksMerged`,
`AggregateSays`, `FlagsOfTwoGaps` and `DerivedAreReal` say that no step of the
aggregation drops or makes up a high severity. Findings are sets there, so
no induction over a list is needed.

`PointersResolved` and `RowsStand`, of the versions, rest on `RevisionInv`:
`VersionsInv` and `CallsInv`. `JobFits` says what each call carries at each step:
an id issued and not yet given to another, a row that fits its parent, a copy of
the workspace whose rows are rows of the table with the call's own added
(`CopyFits`). As rows are only added and never changed (`Grows`), a stale copy
brings no row back changed and takes none away.

`AnswersStand` rests on `SafeInv`: with answers to the server alone, one handler
at most is between two awaits, a report or a copy yet to be written carries all
answers given, and findings that follow them (`Carries`); where a file does not,
a handler has it in its list (`AnswersInv`). Lemma `AnsweredCarries` is about
`Answered`: the last question about a finding decides, whatever was answered
before.

`LoneCallsAgree` rests on `AloneInv`, which says of calls that come one after the
other: one coroutine is at a call (`OneCall`); the workspace points at the versions
made last but for the row of the call under way, whose copy, once taken, does so
for all (`LoneVersions`); and the files agree with what the user did once the list
being written is written (`AfterWrites`, `LoneFiles`), while a generation at the
model holds the instructions and the confirmation that the files hold
(`Generates`).

### Only model-checked

Liveness and `ENABLED` are out of the prover's reach: `ApprovedIsSettled`,
`StreamEnds`, `RunSettles`, `GraphEnds`, `EventSettles` and `ReviewEnds` stay with
TLC. So does what a recursive or folded operator computes for every input, which
takes induction over data: the proofs about versions take the result of
`ApplyPatch` for any document, and say nothing of block ids. The two properties
that do not hold (`domain_late`, `domain_gate`) are TLC's counterexamples.

The modules also state properties that no run checks. Of these
`AttemptsWithinBudget`, `RowsAreKept`, `LoopsOnFreshReview` and the types (`TypeOK`)
of `AgentCommands`, `ReviewRun`, `ReviewWorkflow`, `ConnectorSync`, `CommandGateway` and
`Delivery` are proved; the types of the other modules (in part restated in their
invariants), `CompletedIsSubmitted`, `LinearKeepsSnapshots`, `BlockIdsUnique`,
`DraftOfStableReview`, `VersionAboveParent`, `TimelineTells` and `OneDefault` are
not. They were checked with TLC while the modules were written; they hold by a
single guard, or are weaker than what the runs check. `SpansOfBothBranches` and
`AnswersReachDraft` are stated and do not hold (section 4).

## 6. What the models leave out

- Texts, prompts, scores, checksums, URLs and formats, except for the bit each
  decides: usable or not, risky or not, edited since or not.
- Audit events, trace links and logs: appended, read by no operation. Their
  failure is in the model, as a call that wrote its row and raised.
- Time: a timeout is a call that fails, a backoff a flag that becomes true, an
  order by `updated_at` a choice.
- SQLite itself: a transaction is one step, a statement that fails raises.
- Several server processes on one database: the code runs as one. (The files of
  a run are shared by processes, and `Delivery` has them.)
- Of a delivery: the traceability map, the audit log, notifications
  (`Notifications`) and the artifacts copied into `report.json`
  (`HandoffOutputs`), which no call of `Delivery` decides on; a request,
  context or temporary file torn by a crash, which only its agent reads.
- Of a revision: the notes file, audit events and the labels of decisions, which
  decide nothing; of the review's own copies of its report only the answers; an
  exception while one of the revision's files is written. `report.json` is also
  rewritten by an MCP retry or bundle: `HandoffOutputs` has that beside an answer
  as far as the list of artifacts goes, `RunRevision` has not, so `AnswersKept`
  says nothing of an answer that such a rewriting overlaps.
- Of a version: titles, statuses, labels, the patch and the diff written beside
  a patched document, trace links and decisions of the workspace.
- Of a parallel review: evidence, tool calls, similar cases and the rendered
  files; scores and lengths of texts beyond the classes the gate compares.
- Of the project space: the issues of a material's validation, which are stored
  and not read; which probe a provider is tested with; the webhook's project.
- Of the memories: similarity, as a relation between neighbouring topics; titles,
  which break ties. Of notifications: the cards. Of an audit event: its retry
  metadata, which nobody reads.
- The signature checks of webhooks: `ConnectorSync` starts from verified events.
- Keys chosen by HTTP clients for deliveries, and several projects: every
  operation is within one project, but for the memories, which are shared.
- Hazards without a property: a lone snapshot write that fails, a sync task left
  running by a crash, a rejection overwritten by a submission, an answer lost
  beside a patched one, a connector's stamp beside a PUT, a torn file of cases.
  The models have all of these steps; the code promises nothing about them, and
  the properties except them by name.
- The parts of section 1.15, each for the reason given there.
