---------------------------- MODULE ConnectorSync ----------------------------
(***************************************************************************)
(* One connector of one project: webhooks and manual requests put tasks    *)
(* into the sync_tasks table from the event loop, and the one polling      *)
(* worker of the process runs them on a thread of its own, fetching pages  *)
(* into the project's materials.  Every SQL statement is a commit of its   *)
(* own, so the worker, the event loop, the provider's editors and a crash  *)
(* interleave between any two of them.                                     *)
(*                                                                         *)
(* Stamps is TRUE for Notion, whose handler keeps last_synced_at and skips *)
(* pages not edited since, and FALSE for Feishu and GitHub, whose handlers *)
(* fetch one document whatever its age.  A page's content is the number of *)
(* edits it has seen, and editedAt its last_edited_time.                   *)
(***************************************************************************)
EXTENDS Integers, Sequences, FiniteSets

CONSTANTS
  Pages, AllPages,  \* mapped resources; AllPages: a manual sync without a resource
  Events, Manual,   \* webhook event ids; Manual: the origin of a manual task
  Touches,          \* the pages each event is about (several for a GitHub push)
  Scopes,           \* what users ask to sync: pages, AllPages
  Configs,          \* the page mappings users save
  Stamps,
  BatchSize, MaxAttempts,
  MaxEdits, MaxRequests, MaxFaults  \* bounds of the model

ASSUME SyncAssumption ==
  /\ Touches \in [Events -> SUBSET Pages]
  /\ Scopes \subseteq Pages \cup {AllPages}
  /\ Configs \subseteq SUBSET Pages
  /\ AllPages \notin Pages /\ Manual \notin Events
  /\ Stamps \in BOOLEAN
  /\ BatchSize \in Nat \ {0} /\ MaxAttempts \in Nat \ {0}
  /\ MaxEdits \in Nat \ {0} /\ {MaxRequests, MaxFaults} \subseteq Nat

VARIABLES
  remote,     \* the provider: edits each page has seen ...
  editedAt,   \* ... when it was last edited ...
  clock,      \* ... and the time
  noted,      \* the edit each event announces, per page; 0: not sent
  processed,  \* processed_events
  tasks,      \* sync_tasks, by idempotency key
  created,    \* its keys in the order of created_at
  requests,   \* manual requests answered so far
  health,     \* connector_health.status
  mapped,     \* connector_configs: the page mappings ...
  lastSynced, \* ... and last_synced_at; Never before the first sync
  held,       \* the content of each page's latest material
  loop,       \* the handler the event loop is inside of
  tick,       \* what the worker's thread is doing
  faults      \* crashes and raising statements so far

provider == <<remote, editedAt, clock, noted>>
queue == <<processed, tasks, created, requests>>
config == <<mapped, lastSynced>>
vars == <<provider, queue, config, faults, health, held, loop, tick>>

Never == -1

EventKey(e, p) == [from |-> e, of |-> p]
ManualKey(s) == [from |-> Manual, of |-> s]
Keys == {EventKey(e, p) : e \in Events, p \in Pages} \cup {ManualKey(s) : s \in Scopes}
IsManual(k) == k.from = Manual

NoTask == [status |-> "none", attempts |-> 0, due |-> FALSE]
Queued == [status |-> "pending", attempts |-> 0, due |-> FALSE]

LoopIdle == [at |-> "idle", event |-> Manual, todo |-> {}, stamp |-> Never]
TickIdle == [at |-> "idle", pending |-> {}, retries |-> {}, key |-> ManualKey(AllPages),
             todo |-> {}, page |-> AllPages, got |-> 0, since |-> Never, maps |-> {}]

Init ==
  /\ remote = [p \in Pages |-> 1] /\ editedAt = [p \in Pages |-> 0] /\ clock = 0
  /\ noted = [e \in Events |-> [p \in Pages |-> 0]]
  /\ processed = {}
  /\ tasks = [k \in Keys |-> NoTask] /\ created = <<>>
  /\ requests = 0
  /\ health = "unknown"
  /\ mapped \in Configs /\ lastSynced = Never
  /\ held = [p \in Pages |-> 0]
  /\ loop = LoopIdle /\ tick = TickIdle
  /\ faults = 0

-----------------------------------------------------------------------------
(* The provider. *)

EditPages(S) ==
  /\ \A p \in S : remote[p] < MaxEdits
  /\ clock' = clock + 1
  /\ remote' = [p \in Pages |-> IF p \in S THEN remote[p] + 1 ELSE remote[p]]
  /\ editedAt' = [p \in Pages |-> IF p \in S THEN clock' ELSE editedAt[p]]
  /\ UNCHANGED <<queue, config, faults, health, held, loop, tick>>

\* An edit the provider announces by an event of its own.
Edit(e) ==
  /\ \A p \in Pages : noted[e][p] = 0
  /\ EditPages(Touches[e])
  /\ noted' = [noted EXCEPT ![e] = [p \in Pages |-> IF p \in Touches[e] THEN remote'[p] ELSE 0]]

\* An edit whose event never reaches the server.
EditUnseen(p) == EditPages({p}) /\ UNCHANGED noted

-----------------------------------------------------------------------------
(* The event loop: a handler runs to its end before the next one starts. *)

\* enqueue_sync_task: a key that exists, whatever became of its task, is
\* answered "deduplicated".
Enqueue(k) ==
  IF tasks[k] # NoTask THEN UNCHANGED <<tasks, created>>
  ELSE tasks' = [tasks EXCEPT ![k] = Queued] /\ created' = Append(created, k)

\* Mutant: the event is remembered before its tasks are in.
HookCheckMarks(e) ==
  /\ loop = LoopIdle
  /\ \E p \in Pages : noted[e][p] > 0
  /\ e \notin processed
  /\ Touches[e] \cap mapped # {}
  /\ loop' = [LoopIdle EXCEPT !.at = "hook", !.event = e, !.todo = Touches[e] \cap mapped]
  /\ processed' = processed \cup {e}
  /\ UNCHANGED <<provider, tasks, created, requests, config, faults, health, held, tick>>

\* A webhook delivery that is neither a duplicate nor about unmapped pages.
HookCheck(e) ==
  /\ loop = LoopIdle
  /\ \E p \in Pages : noted[e][p] > 0
  /\ e \notin processed
  /\ Touches[e] \cap mapped # {}
  /\ loop' = [LoopIdle EXCEPT !.at = "hook", !.event = e, !.todo = Touches[e] \cap mapped]
  /\ UNCHANGED <<provider, queue, config, faults, health, held, tick>>

HookEnqueue(p) ==
  /\ loop.at = "hook" /\ p \in loop.todo
  /\ Enqueue(EventKey(loop.event, p))
  /\ loop' = [loop EXCEPT !.todo = @ \ {p}]
  /\ UNCHANGED <<provider, processed, requests, config, faults, health, held, tick>>

\* mark_event_processed
HookMark ==
  /\ loop.at = "hook" /\ loop.todo = {}
  /\ processed' = processed \cup {loop.event}
  /\ loop' = LoopIdle
  /\ UNCHANGED <<provider, tasks, created, requests, config, faults, health, held, tick>>

\* POST /projects/{id}/connectors/sync; the key holds no time or counter.
ManualSync(s) ==
  /\ loop = LoopIdle /\ requests < MaxRequests
  /\ requests' = requests + 1
  /\ Enqueue(ManualKey(s))
  /\ UNCHANGED <<provider, processed, config, faults, health, held, loop, tick>>

\* PUT /projects/{id}/connectors/notion: upsert keeps the stamp it read ...
PutRead ==
  /\ loop = LoopIdle
  /\ loop' = [LoopIdle EXCEPT !.at = "put", !.stamp = lastSynced]
  /\ UNCHANGED <<provider, queue, config, faults, health, held, tick>>

\* ... and writes the whole row.
PutWrite(S) ==
  /\ loop.at = "put"
  /\ mapped' = S /\ lastSynced' = loop.stamp
  /\ loop' = LoopIdle
  /\ UNCHANGED <<provider, queue, faults, health, held, tick>>

\* A statement of a handler raises; what it committed before stays.
LoopFault ==
  /\ loop # LoopIdle /\ faults < MaxFaults
  /\ faults' = faults + 1
  /\ loop' = LoopIdle
  /\ UNCHANGED <<provider, queue, config, health, held, tick>>

LoopStep ==
  \/ \E p \in Pages : HookEnqueue(p)
  \/ HookMark
  \/ \E S \in Configs : PutWrite(S)

-----------------------------------------------------------------------------
(* The worker. *)

\* Time passes until a retry's next_retry_at.
BackoffEnds(k) ==
  /\ tasks[k].status = "retry_scheduled" /\ ~tasks[k].due
  /\ tasks' = [tasks EXCEPT ![k].due = TRUE]
  /\ UNCHANGED <<provider, processed, created, requests, config, faults, health, held, loop, tick>>

Pending == {k \in Keys : tasks[k].status = "pending"}
Older(k, l) == \E i, j \in DOMAIN created : i < j /\ created[i] = k /\ created[j] = l
\* Mutant: only pending rows are selected.
PendingRetries == {k \in Keys : tasks[k].status = "pending" /\ tasks[k].due}
DueRetries == {k \in Keys : tasks[k].status = "retry_scheduled" /\ tasks[k].due}
Least(a, b) == IF a <= b THEN a ELSE b

\* claim_due_tasks: a list of at most BatchSize rows, the oldest pending ones
\* first; it changes no row.
Claim ==
  /\ tick.at = "idle"
  /\ \E first \in SUBSET Pending, R \in SUBSET DueRetries :
       /\ Cardinality(first) = Least(BatchSize, Cardinality(Pending))
       /\ \A k \in first, l \in Pending \ first : Older(k, l)
       /\ Cardinality(R) = Least(BatchSize - Cardinality(first), Cardinality(DueRetries))
       /\ first \cup R # {}
       /\ tick' = [TickIdle EXCEPT !.at = "next", !.pending = first, !.retries = R]
  /\ UNCHANGED <<provider, queue, config, faults, health, held, loop>>

\* What is left of the batch when a task is over.
NextOfBatch ==
  IF tick.pending \cup tick.retries = {} THEN TickIdle
  ELSE [TickIdle EXCEPT !.at = "next", !.pending = tick.pending, !.retries = tick.retries]

\* run_sync_task reads the row and commits running.
Begin(k) ==
  /\ tick.at = "next"
  /\ \/ k \in tick.pending /\ \A l \in tick.pending \ {k} : Older(k, l)
     \/ tick.pending = {} /\ k \in tick.retries
  /\ tasks' = [tasks EXCEPT ![k] =
                 [status |-> "running", attempts |-> @.attempts + 1, due |-> FALSE]]
  /\ tick' = [tick EXCEPT !.at = "config", !.key = k,
                          !.pending = @ \ {k}, !.retries = @ \ {k}]
  /\ UNCHANGED <<provider, processed, created, requests, config, faults, health, held, loop>>

\* The worker is at place a of run_sync_task, the handler's variables gone.
HandlerOver(a) ==
  [tick EXCEPT !.at = a, !.todo = {}, !.page = AllPages, !.got = 0, !.since = Never, !.maps = {}]

\* The handler raises: no such mapping, no resource, the provider's answer.
HandlerFails ==
  /\ tick.at = "config" \/ (tick.at = "fetch" /\ tick.todo # {})
  /\ tick' = HandlerOver("fail")
  /\ UNCHANGED <<provider, queue, config, faults, health, held, loop>>

\* Notion's handler reads the mappings and, for a manual task, the stamp; the
\* others take the document from the task and have none without a resource.
ReadConfig ==
  /\ tick.at = "config"
  /\ IF Stamps THEN tick.key.of \in mapped \cup {AllPages} ELSE tick.key.of # AllPages
  /\ tick' = [tick EXCEPT !.at = "fetch",
                          !.todo = IF tick.key.of = AllPages THEN mapped ELSE {tick.key.of},
                          !.since = IF IsManual(tick.key) /\ Stamps THEN lastSynced ELSE Never]
  /\ UNCHANGED <<provider, queue, config, faults, health, held, loop>>

\* Mutant: the stamp holds for webhook tasks too.
EditedAfterStamp(p) == editedAt[p] > lastSynced

\* get_content, and _page_edited_after: a page not edited since is skipped.
\* The task of a skipped single page completes without a stamp.
EditedAfter(p) == editedAt[p] > tick.since
Fetch(p) ==
  /\ tick.at = "fetch" /\ p \in tick.todo
  /\ LET rest == [tick EXCEPT !.todo = @ \ {p}]
     IN tick' = IF EditedAfter(p) THEN [rest EXCEPT !.at = "store", !.page = p, !.got = remote[p]]
                ELSE IF tick.key.of = AllPages THEN rest
                ELSE HandlerOver("complete")
  /\ UNCHANGED <<provider, queue, config, faults, health, held, loop>>

\* create_source_version
Store ==
  /\ tick.at = "store"
  /\ held' = [held EXCEPT ![tick.page] = tick.got]
  /\ tick' = [tick EXCEPT !.at = "fetch", !.page = AllPages, !.got = 0]
  /\ UNCHANGED <<provider, queue, config, faults, health, loop>>

\* All pages are through: touch_last_synced_at takes the time and reads the row ...
TouchRead ==
  /\ tick.at = "fetch" /\ tick.todo = {}
  /\ tick' = IF Stamps THEN [tick EXCEPT !.at = "touch", !.since = clock, !.maps = mapped]
             ELSE HandlerOver("complete")
  /\ UNCHANGED <<provider, queue, config, faults, health, held, loop>>

\* ... and writes back all of it, the mappings included.
TouchWrite ==
  /\ tick.at = "touch"
  /\ mapped' = tick.maps /\ lastSynced' = tick.since
  /\ tick' = HandlerOver("complete")
  /\ UNCHANGED <<provider, queue, faults, health, held, loop>>

Complete ==
  /\ tick.at = "complete"
  /\ tasks' = [tasks EXCEPT ![tick.key].status = "completed"]
  /\ tick' = [tick EXCEPT !.at = "health"]
  /\ UNCHANGED <<provider, processed, created, requests, config, faults, health, held, loop>>

RecordHealthy ==
  /\ tick.at = "health"
  /\ health' = "healthy"
  /\ tick' = [tick EXCEPT !.at = "event"]
  /\ UNCHANGED <<provider, queue, config, faults, held, loop>>

\* The timeline row of a success or of a failure ends the task.
RecordEvent ==
  /\ tick.at \in {"event", "failEvent"}
  /\ tick' = NextOfBatch
  /\ UNCHANGED <<provider, queue, config, faults, health, held, loop>>

\* The except branch of run_sync_task.
Exhausted(k) == tasks[k].attempts >= MaxAttempts
Fail ==
  /\ tick.at = "fail"
  /\ tasks' = [tasks EXCEPT ![tick.key].status =
                 IF Exhausted(tick.key) THEN "failed" ELSE "retry_scheduled"]
  /\ tick' = [tick EXCEPT !.at = "failHealth"]
  /\ UNCHANGED <<provider, processed, created, requests, config, faults, health, held, loop>>

RecordFailing ==
  /\ tick.at = "failHealth"
  /\ health' = IF Exhausted(tick.key) THEN "error" ELSE "degraded"
  /\ tick' = [tick EXCEPT !.at = "failEvent"]
  /\ UNCHANGED <<provider, queue, config, faults, held, loop>>

\* A statement raises.  Within the try the task fails, even one committed as
\* completed; outside it the tick is over and the batch forgotten.
Tries == {"config", "fetch", "store", "touch", "complete", "health", "event"}
TickFault ==
  /\ tick.at # "idle" /\ faults < MaxFaults
  /\ faults' = faults + 1
  /\ tick' = IF tick.at \in Tries THEN HandlerOver("fail") ELSE TickIdle
  /\ UNCHANGED <<provider, queue, config, health, held, loop>>

\* The process dies and is started again: only the tables survive.
Crash ==
  /\ faults < MaxFaults
  /\ faults' = faults + 1
  /\ loop' = LoopIdle /\ tick' = TickIdle
  /\ UNCHANGED <<provider, queue, config, health, held>>

TickStep ==
  \/ Claim \/ \E k \in Keys : Begin(k)
  \/ ReadConfig \/ HandlerFails \/ \E p \in Pages : Fetch(p)
  \/ Store \/ TouchRead \/ TouchWrite
  \/ Complete \/ RecordHealthy \/ RecordEvent \/ Fail \/ RecordFailing

Next ==
  \/ \E e \in Events : Edit(e) \/ HookCheck(e)
  \/ \E p \in Pages : EditUnseen(p)
  \/ \E s \in Scopes : ManualSync(s)
  \/ PutRead \/ LoopStep \/ LoopFault
  \/ \E k \in Keys : BackoffEnds(k)
  \/ TickStep \/ TickFault \/ Crash

Spec == Init /\ [][Next]_vars

\* The provider redelivers an event until it is answered, handlers end, the
\* worker's thread runs on and backoffs end; nothing makes a user or a fault
\* happen.
Fairness ==
  /\ \A e \in Events : SF_vars(HookCheck(e))
  /\ WF_vars(LoopStep)
  /\ WF_vars(TickStep)
  /\ \A k \in Keys : WF_vars(BackoffEnds(k))
FairSpec == Spec /\ Fairness

-----------------------------------------------------------------------------
(* Properties. *)

Statuses == {"none", "pending", "running", "completed", "failed", "retry_scheduled"}
Places == Tries \cup {"idle", "next", "fail", "failHealth", "failEvent"}

\* Every variable keeps its type, the tables of store.py included.
TypeOK ==
  /\ remote \in [Pages -> 1..MaxEdits] /\ editedAt \in [Pages -> Nat] /\ clock \in Nat
  /\ noted \in [Events -> [Pages -> 0..MaxEdits]]
  /\ processed \subseteq Events
  /\ tasks \in [Keys -> [status : Statuses, attempts : 0..MaxAttempts, due : BOOLEAN]]
  /\ created \in Seq(Keys)
  /\ health \in {"unknown", "healthy", "degraded", "error"}
  /\ mapped \in Configs /\ lastSynced \in Nat \cup {Never}
  /\ held \in [Pages -> 0..MaxEdits]
  /\ loop \in [at : {"idle", "hook", "put"}, event : Events \cup {Manual},
               todo : SUBSET Pages, stamp : Nat \cup {Never}]
  /\ tick \in [at : Places, pending : SUBSET Keys, retries : SUBSET Keys,
               key : Keys \cup {ManualKey(AllPages)}, todo : SUBSET Pages,
               page : Pages \cup {AllPages}, got : 0..MaxEdits,
               since : Nat \cup {Never}, maps : Configs \cup {{}}]
  /\ requests \in 0..MaxRequests /\ faults \in 0..MaxFaults

\* The pages that stay mapped whatever users save.
Kept == {p \in Pages : \A S \in Configs : p \in S}

\* An event remembered as processed, whose redeliveries are thus dropped, has a
\* task for every mapped page it is about, wherever the process died.
EventsNotLost ==
  \A e \in processed : \A p \in Touches[e] \cap Kept : tasks[EventKey(e, p)] # NoTask

\* A task that is completed has brought in at least the edit its event is about:
\* neither last_synced_at nor a redelivery makes the worker skip it.
CompletedCarriesTheEdit ==
  \A e \in Events, p \in Pages :
    tasks[EventKey(e, p)].status = "completed" => held[p] >= noted[e][p]

\* A task is started at most MaxAttempts times, is failed only after that many,
\* and is left running only by a process that died or a table that raised.
AttemptsWithinBudget ==
  \A k \in Keys :
    /\ tasks[k].status = "retry_scheduled" => tasks[k].attempts \in 1..(MaxAttempts - 1)
    /\ tasks[k].status = "failed" => tasks[k].attempts = MaxAttempts
    /\ tasks[k].status = "running" =>
         (tick.at \in Places \ {"idle", "next"} /\ tick.key = k) \/ faults > 0

\* An edit that was announced ends, after finitely many retries, in a completed
\* or a failed task for each of its pages, as long as no process dies and no
\* table raises: the row of a task that was running then is never claimed again.
EventSettles ==
  \A e \in Events :
    (\E p \in Pages : noted[e][p] > 0) ~>
      \/ faults > 0
      \/ \A p \in Touches[e] \cap Kept : tasks[EventKey(e, p)].status \in {"completed", "failed"}
=============================================================================
