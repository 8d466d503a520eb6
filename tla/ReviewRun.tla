----------------------------- MODULE ReviewRun -----------------------------
(***************************************************************************)
(* The life of a review run in the API server: submission, the background  *)
(* job, its snapshot and reports on disk, the registry rebuilt at startup, *)
(* and the progress streams of the clients.                                *)
(*   server/app.py, server/job_registry.py, server/job_state.py,           *)
(*   server/sse.py, run_review.py, service/review_service.py               *)
(*                                                                         *)
(* Handlers and jobs share one event loop.  A stretch of code without a    *)
(* suspension is one action, or several when a crash can fall between the  *)
(* files it writes; busy then names the run whose code holds the loop.     *)
(* Files are written with write_text, which truncates first: a crash may   *)
(* leave a file torn.                                                      *)
(***************************************************************************)
EXTENDS Naturals, Sequences

CONSTANTS
    Runs,         \* run ids; each stands for one run directory
    Clients,      \* connections that ask for a progress stream
    NoRun,
    MaxProgress,  \* bound: progress events per run
    MaxCrashes,   \* bound: crashes of the server
    MaxFaults     \* bound: snapshot writes that raise OSError

ASSUME ReviewRunAssumption ==
    /\ NoRun \notin Runs
    /\ MaxProgress \in Nat /\ MaxCrashes \in Nat /\ MaxFaults \in Nat

Active == {"queued", "running"}
Terminal == {"completed", "failed"}
FileStates == {"absent", "torn", "whole"}

VARIABLES
    up,       \* the server has finished its startup
    busy,     \* the run whose code holds the event loop, or NoRun
    dir,      \* the run directories that exist
    snap,     \* run_progress.json: absent, torn, or the status it holds
    report,   \* report.md and report.json of each run
    job,      \* the registry: status of each JobRecord, or none
    pc,       \* where the background task of each run is
    events,   \* progress events published so far
    stream,   \* per client: the run it asked for and how far its stream is
    queue,    \* per client: its asyncio.Queue in the broadcaster
    hist,     \* per run: what clients were told and which faults struck
    crashes, faults

disk == <<dir, snap, report>>
vars == <<up, busy, dir, snap, report, job, pc, events, stream, queue, hist, crashes,
          faults>>

Idle == [run |-> NoRun, at |-> "idle", got |-> "none"]

Init ==
    /\ up = TRUE /\ busy = NoRun
    /\ dir = {}
    /\ snap = [r \in Runs |-> "absent"]
    /\ report = [r \in Runs |-> [md |-> "absent", json |-> "absent"]]
    /\ job = [r \in Runs |-> "none"]
    /\ pc = [r \in Runs |-> "none"]
    /\ events = [r \in Runs |-> 0]
    /\ stream = [c \in Clients |-> Idle]
    /\ queue = [c \in Clients |-> <<>>]
    /\ hist = [r \in Runs |-> [acked |-> FALSE, told |-> {}, faulted |-> FALSE]]
    /\ crashes = 0 /\ faults = 0

----------------------------------------------------------------------------
(* Files and the broadcaster. *)

(* persist_job_snapshot, when it does not raise. *)
Persist(r, s) == snap' = [snap EXCEPT ![r] = s]

(* ProgressBroadcaster.publish: to the queues subscribed right now. *)
Publish(r, e) ==
    queue' = [c \in Clients |->
                IF stream[c].run = r /\ stream[c].at = "subscribed"
                THEN Append(queue[c], e) ELSE queue[c]]

(* persisted_status_payload: both report files exist, torn or not, or what  *)
(* the snapshot says; an active or unreadable snapshot is a failed run.     *)
HasReports(r) == report[r].md # "absent" /\ report[r].json # "absent"

PersistedStatus(r) ==
    IF HasReports(r) \/ snap[r] = "completed" THEN "completed" ELSE "failed"

----------------------------------------------------------------------------
(* _enqueue_review_run: reserve the directory under the lock, then create   *)
(* the record, its snapshot and its task and register it.  The registry     *)
(* lock is never held across a suspension, so none of this lets another     *)
(* handler in.                                                              *)
Allocate(r) ==
    /\ up /\ busy = NoRun
    /\ r \notin dir /\ job[r] = "none"
    /\ dir' = dir \cup {r}
    /\ busy' = r
    /\ pc' = [pc EXCEPT ![r] = "allocated"]
    /\ UNCHANGED <<up, snap, report, job, events, stream, queue, hist, crashes, faults>>

Register(r) ==
    /\ busy = r /\ pc[r] = "allocated"
    /\ Persist(r, "queued")
    /\ job' = [job EXCEPT ![r] = "queued"]
    /\ pc' = [pc EXCEPT ![r] = "created"]
    /\ hist' = [hist EXCEPT ![r].acked = TRUE]
    /\ busy' = NoRun
    /\ UNCHANGED <<up, dir, report, events, stream, queue, crashes, faults>>

(* run_job, to its first suspension inside the review graph. *)
Start(r) ==
    /\ up /\ busy = NoRun /\ pc[r] = "created"
    /\ job' = [job EXCEPT ![r] = "running"]
    /\ Persist(r, "running")
    /\ pc' = [pc EXCEPT ![r] = "graph"]
    /\ UNCHANGED <<up, busy, dir, report, events, stream, queue, hist, crashes, faults>>

(* A node of the graph, or finalize_artifacts after the reports, starts or  *)
(* ends: apply_progress_event persists, then the event is published.        *)
Progress(r) ==
    /\ up
    /\ \/ busy = NoRun /\ pc[r] = "graph"
       \/ busy = r /\ pc[r] = "json_done"
    /\ events[r] < MaxProgress
    /\ Persist(r, "running")
    /\ events' = [events EXCEPT ![r] = @ + 1]
    /\ Publish(r, "progress")
    /\ UNCHANGED <<up, busy, dir, report, job, pc, stream, hist, crashes, faults>>

(* The graph ended: run_review writes report.md, then report.json. *)
ReportSteps == <<"graph", "md_open", "md_done", "json_open", "json_done">>

WriteReports(r) ==
    /\ up /\ busy \in {NoRun, r}
    /\ \E i \in 1 .. 4 :
          /\ pc[r] = ReportSteps[i]
          /\ pc' = [pc EXCEPT ![r] = ReportSteps[i + 1]]
          /\ report' = [report EXCEPT ![r] =
                          CASE i = 1 -> [@ EXCEPT !.md = "torn"]
                            [] i = 2 -> [@ EXCEPT !.md = "whole"]
                            [] i = 3 -> [@ EXCEPT !.json = "torn"]
                            [] OTHER -> [@ EXCEPT !.json = "whole"]]
    /\ busy' = r
    /\ UNCHANGED <<up, dir, snap, job, events, stream, queue, hist, crashes, faults>>

(* Mutant: run_job without its except: a graph that raises leaves running. *)
FinishUncaught(r, s) ==
    /\ up /\ busy \in {NoRun, r}
    /\ pc[r] \in {"graph", "json_done"}
    /\ IF pc[r] = "graph" THEN UNCHANGED <<job, snap, queue>>
       ELSE job' = [job EXCEPT ![r] = s] /\ Persist(r, s) /\ Publish(r, s)
    /\ pc' = [pc EXCEPT ![r] = "done"]
    /\ busy' = NoRun
    /\ UNCHANGED <<up, dir, report, events, stream, hist, crashes, faults>>

(* run_job's try, except and finally: the status, its snapshot and the      *)
(* terminal event in one stretch.  Without reports the graph raised; with   *)
(* them the status is the summary's, or failed if the artifacts raised.     *)
Finish(r, s) ==
    /\ up /\ busy \in {NoRun, r}
    /\ \/ pc[r] = "graph" /\ s = "failed"
       \/ pc[r] = "json_done" /\ s \in Terminal
    /\ job' = [job EXCEPT ![r] = s]
    /\ Persist(r, s)
    /\ Publish(r, s)
    /\ hist' = [hist EXCEPT ![r].told =
                  IF \E c \in Clients : stream[c].run = r /\ stream[c].at = "subscribed"
                  THEN @ \cup {s} ELSE @]
    /\ pc' = [pc EXCEPT ![r] = "done"]
    /\ busy' = NoRun
    /\ UNCHANGED <<up, dir, report, events, stream, crashes, faults>>

(* The snapshot write raises.  Before the try it kills the task with the    *)
(* status running; in the finally it skips the publish.                     *)
PersistFails(r) ==
    /\ up /\ faults < MaxFaults
    /\ \/ /\ busy = NoRun /\ pc[r] = "created"
          /\ job' = [job EXCEPT ![r] = "running"]
       \/ /\ busy = r /\ pc[r] = "json_done"
          /\ \E s \in Terminal : job' = [job EXCEPT ![r] = s]
    /\ snap' = [snap EXCEPT ![r] = "torn"]
    /\ pc' = [pc EXCEPT ![r] = "done"]
    /\ busy' = NoRun
    /\ faults' = faults + 1
    /\ hist' = [hist EXCEPT ![r].faulted = TRUE]
    /\ UNCHANGED <<up, dir, report, events, stream, queue, crashes>>

----------------------------------------------------------------------------
(* GET .../progress/stream: the handler looks the job up ... *)
AskStream(c, r) ==
    /\ up /\ busy = NoRun
    /\ stream[c].at = "idle"
    /\ job[r] # "none"
    /\ stream' = [stream EXCEPT ![c] = [run |-> r, at |-> "asked", got |-> "none"]]
    /\ UNCHANGED <<up, busy, dir, snap, report, job, pc, events, queue, hist, crashes,
                   faults>>

(* Mutants: subscribing without a second look at the record, and answering  *)
(* from the files while the record is the authority.                        *)
BeginStreamBlind(c) ==
    /\ up /\ busy = NoRun
    /\ stream[c].at = "asked"
    /\ stream' = [stream EXCEPT ![c].at = "subscribed"]
    /\ UNCHANGED <<up, busy, dir, snap, report, job, pc, events, queue, hist, crashes,
                   faults>>

BeginStreamFromDisk(c) ==
    LET r == stream[c].run IN
    /\ up /\ busy = NoRun
    /\ stream[c].at = "asked"
    /\ IF job[r] \in Active
       THEN /\ stream' = [stream EXCEPT ![c].at = "subscribed"]
            /\ UNCHANGED hist
       ELSE /\ stream' = [stream EXCEPT ![c].at = "ended", ![c].got = PersistedStatus(r)]
            /\ hist' = [hist EXCEPT ![r].told = @ \cup {PersistedStatus(r)}]
    /\ UNCHANGED <<up, busy, dir, snap, report, job, pc, events, queue, crashes, faults>>

(* ... and the generator starts later, reading the same record again: a     *)
(* terminal job is answered at once, else the queue is subscribed in the    *)
(* same stretch.                                                            *)
BeginStream(c) ==
    LET r == stream[c].run IN
    /\ up /\ busy = NoRun
    /\ stream[c].at = "asked"
    /\ IF job[r] \in Active
       THEN /\ stream' = [stream EXCEPT ![c].at = "subscribed"]
            /\ UNCHANGED hist
       ELSE /\ stream' = [stream EXCEPT ![c].at = "ended", ![c].got = job[r]]
            /\ hist' = [hist EXCEPT ![r].told = @ \cup {job[r]}]
    /\ UNCHANGED <<up, busy, dir, snap, report, job, pc, events, queue, crashes, faults>>

(* The stream's generator sends one event; a terminal one ends it. *)
Deliver(c) ==
    /\ up /\ busy = NoRun
    /\ stream[c].at = "subscribed" /\ queue[c] # <<>>
    /\ IF Head(queue[c]) \in Terminal
       THEN /\ stream' = [stream EXCEPT ![c].at = "ended", ![c].got = Head(queue[c])]
            /\ queue' = [queue EXCEPT ![c] = <<>>]
       ELSE /\ queue' = [queue EXCEPT ![c] = Tail(@)]
            /\ UNCHANGED stream
    /\ UNCHANGED <<up, busy, dir, snap, report, job, pc, events, hist, crashes, faults>>

(* The client goes away: the generator's finally unsubscribes. *)
Disconnect(c) ==
    /\ up /\ busy = NoRun
    /\ stream[c].at # "idle"
    /\ stream' = [stream EXCEPT ![c] = Idle]
    /\ queue' = [queue EXCEPT ![c] = <<>>]
    /\ UNCHANGED <<up, busy, dir, snap, report, job, pc, events, hist, crashes, faults>>

----------------------------------------------------------------------------
(* The process dies, or is shut down: memory is lost, the snapshot of an    *)
(* active run may be torn.  A cancelled job persists running, as here.      *)
Crash ==
    /\ up /\ crashes < MaxCrashes
    /\ crashes' = crashes + 1
    /\ up' = FALSE /\ busy' = NoRun
    /\ \E torn \in SUBSET {r \in Runs : snap[r] \in Active \/ pc[r] = "allocated"} :
          snap' = [r \in Runs |-> IF r \in torn THEN "torn" ELSE snap[r]]
    /\ job' = [r \in Runs |-> "none"]
    /\ pc' = [r \in Runs |-> "none"]
    /\ stream' = [c \in Clients |-> Idle]
    /\ queue' = [c \in Clients |-> <<>>]
    /\ UNCHANGED <<dir, report, events, hist, faults>>

(* JobRegistry.recover at startup: every run directory gets a record with   *)
(* its persisted status, which is also written back.                        *)
Recover ==
    /\ ~up
    /\ up' = TRUE
    /\ job' = [r \in Runs |-> IF r \in dir THEN PersistedStatus(r) ELSE "none"]
    /\ snap' = [r \in Runs |-> IF r \in dir THEN PersistedStatus(r) ELSE snap[r]]
    /\ UNCHANGED <<busy, dir, report, pc, events, stream, queue, hist, crashes, faults>>

RunStep(r) ==
    \/ Register(r)
    \/ Start(r)
    \/ Progress(r)
    \/ WriteReports(r)
    \/ \E s \in Terminal : Finish(r, s)

Next ==
    \/ \E r \in Runs : Allocate(r) \/ RunStep(r) \/ PersistFails(r)
    \/ \E c \in Clients, r \in Runs : AskStream(c, r)
    \/ \E c \in Clients : BeginStream(c) \/ Deliver(c) \/ Disconnect(c)
    \/ Crash
    \/ Recover

Spec == Init /\ [][Next]_vars

(* A created task runs, model calls have timeouts so the graph ends, a      *)
(* stream is served while its client stays, and a dead server is restarted. *)
Fairness ==
    /\ \A r \in Runs : WF_vars(RunStep(r))
    /\ \A c \in Clients : WF_vars(BeginStream(c)) /\ WF_vars(Deliver(c))
    /\ WF_vars(Recover)

FairSpec == Spec /\ Fairness

----------------------------------------------------------------------------
TypeOK ==
    /\ up \in BOOLEAN
    /\ busy \in Runs \cup {NoRun}
    /\ dir \subseteq Runs
    /\ snap \in [Runs -> {"absent", "torn"} \cup Active \cup Terminal]
    /\ report \in [Runs -> [md : FileStates, json : FileStates]]
    /\ job \in [Runs -> {"none"} \cup Active \cup Terminal]
    /\ pc \in [Runs -> {"none", "allocated", "created", "graph", "md_open", "md_done",
                        "json_open", "json_done", "done"}]
    /\ events \in [Runs -> Nat]
    /\ stream \in [Clients -> [run : Runs \cup {NoRun},
                               at : {"idle", "asked", "subscribed", "ended"},
                               got : {"none"} \cup Terminal]]
    /\ queue \in [Clients -> Seq({"progress"} \cup Terminal)]
    /\ hist \in [Runs -> [acked : BOOLEAN, told : SUBSET Terminal,
                          faulted : BOOLEAN]]
    /\ crashes \in Nat /\ faults \in Nat

(* A stream ends with the status the record shows: no client is told that a *)
(* run completed which the status endpoint reports as failed.               *)
StreamAgreesWithRecord ==
    \A c \in Clients :
        stream[c].at = "ended" => stream[c].got = job[stream[c].run]

(* Completion is final: across crashes and restarts a run once told         *)
(* completed never shows another status.  (A failed run that has reports is *)
(* shown as completed after a restart; see the README.)                     *)
CompletedIsFinal ==
    \A r \in Runs :
        up /\ "completed" \in hist[r].told => job[r] = "completed"

(* Every stream that is not disconnected ends, unless the server dies or a  *)
(* snapshot write raises in run_job's finally.                              *)
StreamEnds ==
    \A c \in Clients :
        stream[c].at \in {"asked", "subscribed"}
            ~> \/ stream[c].at \in {"ended", "idle"}
               \/ crashes > 0 \/ faults > 0

(* Every accepted run ends up terminal and stays so, crashes included. *)
RunSettles ==
    \A r \in Runs : hist[r].acked ~> [](~up \/ job[r] \in Terminal \/ hist[r].faulted)
============================================================================
