------------------------------ MODULE JobQueue ------------------------------
(***************************************************************************)
(* The local job queue: jobs by key, in memory and in a table, attempted   *)
(* up to a limit and resumed after a restart.                              *)
(*   platform/local.py                                                     *)
(* The table is written in the same step as the memory, before and after   *)
(* the one await, of the job's handler; writing it may fail.               *)
(***************************************************************************)
EXTENDS Naturals, Sequences, SequencesExt

CONSTANTS Jobs, MaxAttempts,
          MaxRestarts           \* bound on the restarts of the process

ASSUME JobQueueAssumption ==
    /\ IsFiniteSet(Jobs) /\ {"nothing", "recover"} \cap Jobs = {}
    /\ MaxAttempts \in Nat \ {0} /\ MaxRestarts \in Nat

VARIABLES
    jobs,        \* _jobs, the memory
    stored,      \* the rows of platform_job
    live,        \* how many calls of the job's handler are awaited
    recovery,    \* the jobs recover has yet to look at, and the one it awaits
    restarts,
    failures,    \* history: the failures that were recorded
    overtaken    \* history: the jobs enqueued while a recovery was under way

jobQueueVars == <<jobs, stored, live, recovery, restarts, failures, overtaken>>

NoJob == [status |-> "none", attempts |-> 0]
NoRecovery == [todo |-> <<>>, awaits |-> "nothing"]
Loaded == [todo |-> <<>>, awaits |-> "recover"]      \* a process that has just begun
Recovering == recovery \notin {NoRecovery, Loaded}

JobQueueInit ==
    /\ jobs = [k \in Jobs |-> NoJob] /\ stored = jobs
    /\ live = [k \in Jobs |-> 0]
    /\ recovery = NoRecovery
    /\ restarts = 0 /\ failures = [k \in Jobs |-> 0] /\ overtaken = {}

(* _persist; where it may raise instead, "stored" stays *)
Persist(k, record) == stored' = [stored EXCEPT ![k] = record]

----------------------------------------------------------------------------
(* enqueue: a job that is completed, running or out of attempts stays.     *)
AlwaysStarts(k) == jobs[k].status # "completed"        \* Mutant: running is no obstacle
Startable(k) ==
    /\ jobs[k].status \notin {"completed", "running"}
    /\ ~(jobs[k].status = "failed" /\ jobs[k].attempts >= MaxAttempts)

Running(record) == [status |-> "running", attempts |-> record.attempts + 1]

Enqueue(k) ==
    /\ Startable(k)
    /\ jobs' = [jobs EXCEPT ![k] = Running(@)]
    /\ \/ /\ Persist(k, Running(jobs[k]))
          /\ live' = [live EXCEPT ![k] = @ + 1]
       \/ UNCHANGED <<stored, live>>            \* the handler is never called
    /\ overtaken' = IF Recovering THEN overtaken \cup {k} ELSE overtaken
    /\ recovery' = IF Recovering THEN recovery ELSE NoRecovery
    /\ UNCHANGED <<restarts, failures>>

(* A call of the handler returns or raises. *)
Finish(k) ==
    /\ live[k] > 0
    /\ live' = [live EXCEPT ![k] = @ - 1]
    /\ \E status \in {"completed", "failed"} :
          LET record == [jobs[k] EXCEPT !.status = status]
          IN  /\ jobs' = [jobs EXCEPT ![k] = record]
              /\ \/ /\ Persist(k, record)
                    /\ failures' = IF status = "failed" THEN [failures EXCEPT ![k] = @ + 1]
                                                        ELSE failures
                    /\ recovery' = IF recovery.awaits = k THEN [recovery EXCEPT !.awaits = "nothing"]
                                                          ELSE recovery
                 \/ /\ UNCHANGED <<stored, failures>>
                    /\ recovery' = IF recovery.awaits = k THEN NoRecovery ELSE recovery
    /\ UNCHANGED <<restarts, overtaken>>

----------------------------------------------------------------------------
(* recover, called once after a restart, before anything else: the jobs in *)
(* the order of the table, each awaited before the next.                   *)
BeginRecovery ==
    /\ recovery = Loaded
    /\ \E order \in SetToSeqs({k \in Jobs : jobs[k] # NoJob}) :
          recovery' = [todo |-> order, awaits |-> "nothing"]
    /\ UNCHANGED <<jobs, stored, live, restarts, failures, overtaken>>

Pass(k) ==                                       \* nothing to resume
    /\ jobs[k].status \in {"completed", "failed"}
    /\ UNCHANGED <<jobs, stored, live>>
    /\ recovery' = [recovery EXCEPT !.todo = Tail(@)]

WithoutHandler(k) ==
    /\ jobs[k].status = "running"
    /\ jobs' = [jobs EXCEPT ![k].status = "failed"]
    /\ UNCHANGED live
    /\ \/ /\ Persist(k, [jobs[k] EXCEPT !.status = "failed"])
          /\ recovery' = [recovery EXCEPT !.todo = Tail(@)]
       \/ UNCHANGED stored /\ recovery' = NoRecovery

(* The interrupted attempt is taken back and made again. *)
Resume(k) ==
    /\ jobs[k].status = "running"
    /\ Persist(k, jobs[k])
    /\ live' = [live EXCEPT ![k] = @ + 1]
    /\ recovery' = [todo |-> Tail(recovery.todo), awaits |-> k]
    /\ UNCHANGED jobs

(* The table fails, or the process ends, before or after the attempt that  *)
(* was taken back is written: after it, no later recovery resumes the job. *)
TakenBack(record) == [status |-> "failed", attempts |-> record.attempts - 1]

ResumeCutShort(k) ==
    /\ jobs[k].status = "running"
    /\ \/ UNCHANGED stored /\ jobs' = [jobs EXCEPT ![k] = TakenBack(@)]
       \/ Persist(k, TakenBack(jobs[k])) /\ UNCHANGED jobs
    /\ recovery' = NoRecovery
    /\ UNCHANGED live

RecoverNext ==
    /\ recovery.awaits = "nothing" /\ recovery.todo # <<>>
    /\ LET k == Head(recovery.todo)
       IN  Pass(k) \/ WithoutHandler(k) \/ Resume(k) \/ ResumeCutShort(k)
    /\ UNCHANGED <<restarts, failures, overtaken>>

(* _load_into_memory of the next process *)
RestartQueue ==
    /\ restarts < MaxRestarts
    /\ restarts' = restarts + 1
    /\ jobs' = stored
    /\ live' = [k \in Jobs |-> 0]
    /\ recovery' = Loaded
    /\ UNCHANGED <<stored, failures, overtaken>>

JobQueueNext ==
    \/ \E k \in Jobs : Enqueue(k) \/ Finish(k)
    \/ BeginRecovery \/ RecoverNext \/ RestartQueue

----------------------------------------------------------------------------
(* A job has one call of its handler at a time, none after its completion  *)
(* was recorded, and no more recorded failures than attempts, whatever     *)
(* restarts come in between: enqueue is idempotent and recovery repeats    *)
(* only what was cut off.  Not so for a job enqueued while a recovery is   *)
(* still working through its list, which takes it for an interrupted one.  *)
JobsRunOnce ==
    \A k \in Jobs \ overtaken :
        /\ live[k] <= 1
        /\ stored[k].status = "completed" => live[k] = 0
        /\ failures[k] <= MaxAttempts
=============================================================================
