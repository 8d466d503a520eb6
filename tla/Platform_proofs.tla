--------------------------- MODULE Platform_proofs ---------------------------
(***************************************************************************)
(* Proofs about what works around the reviews: the components of Platform, *)
(* and the project space a review is asked for in.  Components have no     *)
(* variable in common, so each has an inductive invariant of its own: a    *)
(* step of another one leaves all its variables alone, and the theorem     *)
(* about it follows from its own steps only.                               *)
(***************************************************************************)
EXTENDS Platform, ProjectSpace, FiniteSetTheorems, SequenceTheorems, WellFoundedInduction,
        TLAPS

platformVars == <<notificationsVars, handoffVars, rerunVars,
                  jobQueueVars, reviewMemoryVars, longTermVars>>

(* A step of Platform is a step of one component; every other component     *)
(* keeps its variables.                                                     *)
LEMMA OneComponentSteps ==
  ASSUME [Next]_platformVars
  PROVE  /\ NotificationsNext \/ UNCHANGED notificationsVars
         /\ HandoffNext \/ UNCHANGED handoffVars
         /\ RerunNext \/ UNCHANGED rerunVars
         /\ JobQueueNext \/ UNCHANGED jobQueueVars
         /\ ReviewMemoryNext \/ UNCHANGED reviewMemoryVars
         /\ LongTermNext \/ UNCHANGED longTermVars
<1>1. CASE Next
  BY <1>1 DEF Next, NotificationsStep, HandoffStep, RerunStep, JobQueueStep,
              ReviewMemoryStep, LongTermStep
<1>2. CASE UNCHANGED platformVars
  BY <1>2 DEF platformVars
<1> QED BY <1>1, <1>2

----------------------------------------------------------------------------
(* The job queue. *)

Statuses == {"none", "running", "completed", "failed"}
JobRecord == [status : Statuses, attempts : Nat]

JobQueueTypeOK ==
    /\ jobs \in [Jobs -> JobRecord]
    /\ stored \in [Jobs -> JobRecord]
    /\ live \in [Jobs -> Nat]
    /\ failures \in [Jobs -> Nat]
    /\ recovery \in [todo : Seq(Jobs), awaits : Jobs \cup {"nothing", "recover"}]

(* The attempts of a record that are known to have failed at most: the one  *)
(* under way, or completed, is none of them.                                *)
Spent(record) ==
    IF record.status \in {"running", "completed"} THEN record.attempts - 1 ELSE record.attempts

(* A record counts its attempts within the limit. *)
Counted(record) ==
    /\ record.attempts <= MaxAttempts
    /\ record.status = "none" => record.attempts = 0
    /\ record.status = "running" => record.attempts >= 1

(* A job that no recovery was overtaken by: a call of its handler has the   *)
(* memory and the table say that it runs, and while a recovery works        *)
(* through its list the only call is the one it awaits.                     *)
Regular(k) ==
    /\ live[k] <= 1
    /\ live[k] = 1 => jobs[k].status = "running" /\ stored[k] = jobs[k]
    /\ live[k] = 1 /\ Recovering => recovery.awaits = k
    /\ failures[k] <= Spent(jobs[k]) /\ failures[k] <= Spent(stored[k])

JobQueueInv ==
    /\ JobQueueTypeOK
    /\ \A k \in Jobs : Counted(jobs[k]) /\ Counted(stored[k])
    /\ recovery = Loaded => \A k \in Jobs : live[k] = 0
    /\ \A k \in Jobs \ overtaken : Regular(k)

(* Of the jobs in the queue, the order a recovery takes is a sequence.      *)
LEMMA OrdersAreSequences ==
  ASSUME NEW S \in SUBSET Jobs, NEW order \in SetToSeqs(S)
  PROVE  order \in Seq(Jobs)
<1>1. IsFiniteSet(S)
  BY JobQueueAssumption, FS_Subset
<1>2. Cardinality(S) \in Nat
  BY <1>1, FS_CardinalityType
<1>3. order \in [1 .. Cardinality(S) -> S]
  BY DEF SetToSeqs
<1> QED BY <1>2, <1>3, SeqDef

(* Enqueuing a job keeps the invariant: it starts only what is not running, *)
(* completed or out of attempts.                                            *)
LEMMA EnqueueKeepsInv ==
  ASSUME JobQueueInv, NEW k \in Jobs, Enqueue(k)
  PROVE  JobQueueInv'
<1> DEFINE new == Running(jobs[k])
<1>1. /\ jobs[k] \in JobRecord /\ jobs[k].attempts < MaxAttempts
      /\ jobs[k].status \in {"none", "failed"}
  <2>1. jobs[k] \in JobRecord /\ Counted(jobs[k])
    BY DEF JobQueueInv, JobQueueTypeOK
  <2>2. /\ jobs[k].status \notin {"completed", "running"}
        /\ ~(jobs[k].status = "failed" /\ jobs[k].attempts >= MaxAttempts)
    BY DEF Enqueue, Startable
  <2> QED BY <2>1, <2>2, JobQueueAssumption DEF JobRecord, Statuses, Counted
<1>2. /\ new \in JobRecord /\ Counted(new) /\ new.status = "running"
      /\ new.attempts = jobs[k].attempts + 1
  BY <1>1, JobQueueAssumption DEF Running, JobRecord, Statuses, Counted
<1>3. /\ jobs' = [jobs EXCEPT ![k] = new]
      /\ \/ stored' = [stored EXCEPT ![k] = new] /\ live' = [live EXCEPT ![k] = @ + 1]
         \/ stored' = stored /\ live' = live
      /\ overtaken' = IF Recovering THEN overtaken \cup {k} ELSE overtaken
      /\ recovery' = IF Recovering THEN recovery ELSE NoRecovery
      /\ failures' = failures
  BY DEF Enqueue, Persist
<1> HIDE DEF new
<1>4. JobQueueTypeOK'
  <2>1. NoRecovery \in [todo : Seq(Jobs), awaits : Jobs \cup {"nothing", "recover"}]
    BY DEF NoRecovery
  <2>2. recovery' \in [todo : Seq(Jobs), awaits : Jobs \cup {"nothing", "recover"}]
    BY <1>3, <2>1 DEF JobQueueInv, JobQueueTypeOK
  <2>3. jobs' \in [Jobs -> JobRecord] /\ stored' \in [Jobs -> JobRecord]
    BY <1>2, <1>3 DEF JobQueueInv, JobQueueTypeOK
  <2>4. live' \in [Jobs -> Nat] /\ failures' \in [Jobs -> Nat]
    <3>1. live \in [Jobs -> Nat] /\ failures \in [Jobs -> Nat]
      BY DEF JobQueueInv, JobQueueTypeOK
    <3>2. live' \in {live, [live EXCEPT ![k] = @ + 1]} /\ failures' = failures
      BY <1>3
    <3> QED BY <3>1, <3>2
  <2> QED BY <2>2, <2>3, <2>4 DEF JobQueueTypeOK
<1>5. \A j \in Jobs : Counted(jobs[j])' /\ Counted(stored[j])'
  <2>1. ASSUME NEW j \in Jobs
        PROVE  jobs'[j] \in {jobs[j], new} /\ stored'[j] \in {stored[j], new}
    BY <1>3 DEF JobQueueInv, JobQueueTypeOK
  <2> QED BY <1>2, <2>1 DEF JobQueueInv, Counted
<1>6. recovery' # Loaded
  BY <1>3 DEF Recovering, NoRecovery, Loaded
<1>7. ASSUME NEW j \in Jobs \ overtaken'
      PROVE  Regular(j)'
  <2>1. j \in Jobs \ overtaken /\ Regular(j)
    BY <1>3, <1>7 DEF JobQueueInv
  <2>2. Recovering' <=> Recovering
    BY <1>3 DEF Recovering
  <2>3. CASE j # k
    BY <1>3, <2>1, <2>2, <2>3 DEF Regular, Spent, JobQueueInv, JobQueueTypeOK
  <2>4. CASE j = k
    <3>1. ~Recovering
      BY <1>3, <1>7, <2>4
    <3>2. live[k] = 0
      BY <1>1, <2>1, <2>4 DEF Regular, JobQueueInv, JobQueueTypeOK
    <3>3. jobs'[k] = new /\ failures[k] <= Spent(new)
      BY <1>1, <1>2, <1>3, <2>1, <2>4 DEF Regular, Spent, JobQueueInv, JobQueueTypeOK, JobRecord
    <3>4. \/ stored'[k] = new /\ live'[k] = 1
          \/ stored'[k] = stored[k] /\ live'[k] = 0
      BY <1>3, <3>2 DEF JobQueueInv, JobQueueTypeOK
    <3> QED BY <1>2, <1>3, <2>1, <2>2, <2>4, <3>1, <3>3, <3>4 DEF Regular
  <2> QED BY <2>3, <2>4
<1> QED BY <1>4, <1>5, <1>6, <1>7 DEF JobQueueInv

(* The end of a call keeps the invariant, whether or not it is recorded. *)
LEMMA FinishKeepsInv ==
  ASSUME JobQueueInv, NEW k \in Jobs, Finish(k)
  PROVE  JobQueueInv'
<1>1. PICK status \in {"completed", "failed"} :
        LET record == [jobs[k] EXCEPT !.status = status]
        IN  /\ jobs' = [jobs EXCEPT ![k] = record]
            /\ \/ /\ Persist(k, record)
                  /\ failures' = IF status = "failed" THEN [failures EXCEPT ![k] = @ + 1]
                                                      ELSE failures
                  /\ recovery' = IF recovery.awaits = k THEN [recovery EXCEPT !.awaits = "nothing"]
                                                        ELSE recovery
               \/ /\ UNCHANGED <<stored, failures>>
                  /\ recovery' = IF recovery.awaits = k THEN NoRecovery ELSE recovery
  BY DEF Finish
<1> DEFINE new == [jobs[k] EXCEPT !.status = status]
<1>2. /\ jobs' = [jobs EXCEPT ![k] = new]
      /\ \/ /\ stored' = [stored EXCEPT ![k] = new]
            /\ \/ status = "failed" /\ failures' = [failures EXCEPT ![k] = @ + 1]
               \/ failures' = failures
         \/ stored' = stored /\ failures' = failures
      /\ live[k] > 0 /\ live' = [live EXCEPT ![k] = @ - 1] /\ overtaken' = overtaken
  BY <1>1 DEF Finish, Persist
<1>3. /\ jobs[k] \in JobRecord /\ Counted(jobs[k])
      /\ new \in JobRecord /\ new.status = status /\ new.attempts = jobs[k].attempts
      /\ Counted(new)
  BY DEF JobQueueInv, JobQueueTypeOK, JobRecord, Statuses, Counted
<1>4. /\ recovery' \in [todo : Seq(Jobs), awaits : Jobs \cup {"nothing", "recover"}]
      /\ recovery' # Loaded
      /\ Recovering' => Recovering
      /\ \A j \in Jobs : recovery.awaits = j /\ Recovering' => j = k \/ recovery'.awaits = j
  <2>1. recovery' \in {recovery, NoRecovery, [recovery EXCEPT !.awaits = "nothing"]}
    BY <1>1
  <2>2. recovery' # recovery => recovery.awaits = k
    BY <1>1
  <2>3. recovery # Loaded
    BY <1>2 DEF JobQueueInv, JobQueueTypeOK
  <2>4. k \notin {"nothing", "recover"}
    BY JobQueueAssumption
  <2>5. /\ recovery \in [todo : Seq(Jobs), awaits : Jobs \cup {"nothing", "recover"}]
        /\ NoRecovery \in [todo : Seq(Jobs), awaits : Jobs \cup {"nothing", "recover"}]
        /\ [recovery EXCEPT !.awaits = "nothing"]
              \in [todo : Seq(Jobs), awaits : Jobs \cup {"nothing", "recover"}]
    <3>1. recovery \in [todo : Seq(Jobs), awaits : Jobs \cup {"nothing", "recover"}]
      BY DEF JobQueueInv, JobQueueTypeOK
    <3>2. NoRecovery \in [todo : Seq(Jobs), awaits : Jobs \cup {"nothing", "recover"}]
      BY DEF NoRecovery
    <3> QED BY <3>1, <3>2
  <2>6. /\ NoRecovery # Loaded
        /\ [recovery EXCEPT !.awaits = "nothing"].awaits = "nothing"
        /\ Loaded.awaits = "recover"
    BY <2>5 DEF NoRecovery, Loaded
  <2>7. recovery' # Loaded
    BY <2>1, <2>3, <2>6
  <2>8. CASE recovery' = recovery
    BY <2>5, <2>7, <2>8 DEF Recovering
  <2>9. CASE recovery' # recovery
    <3>1. Recovering' => Recovering
      <4>1. recovery # NoRecovery
        BY <2>2, <2>4, <2>9 DEF NoRecovery
      <4> QED BY <2>3, <4>1 DEF Recovering
    <3>2. \A j \in Jobs : recovery.awaits = j => j = k
      BY <2>2, <2>9
    <3> QED BY <2>1, <2>5, <2>7, <3>1, <3>2
  <2> QED BY <2>8, <2>9
<1> HIDE DEF new
<1>5. JobQueueTypeOK'
  <2>1. jobs' \in [Jobs -> JobRecord] /\ stored' \in [Jobs -> JobRecord]
    BY <1>2, <1>3 DEF JobQueueInv, JobQueueTypeOK
  <2>2. live' \in [Jobs -> Nat] /\ failures' \in [Jobs -> Nat]
    <3>1. live \in [Jobs -> Nat] /\ failures \in [Jobs -> Nat]
      BY DEF JobQueueInv, JobQueueTypeOK
    <3>2. /\ live[k] > 0 /\ live' = [live EXCEPT ![k] = @ - 1]
          /\ failures' \in {failures, [failures EXCEPT ![k] = @ + 1]}
      BY <1>2
    <3>3. live[k] - 1 \in Nat /\ failures[k] + 1 \in Nat
      BY <3>1, <3>2
    <3> QED BY <3>1, <3>2, <3>3
  <2> QED BY <1>4, <2>1, <2>2 DEF JobQueueTypeOK
<1>6. \A j \in Jobs : Counted(jobs[j])' /\ Counted(stored[j])'
  <2>1. ASSUME NEW j \in Jobs
        PROVE  jobs'[j] \in {jobs[j], new} /\ stored'[j] \in {stored[j], new}
    BY <1>2 DEF JobQueueInv, JobQueueTypeOK
  <2> QED BY <1>3, <2>1 DEF JobQueueInv, Counted
<1>7. ASSUME NEW j \in Jobs \ overtaken'
      PROVE  Regular(j)'
  <2>1. j \in Jobs \ overtaken /\ Regular(j)
    BY <1>2, <1>7 DEF JobQueueInv
  <2>2. CASE j # k
    BY <1>2, <1>4, <2>1, <2>2 DEF Regular, Spent, JobQueueInv, JobQueueTypeOK
  <2>3. CASE j = k
    <3>1. /\ live[k] = 1 /\ live'[k] = 0 /\ jobs[k].status = "running"
          /\ failures[k] <= jobs[k].attempts - 1
      BY <1>2, <2>1, <2>3 DEF Regular, Spent, JobQueueInv, JobQueueTypeOK
    <3>2. jobs'[k] = new /\ failures[k] <= Spent(new)
      BY <1>2, <1>3, <3>1 DEF Spent, JobQueueInv, JobQueueTypeOK, JobRecord
    <3>3. status = "failed" => failures[k] + 1 <= Spent(new)
      BY <1>3, <3>1 DEF Spent, JobQueueInv, JobQueueTypeOK, JobRecord
    <3>4. \/ stored'[k] = new /\ failures'[k] <= Spent(new)
          \/ stored'[k] = stored[k] /\ failures'[k] = failures[k]
      BY <1>2, <3>2, <3>3 DEF JobQueueInv, JobQueueTypeOK
    <3>5. failures'[k] <= Spent(new)
      BY <1>2, <3>2, <3>3 DEF JobQueueInv, JobQueueTypeOK
    <3> QED BY <2>1, <2>3, <3>1, <3>2, <3>4, <3>5 DEF Regular
  <2> QED BY <2>2, <2>3
<1> QED BY <1>4, <1>5, <1>6, <1>7 DEF JobQueueInv

(* A recovery starts after a restart, when no call is under way. *)
LEMMA BeginRecoveryKeepsInv ==
  ASSUME JobQueueInv, BeginRecovery
  PROVE  JobQueueInv'
<1>1. /\ recovery = Loaded /\ jobs' = jobs /\ stored' = stored /\ live' = live
      /\ failures' = failures /\ overtaken' = overtaken
  BY DEF BeginRecovery
<1>2. PICK order \in SetToSeqs({k \in Jobs : jobs[k] # NoJob}) :
        recovery' = [todo |-> order, awaits |-> "nothing"]
  BY DEF BeginRecovery
<1>3. order \in Seq(Jobs)
  BY <1>2, OrdersAreSequences
<1>4. JobQueueTypeOK' /\ recovery' # Loaded
  BY <1>1, <1>2, <1>3 DEF JobQueueInv, JobQueueTypeOK, Loaded
<1>5. \A k \in Jobs : live[k] = 0
  BY <1>1 DEF JobQueueInv
<1>6. \A k \in Jobs \ overtaken' : Regular(k)'
  BY <1>1, <1>5 DEF JobQueueInv, Regular, Spent
<1>7. \A k \in Jobs : Counted(jobs[k])' /\ Counted(stored[k])'
  BY <1>1 DEF JobQueueInv, Counted
<1> QED BY <1>4, <1>6, <1>7 DEF JobQueueInv

(* One job of a recovery's list: passed over, given up, or attempted again. *)
LEMMA RecoverNextKeepsInv ==
  ASSUME JobQueueInv, RecoverNext
  PROVE  JobQueueInv'
<1> DEFINE k == Head(recovery.todo)
<1>1. /\ recovery.awaits = "nothing" /\ recovery.todo # <<>>
      /\ Pass(k) \/ WithoutHandler(k) \/ Resume(k) \/ ResumeCutShort(k)
      /\ failures' = failures /\ overtaken' = overtaken
  BY DEF RecoverNext
<1>2. /\ recovery.todo \in Seq(Jobs) /\ k \in Jobs /\ Tail(recovery.todo) \in Seq(Jobs)
  BY <1>1 DEF JobQueueInv, JobQueueTypeOK
<1>3. Recovering
  BY <1>1 DEF Recovering, NoRecovery, Loaded
<1> HIDE DEF k
<1>4. \A j \in Jobs \ overtaken : live[j] = 0
  <2>1. "nothing" \notin Jobs
    BY JobQueueAssumption
  <2> QED BY <1>1, <1>3, <2>1 DEF JobQueueInv, JobQueueTypeOK, Regular
<1> DEFINE failed == [jobs[k] EXCEPT !.status = "failed"]
           back == TakenBack(jobs[k])
<1>5. /\ jobs[k] \in JobRecord /\ Counted(jobs[k])
      /\ jobs[k].status = "running" =>
            /\ failed \in JobRecord /\ back \in JobRecord
            /\ Counted(failed) /\ Counted(back)
            /\ Spent(failed) >= Spent(jobs[k]) /\ Spent(back) = Spent(jobs[k])
  <2>1. jobs[k] \in JobRecord /\ Counted(jobs[k])
    BY <1>2 DEF JobQueueInv, JobQueueTypeOK
  <2>2. ASSUME jobs[k].status = "running"
        PROVE  /\ failed \in JobRecord /\ failed.status = "failed"
               /\ failed.attempts = jobs[k].attempts
               /\ back \in JobRecord /\ back.status = "failed"
               /\ back.attempts = jobs[k].attempts - 1
    <3>1. jobs[k].attempts - 1 \in Nat
      BY <2>1, <2>2 DEF Counted, JobRecord
    <3> QED BY <2>1, <3>1 DEF TakenBack, JobRecord, Statuses
  <2> HIDE DEF failed, back
  <2> QED BY <2>1, <2>2, JobQueueAssumption DEF Counted, Spent, JobRecord
<1>6. /\ \/ jobs' = jobs
         \/ jobs[k].status = "running" /\ jobs' = [jobs EXCEPT ![k] = failed]
         \/ jobs[k].status = "running" /\ jobs' = [jobs EXCEPT ![k] = back]
      /\ \/ stored' = stored
         \/ jobs[k].status = "running" /\ stored' = [stored EXCEPT ![k] = failed]
         \/ jobs[k].status = "running" /\ stored' = [stored EXCEPT ![k] = back]
         \/ stored' = [stored EXCEPT ![k] = jobs[k]]
      /\ \/ live' = live
         \/ /\ jobs[k].status = "running" /\ live' = [live EXCEPT ![k] = @ + 1]
            /\ jobs' = jobs /\ stored' = [stored EXCEPT ![k] = jobs[k]]
            /\ recovery' = [todo |-> Tail(recovery.todo), awaits |-> k]
      /\ \/ recovery' = [recovery EXCEPT !.todo = Tail(@)]
         \/ recovery' = [todo |-> Tail(recovery.todo), awaits |-> k]
         \/ recovery' = NoRecovery
  BY <1>1 DEF Pass, WithoutHandler, Resume, ResumeCutShort, Persist
<1> HIDE DEF failed, back
<1>7. /\ recovery' \in [todo : Seq(Jobs), awaits : Jobs \cup {"nothing", "recover"}]
      /\ recovery' # Loaded
  <2>1. k # "recover"
    BY <1>2, JobQueueAssumption
  <2>2. recovery \in [todo : Seq(Jobs), awaits : Jobs \cup {"nothing", "recover"}]
    BY DEF JobQueueInv, JobQueueTypeOK
  <2>3. /\ recovery' \in [todo : Seq(Jobs), awaits : Jobs \cup {"nothing", "recover"}]
        /\ recovery'.awaits \in {"nothing", k}
    <3>1. CASE recovery' = [recovery EXCEPT !.todo = Tail(@)]
      BY <1>1, <1>2, <2>2, <3>1
    <3>2. CASE recovery' = [todo |-> Tail(recovery.todo), awaits |-> k]
      BY <1>2, <3>2
    <3>3. CASE recovery' = NoRecovery
      BY <3>3 DEF NoRecovery
    <3> QED BY <1>6, <3>1, <3>2, <3>3
  <2> QED BY <2>1, <2>3 DEF Loaded
<1>8. /\ \A j \in Jobs : j # k => /\ jobs'[j] = jobs[j] /\ stored'[j] = stored[j]
                                   /\ live'[j] = live[j]
      /\ \/ jobs'[k] = jobs[k]
         \/ jobs[k].status = "running" /\ jobs'[k] \in {failed, back}
      /\ \/ stored'[k] \in {stored[k], jobs[k]}
         \/ jobs[k].status = "running" /\ stored'[k] \in {failed, back}
      /\ \/ live'[k] = live[k]
         \/ /\ jobs[k].status = "running" /\ live'[k] = live[k] + 1
            /\ jobs'[k] = jobs[k] /\ stored'[k] = jobs[k] /\ recovery'.awaits = k
  BY <1>2, <1>6 DEF JobQueueInv, JobQueueTypeOK
<1>9. JobQueueTypeOK'
  <2>1. jobs' \in [Jobs -> JobRecord] /\ stored' \in [Jobs -> JobRecord]
    BY <1>5, <1>6 DEF JobQueueInv, JobQueueTypeOK
  <2>2. live' \in [Jobs -> Nat] /\ failures' \in [Jobs -> Nat]
    BY <1>1, <1>6 DEF JobQueueInv, JobQueueTypeOK
  <2> QED BY <1>7, <2>1, <2>2 DEF JobQueueTypeOK
<1>10. \A j \in Jobs : Counted(jobs[j])' /\ Counted(stored[j])'
  BY <1>5, <1>8 DEF JobQueueInv, Counted
<1>11. ASSUME NEW j \in Jobs \ overtaken'
       PROVE  Regular(j)'
  <2>1. j \in Jobs \ overtaken /\ Regular(j) /\ live[j] = 0
    BY <1>1, <1>4, <1>11 DEF JobQueueInv
  <2>2. CASE j # k
    BY <1>1, <1>8, <2>1, <2>2 DEF Regular, Spent
  <2>3. CASE j = k
    <3>1. /\ failures'[k] = failures[k] /\ failures[k] \in Nat
          /\ failures[k] <= Spent(jobs[k]) /\ failures[k] <= Spent(stored[k])
      BY <1>1, <1>2, <2>1, <2>3 DEF Regular, JobQueueInv, JobQueueTypeOK
    <3>2. jobs[k].status = "running" => /\ failures[k] <= Spent(failed)
                                        /\ failures[k] <= Spent(back)
      BY <1>5, <3>1 DEF Spent, JobRecord
    <3>3. failures'[k] <= Spent(jobs'[k]) /\ failures'[k] <= Spent(stored'[k])
      BY <1>8, <3>1, <3>2
    <3> QED BY <1>8, <2>1, <2>3, <3>3 DEF Regular
  <2> QED BY <2>2, <2>3
<1> QED BY <1>7, <1>9, <1>10, <1>11 DEF JobQueueInv

(* Every step of the queue keeps the invariant. *)
LEMMA JobQueueInvNext ==
  ASSUME JobQueueInv, JobQueueNext \/ UNCHANGED jobQueueVars
  PROVE  JobQueueInv'
<1>1. CASE RestartQueue
  <2>1. /\ jobs' = stored /\ stored' = stored /\ live' = [k \in Jobs |-> 0]
        /\ recovery' = Loaded /\ failures' = failures /\ overtaken' = overtaken
    BY <1>1 DEF RestartQueue
  <2>2. JobQueueTypeOK'
    BY <2>1 DEF JobQueueInv, JobQueueTypeOK, Loaded
  <2>3. \A k \in Jobs : live'[k] = 0 /\ Counted(jobs[k])' /\ Counted(stored[k])'
    BY <2>1 DEF JobQueueInv, Counted
  <2>4. \A k \in Jobs \ overtaken' : Regular(k)'
    BY <2>1 DEF JobQueueInv, Regular, Spent
  <2> QED BY <2>2, <2>3, <2>4 DEF JobQueueInv
<1>2. CASE UNCHANGED jobQueueVars
  BY <1>2 DEF jobQueueVars, JobQueueInv, JobQueueTypeOK, Counted, Regular, Spent, Recovering
<1> QED BY <1>1, <1>2, EnqueueKeepsInv, FinishKeepsInv, BeginRecoveryKeepsInv,
           RecoverNextKeepsInv DEF JobQueueNext

(* A job's handler is called once at a time, never after its completion was *)
(* recorded and not beyond the attempts it has, through every order of      *)
(* failures, restarts and cut-off recoveries of platform/local.py.          *)
THEOREM QueueRunsJobsOnce == Spec => []JobsRunOnce
<1>1. Init => JobQueueInv
  BY JobQueueAssumption
     DEF Init, JobQueueInit, JobQueueInv, JobQueueTypeOK, JobRecord, Statuses, NoJob,
         NoRecovery, Loaded, Recovering, Counted, Regular, Spent
<1>2. JobQueueInv /\ [Next]_platformVars => JobQueueInv'
  BY OneComponentSteps, JobQueueInvNext
<1>3. JobQueueInv => JobsRunOnce
  <2> SUFFICES ASSUME JobQueueInv, NEW k \in Jobs \ overtaken
               PROVE  /\ live[k] <= 1
                      /\ stored[k].status = "completed" => live[k] = 0
                      /\ failures[k] <= MaxAttempts
    BY DEF JobsRunOnce
  <2>1. Regular(k) /\ Counted(stored[k]) /\ stored[k] \in JobRecord /\ live[k] \in Nat
    BY DEF JobQueueInv, JobQueueTypeOK
  <2>2. failures[k] \in Nat
    BY DEF JobQueueInv, JobQueueTypeOK
  <2> QED BY <2>1, <2>2, JobQueueAssumption DEF Regular, Counted, Spent, JobRecord
<1> QED BY <1>1, <1>2, <1>3, PTL DEF Spec, platformVars

----------------------------------------------------------------------------
(* The file of past review cases. *)

CasesFile == [text : {"none", "whole", "torn"}, records : SUBSET (Reviews \cup Seeds),
              imported : SUBSET Seeds]
Holding == [step : {"loaded", "writing"}, task : {"retrieve", "import", "store"},
            review : Reviews, payload : CasesFile]
Between == [step : {"imported"}, review : Reviews]

ReviewMemoryTypeOK ==
    /\ casesFile \in CasesFile
    /\ teller \in [MemoryProcesses -> {AtDesk} \cup Holding \cup Between]
    /\ reviewOf \in [Reviews -> MemoryProcesses \cup {"waiting", "ended", "failed"}]
    /\ remembered \in SUBSET Reviews
    /\ disturbed \in BOOLEAN

Known == remembered \cup Seeds
Busy(p) == teller[p].step \in {"loaded", "writing"}

(* As long as no two processes met at the file: one at most is at it, the   *)
(* file is torn only while that one writes it, and what it is about to      *)
(* write has all that is known.                                             *)
Undisturbed ==
    /\ \A p, q \in MemoryProcesses : teller[p] # AtDesk /\ teller[q] # AtDesk => p = q
    /\ casesFile.text = "none" => remembered = {}
    /\ casesFile.text = "whole" => Known \subseteq casesFile.records
    /\ casesFile.text = "torn" => \E p \in MemoryProcesses : teller[p].step = "writing"
    /\ \A p \in MemoryProcesses :
          /\ teller[p].step = "imported" => casesFile.text = "whole"
          /\ Busy(p) => Known \subseteq teller[p].payload.records
          /\ Busy(p) /\ teller[p].task = "store" =>
                teller[p].review \in teller[p].payload.records

ReviewMemoryInv ==
    /\ ReviewMemoryTypeOK
    /\ \A p \in MemoryProcesses : Busy(p) => teller[p].payload.text = "whole"
    /\ ~disturbed => Undisturbed

(* What a process can find at the file. *)
LEMMA TellerCases ==
  ASSUME ReviewMemoryInv, NEW p \in MemoryProcesses
  PROVE  /\ teller[p] \in {AtDesk} \cup Holding \cup Between
         /\ teller[p] = AtDesk <=> teller[p].step = "idle"
         /\ teller[p] \in Holding <=> Busy(p)
         /\ teller[p] \in Between <=> teller[p].step = "imported"
<1>1. teller[p] \in {AtDesk} \cup Holding \cup Between
  BY DEF ReviewMemoryInv, ReviewMemoryTypeOK
<1>2. CASE teller[p] = AtDesk
  BY <1>2 DEF AtDesk, Holding, Between, Busy
<1>3. CASE teller[p] \in Holding
  BY <1>3 DEF AtDesk, Holding, Between, Busy
<1>4. CASE teller[p] \in Between
  BY <1>4 DEF AtDesk, Holding, Between, Busy
<1> QED BY <1>1, <1>2, <1>3, <1>4

(* The payload a process loads is a whole file; without a meeting it has    *)
(* all that is known once the seeds are in it.                              *)
LEMMA LoadedPayload ==
  ASSUME ReviewMemoryInv
  PROVE  /\ LoadPayload \in CasesFile /\ LoadPayload.text = "whole"
         /\ LoadPayload = casesFile \/ LoadPayload = Empty
         /\ casesFile.text = "whole" => LoadPayload = casesFile
<1>1. Empty \in CasesFile /\ Empty.text = "whole"
  BY DEF Empty, CasesFile
<1> QED BY <1>1 DEF LoadPayload, ReviewMemoryInv, ReviewMemoryTypeOK

LEMMA ImportedPayload ==
  ASSUME ReviewMemoryInv
  PROVE  /\ ImportSeeds(LoadPayload) \in CasesFile
         /\ ImportSeeds(LoadPayload).text = "whole"
         /\ Undisturbed /\ casesFile.text # "torn" =>
               Known \subseteq ImportSeeds(LoadPayload).records
<1> DEFINE found == LoadPayload
           new == ImportSeeds(found)
<1>1. found \in CasesFile /\ found.text = "whole"
  BY LoadedPayload
<1>2. /\ new \in CasesFile /\ new.text = "whole"
      /\ new.records = found.records \cup (Seeds \ found.imported)
  <2> HIDE DEF found
  <2> QED BY <1>1 DEF ImportSeeds, CasesFile
<1>3. ASSUME Undisturbed, casesFile.text # "torn"
      PROVE  Known \subseteq new.records
  <2>1. CASE casesFile.text = "whole"
    <3>1. Known \subseteq found.records
      BY <1>3, <2>1, LoadedPayload DEF Undisturbed
    <3> HIDE DEF found, new
    <3> QED BY <1>2, <3>1
  <2>2. CASE casesFile.text = "none"
    <3>1. found = Empty /\ remembered = {}
      BY <1>3, <2>2 DEF Undisturbed, LoadPayload
    <3>2. found.imported = {}
      BY <3>1 DEF Empty
    <3> HIDE DEF found, new
    <3> QED BY <1>2, <3>1, <3>2 DEF Known
  <2> QED BY <1>3, <2>1, <2>2 DEF ReviewMemoryInv, ReviewMemoryTypeOK, CasesFile
<1> QED BY <1>2, <1>3

(* A process that loads the file keeps the invariant, if what it loads has  *)
(* all that is known as long as nobody was met.                             *)
LEMMA LoadKeepsInv ==
  ASSUME ReviewMemoryInv, NEW p \in MemoryProcesses, NEW r \in Reviews,
         NEW task \in {"retrieve", "import", "store"}, NEW payload \in CasesFile,
         Load(p, r, task, payload), teller[p].step \in {"idle", "imported"},
         casesFile' = casesFile, remembered' = remembered,
         reviewOf' \in [Reviews -> MemoryProcesses \cup {"waiting", "ended", "failed"}],
         payload.text = "whole",
         ~disturbed /\ casesFile.text # "torn" =>
            Known \subseteq payload.records /\ (task = "store" => r \in payload.records)
  PROVE  ReviewMemoryInv'
<1> DEFINE now == [step |-> "loaded", task |-> task, review |-> r, payload |-> payload]
<1>1. teller' = [teller EXCEPT ![p] = now] /\ disturbed' = (disturbed \/ Others(p) # {})
  BY DEF Load, Meets
<1>2. /\ now \in Holding /\ now # AtDesk /\ now.step = "loaded"
      /\ now.payload = payload /\ now.task = task /\ now.review = r
  BY DEF Holding, AtDesk
<1> HIDE DEF now
<1>3. /\ teller'[p] = now
      /\ \A q \in MemoryProcesses : q # p => teller'[q] = teller[q]
  BY <1>1 DEF ReviewMemoryInv, ReviewMemoryTypeOK
<1>4. ReviewMemoryTypeOK'
  BY <1>1, <1>2 DEF ReviewMemoryInv, ReviewMemoryTypeOK
<1>5. \A q \in MemoryProcesses : Busy(q)' => teller'[q].payload.text = "whole"
  BY <1>2, <1>3 DEF ReviewMemoryInv, Busy
<1>6. ASSUME ~disturbed'
      PROVE  Undisturbed'
  <2>1. ~disturbed /\ Undisturbed
    BY <1>1, <1>6 DEF ReviewMemoryInv
  <2>2. \A q \in MemoryProcesses : q # p => teller[q] = AtDesk
    BY <1>1, <1>6 DEF Others
  <2>3. \A q \in MemoryProcesses : teller[q].step # "writing"
    BY <2>2 DEF AtDesk
  <2>4. casesFile.text # "torn"
    BY <2>1, <2>3 DEF Undisturbed
  <2>5. Known \subseteq payload.records /\ (task = "store" => r \in payload.records)
    BY <2>1, <2>4
  <2>6. \A q \in MemoryProcesses : q # p => teller'[q].step = "idle"
    BY <1>3, <2>2 DEF AtDesk
  <2>7. Known' = Known
    BY DEF Known
  <2> QED BY <1>2, <1>3, <2>1, <2>2, <2>4, <2>5, <2>6, <2>7 DEF Undisturbed, Busy
<1> QED BY <1>4, <1>5, <1>6 DEF ReviewMemoryInv

(* A review that begins, ends or stores its case loads the file. *)
LEMMA LoadsKeepInv ==
  ASSUME ReviewMemoryInv, NEW p \in MemoryProcesses,
         \/ \E r \in Reviews : RetrieveSimilar(p, r) \/ EndOfReview(p, r)
         \/ StoreReviewCase(p)
  PROVE  ReviewMemoryInv'
<1>1. ASSUME NEW r \in Reviews, RetrieveSimilar(p, r) \/ EndOfReview(p, r)
      PROVE  ReviewMemoryInv'
  <2>1. /\ \E task \in {"retrieve", "import"} : Load(p, r, task, ImportSeeds(LoadPayload))
        /\ teller[p].step = "idle" /\ casesFile' = casesFile /\ remembered' = remembered
    BY <1>1 DEF RetrieveSimilar, EndOfReview, AtDesk
  <2>2. reviewOf' \in [Reviews -> MemoryProcesses \cup {"waiting", "ended", "failed"}]
    BY <1>1 DEF RetrieveSimilar, EndOfReview, ReviewMemoryInv, ReviewMemoryTypeOK
  <2>3. ~disturbed => Undisturbed
    BY DEF ReviewMemoryInv
  <2> QED BY <2>1, <2>2, <2>3, ImportedPayload, LoadKeepsInv
<1>2. ASSUME StoreReviewCase(p)
      PROVE  ReviewMemoryInv'
  <2> DEFINE r == teller[p].review
             found == LoadPayload
             new == StoreCase(found, r)
  <2>1. /\ teller[p].step = "imported" /\ Load(p, r, "store", new)
        /\ casesFile' = casesFile /\ remembered' = remembered /\ reviewOf' = reviewOf
    BY <1>2 DEF StoreReviewCase
  <2>2. r \in Reviews
    BY <2>1, TellerCases DEF Between
  <2>3. found \in CasesFile /\ found.text = "whole"
    BY LoadedPayload
  <2>4. ~disturbed => Known \subseteq found.records
    <3> SUFFICES ASSUME ~disturbed
                 PROVE  Known \subseteq found.records
      OBVIOUS
    <3>1. Undisturbed
      BY DEF ReviewMemoryInv
    <3>2. casesFile.text = "whole"
      BY <2>1, <3>1 DEF Undisturbed
    <3> QED BY <3>1, <3>2, LoadedPayload DEF Undisturbed
  <2> HIDE DEF r, found
  <2>5. new \in CasesFile /\ new.text = "whole" /\ new.records = found.records \cup {r}
    BY <2>2, <2>3 DEF StoreCase, CasesFile
  <2>6. reviewOf' \in [Reviews -> MemoryProcesses \cup {"waiting", "ended", "failed"}]
    BY <2>1 DEF ReviewMemoryInv, ReviewMemoryTypeOK
  <2> HIDE DEF new
  <2> QED BY <2>1, <2>2, <2>4, <2>5, <2>6, LoadKeepsInv
<1> QED BY <1>1, <1>2

(* The file is emptied, then filled, by the one process that is at it. *)
LEMMA WritesKeepInv ==
  ASSUME ReviewMemoryInv, NEW p \in MemoryProcesses, EmptyFile(p) \/ FillFile(p)
  PROVE  ReviewMemoryInv'
<1> DEFINE was == teller[p]
<1>1. was \in Holding /\ was.payload \in CasesFile /\ was.payload.text = "whole"
      /\ was.review \in Reviews /\ was.task \in {"retrieve", "import", "store"}
  <2>1. Busy(p)
    BY DEF EmptyFile, FillFile, Busy
  <2>2. was \in Holding
    BY <2>1, TellerCases
  <2> QED BY <2>1, <2>2 DEF ReviewMemoryInv, Holding
<1>2. disturbed' = (disturbed \/ Others(p) # {})
  BY DEF EmptyFile, FillFile, Meets
<1>3. [Empty EXCEPT !.text = "torn"] \in CasesFile
  BY DEF Empty, CasesFile
<1>4. ASSUME EmptyFile(p)
      PROVE  ReviewMemoryInv'
  <2> DEFINE now == [was EXCEPT !.step = "writing"]
  <2>1. /\ casesFile' = [Empty EXCEPT !.text = "torn"]
        /\ teller' = [teller EXCEPT ![p] = now]
        /\ reviewOf' = reviewOf /\ remembered' = remembered
    BY <1>4 DEF EmptyFile
  <2>2. /\ now \in Holding /\ now.step = "writing" /\ now.payload = was.payload
        /\ now.task = was.task /\ now.review = was.review
    BY <1>1 DEF Holding
  <2>3. casesFile' \in CasesFile /\ casesFile'.text = "torn"
    BY <1>3, <2>1 DEF Empty
  <2> HIDE DEF now
  <2>4. /\ teller'[p] = now
        /\ \A q \in MemoryProcesses : q # p => teller'[q] = teller[q]
    BY <2>1 DEF ReviewMemoryInv, ReviewMemoryTypeOK
  <2>5. ReviewMemoryTypeOK'
    BY <1>2, <2>1, <2>2, <2>3 DEF ReviewMemoryInv, ReviewMemoryTypeOK
  <2>6. \A q \in MemoryProcesses : Busy(q)' => teller'[q].payload.text = "whole"
    BY <1>1, <2>2, <2>4 DEF ReviewMemoryInv, Busy
  <2>7. ASSUME ~disturbed'
        PROVE  Undisturbed'
    <3>1. ~disturbed /\ Undisturbed
      BY <1>2, <2>7 DEF ReviewMemoryInv
    <3>2. \A q \in MemoryProcesses : q # p => teller[q] = AtDesk /\ teller[q].step = "idle"
      <4>1. Others(p) = {}
        BY <1>2, <2>7
      <4> QED BY <4>1 DEF Others, AtDesk
    <3>3. /\ Known \subseteq was.payload.records
          /\ was.task = "store" => was.review \in was.payload.records
      BY <1>1, <3>1 DEF Undisturbed, Busy, Holding
    <3>4. Known' = Known
      BY <2>1 DEF Known
    <3> QED BY <2>2, <2>3, <2>4, <3>1, <3>2, <3>3, <3>4 DEF Undisturbed, Busy
  <2> QED BY <2>5, <2>6, <2>7 DEF ReviewMemoryInv
<1>5. ASSUME FillFile(p)
      PROVE  ReviewMemoryInv'
  <2> DEFINE now == After(p)
  <2>1. now \in {AtDesk} \cup Between /\ now.step \in {"idle", "imported"}
    BY <1>1 DEF After, AtDesk, Between
  <2>2. /\ teller' = [teller EXCEPT ![p] = now]
        /\ \/ casesFile' = was.payload
           \/ Others(p) # {} /\ casesFile' = [Empty EXCEPT !.text = "torn"]
        /\ remembered' = IF was.task = "store" THEN remembered \cup {was.review}
                                               ELSE remembered
        /\ reviewOf' = IF was.task = "store" THEN [reviewOf EXCEPT ![was.review] = "ended"]
                                             ELSE reviewOf
    BY <1>5 DEF FillFile
  <2> HIDE DEF now, was
  <2>3. /\ teller'[p] = now
        /\ \A q \in MemoryProcesses : q # p => teller'[q] = teller[q]
    BY <2>2 DEF ReviewMemoryInv, ReviewMemoryTypeOK
  <2>4. ReviewMemoryTypeOK'
    <3>1. casesFile' \in CasesFile
      BY <1>1, <1>3, <2>2
    <3>2. teller' \in [MemoryProcesses -> {AtDesk} \cup Holding \cup Between]
      BY <2>1, <2>2 DEF ReviewMemoryInv, ReviewMemoryTypeOK
    <3>3. remembered' \in SUBSET Reviews /\ disturbed' \in BOOLEAN
      BY <1>1, <1>2, <2>2 DEF ReviewMemoryInv, ReviewMemoryTypeOK
    <3>4. reviewOf' \in [Reviews -> MemoryProcesses \cup {"waiting", "ended", "failed"}]
      BY <2>2 DEF ReviewMemoryInv, ReviewMemoryTypeOK
    <3> QED BY <3>1, <3>2, <3>3, <3>4 DEF ReviewMemoryTypeOK
  <2>5. \A q \in MemoryProcesses : Busy(q)' => teller'[q].payload.text = "whole"
    BY <2>1, <2>3 DEF ReviewMemoryInv, Busy
  <2>6. ASSUME ~disturbed'
        PROVE  Undisturbed'
    <3>1. ~disturbed /\ Undisturbed /\ Others(p) = {}
      BY <1>2, <2>6 DEF ReviewMemoryInv
    <3>2. \A q \in MemoryProcesses : q # p => teller[q] = AtDesk /\ teller[q].step = "idle"
      BY <3>1 DEF Others, AtDesk
    <3>3. casesFile' = was.payload /\ casesFile'.text = "whole"
      BY <1>1, <2>2, <3>1
    <3>4. Known' \subseteq was.payload.records
      BY <1>1, <2>2, <3>1 DEF Undisturbed, Busy, Holding, Known, was
    <3> QED BY <2>1, <2>3, <3>2, <3>3, <3>4 DEF Undisturbed, Busy
  <2> QED BY <2>4, <2>5, <2>6 DEF ReviewMemoryInv
<1> QED BY <1>4, <1>5

(* A write that is refused and a process that is killed give up the payload. *)
LEMMA LeavingKeepsInv ==
  ASSUME ReviewMemoryInv, NEW p \in MemoryProcesses, WriteRefused(p) \/ Killed(p)
  PROVE  ReviewMemoryInv'
<1>1. /\ teller' = [teller EXCEPT ![p] = AtDesk]
      /\ casesFile' = casesFile /\ remembered' = remembered
      /\ disturbed' = disturbed \/ disturbed' = (disturbed \/ teller[p].step = "writing")
      /\ disturbed' = FALSE => teller[p].step # "writing"
  BY DEF WriteRefused, Killed
<1>2. /\ teller'[p] = AtDesk /\ teller'[p].step = "idle"
      /\ \A q \in MemoryProcesses : q # p => teller'[q] = teller[q]
  BY <1>1 DEF ReviewMemoryInv, ReviewMemoryTypeOK, AtDesk
<1>3. ReviewMemoryTypeOK'
  <2>1. reviewOf' \in [Reviews -> MemoryProcesses \cup {"waiting", "ended", "failed"}]
    BY DEF WriteRefused, Killed, ReviewMemoryInv, ReviewMemoryTypeOK
  <2>2. disturbed' \in BOOLEAN
    BY <1>1 DEF ReviewMemoryInv, ReviewMemoryTypeOK
  <2> QED BY <1>1, <2>1, <2>2 DEF ReviewMemoryInv, ReviewMemoryTypeOK
<1>4. \A q \in MemoryProcesses : Busy(q)' => teller'[q].payload.text = "whole"
  BY <1>2 DEF ReviewMemoryInv, Busy
<1>5. ASSUME ~disturbed'
      PROVE  Undisturbed'
  <2>1. ~disturbed /\ Undisturbed /\ teller[p].step # "writing"
    BY <1>1, <1>5 DEF ReviewMemoryInv, ReviewMemoryTypeOK
  <2> QED BY <1>1, <1>2, <2>1 DEF Undisturbed, Busy, Known
<1> QED BY <1>3, <1>4, <1>5 DEF ReviewMemoryInv

(* Without two processes at the file at once, and none killed in a write,   *)
(* FileBackedMemoryStore keeps every stored case and every seed, whatever   *)
(* writes are refused and whatever readers are killed.                      *)
THEOREM CasesAreKept == Spec => []AloneKeepsCases
<1>1. Init => ReviewMemoryInv
  <2> SUFFICES ASSUME Init
               PROVE  ReviewMemoryInv
    OBVIOUS
  <2>1. casesFile \in CasesFile /\ casesFile.text = "none"
    BY DEF Init, ReviewMemoryInit, CasesFile, Empty
  <2> QED BY <2>1 DEF Init, ReviewMemoryInit, ReviewMemoryInv, ReviewMemoryTypeOK, Undisturbed,
                      Busy, AtDesk
<1>2. ReviewMemoryInv /\ [Next]_platformVars => ReviewMemoryInv'
  <2> SUFFICES ASSUME ReviewMemoryInv, [Next]_platformVars
               PROVE  ReviewMemoryInv'
    OBVIOUS
  <2>1. CASE ReviewMemoryNext
    BY <2>1, LoadsKeepInv, WritesKeepInv, LeavingKeepsInv DEF ReviewMemoryNext
  <2>2. CASE UNCHANGED reviewMemoryVars
    BY <2>2 DEF reviewMemoryVars, ReviewMemoryInv, ReviewMemoryTypeOK, Undisturbed, Busy, Known
  <2> QED BY <2>1, <2>2, OneComponentSteps
<1>3. ReviewMemoryInv => AloneKeepsCases
  BY DEF ReviewMemoryInv, Undisturbed, Known, AloneKeepsCases
<1> QED BY <1>1, <1>2, <1>3, PTL DEF Spec, platformVars

----------------------------------------------------------------------------
(* The plan of a partial rerun. *)

(* What a rerun reaches contains the nodes it starts from and the           *)
(* successors of its own.                                                   *)
LEMMA ClosureIsClosed ==
  ASSUME NEW nodes \in SUBSET WorkflowNodes
  PROVE  /\ nodes \subseteq Closure(nodes) /\ Closure(nodes) \subseteq WorkflowNodes
         /\ Closed(Closure(nodes))
<1>1. \A n \in WorkflowNodes : Edges(n) \subseteq WorkflowNodes
  BY DEF WorkflowNodes, Edges
<1>2. nodes \subseteq Closure(nodes) /\ Closure(nodes) \subseteq WorkflowNodes
  BY DEF Closure
<1>3. ASSUME NEW n \in Closure(nodes), NEW m \in Edges(n)
      PROVE  m \in Closure(nodes)
  <2>1. m \in WorkflowNodes
    BY <1>1, <1>2, <1>3
  <2>2. ASSUME NEW S \in SUBSET WorkflowNodes, nodes \subseteq S, Closed(S)
        PROVE  m \in S
    <3>1. n \in S
      BY <1>3, <2>2 DEF Closure
    <3> QED BY <1>3, <2>2, <3>1 DEF Closed
  <2> QED BY <2>1, <2>2 DEF Closure
<1> QED BY <1>2, <1>3 DEF Closed

(* Where a node's agent reads an output of the same pass, an edge leads to  *)
(* it, in one step or through the nodes between, but for the one pair.      *)
LEMMA ReadersAreReached ==
  ASSUME NEW S \in SUBSET WorkflowNodes, Closed(S),
         NEW n \in WorkflowNodes, NEW m \in ReadsOf(n), m \in S
  PROVE  n \in S \/ <<n, m>> = <<"delivery_planning", "risk">>
<1>1. /\ "parser" \in S => "planner" \in S /\ "risk" \in S
      /\ "planner" \in S => "delivery_planning" \in S
      /\ "risk" \in S \/ "delivery_planning" \in S => "reviewer" \in S
      /\ "reviewer" \in S => "reporter" \in S
  BY DEF Closed, Edges
<1>2. CASE n \in {"parser", "planner", "risk"}
  BY <1>1, <1>2 DEF ReadsOf
<1>3. CASE n = "delivery_planning"
  BY <1>1, <1>3 DEF ReadsOf
<1>4. CASE n = "reviewer"
  BY <1>1, <1>4 DEF ReadsOf
<1>5. CASE n = "reporter"
  BY <1>1, <1>5 DEF ReadsOf, WorkflowNodes
<1> QED BY <1>2, <1>3, <1>4, <1>5 DEF WorkflowNodes

RerunInv ==
    /\ impact.nodes \in SUBSET WorkflowNodes
    /\ ReuseIsUnaffected

(* A node whose output is reused reads nothing of a node that runs again,   *)
(* for every answer of the model, every set of cached outputs and every     *)
(* change, but for the delivery plan and the risks.                         *)
THEOREM ReusedAreUnaffected == Spec => []ReuseIsUnaffected
<1>1. Init => RerunInv
  BY DEF Init, RerunInit, NotAnalysed, NoPlan, RerunInv, ReuseIsUnaffected
<1>2. RerunInv /\ [Next]_platformVars => RerunInv'
  <2> SUFFICES ASSUME RerunInv, [Next]_platformVars
               PROVE  RerunInv'
    OBVIOUS
  <2>1. CASE Compare
    BY <2>1 DEF Compare, RerunInv, ReuseIsUnaffected
  <2>2. CASE Analyse
    <3>1. plan' = plan
      BY <2>2 DEF Analyse
    <3>2. impact'.nodes \in SUBSET WorkflowNodes
      <4>1. Fallback(change) \in SUBSET WorkflowNodes
        BY DEF Fallback, WorkflowNodes
      <4>2. {"parser", "reporter"} \in SUBSET WorkflowNodes
        BY DEF WorkflowNodes
      <4> QED BY <2>2, <4>1, <4>2 DEF Analyse
    <3> QED BY <3>1, <3>2 DEF RerunInv, ReuseIsUnaffected
  <2>3. CASE Plan
    <3> DEFINE rerun == Closure(impact.nodes)
    <3>1. /\ impact' = NotAnalysed
          /\ plan' = [n \in WorkflowNodes |->
                CASE n \in rerun -> "rerun"
                  [] n \notin rerun /\ n \in cached -> "reuse_cache"
                  [] OTHER -> "skip"]
      BY <2>3 DEF Plan
    <3>2. rerun \in SUBSET WorkflowNodes /\ Closed(rerun)
      BY ClosureIsClosed DEF RerunInv
    <3> HIDE DEF rerun
    <3>3. \A n \in WorkflowNodes : /\ plan'[n] = "reuse_cache" => n \notin rerun
                                   /\ plan'[n] = "rerun" => n \in rerun
      BY <3>1
    <3>4. \A n \in WorkflowNodes : ReadsOf(n) \subseteq WorkflowNodes
      BY DEF ReadsOf, WorkflowNodes
    <3>5. ReuseIsUnaffected'
      BY <3>2, <3>3, <3>4, ReadersAreReached DEF ReuseIsUnaffected
    <3> QED BY <3>1, <3>5 DEF RerunInv, NotAnalysed
  <2>4. CASE UNCHANGED rerunVars
    BY <2>4 DEF rerunVars, RerunInv, ReuseIsUnaffected
  <2> QED BY <2>1, <2>2, <2>3, <2>4, OneComponentSteps DEF RerunNext
<1> QED BY <1>1, <1>2, PTL DEF Spec, platformVars, RerunInv

----------------------------------------------------------------------------
(* The outputs handed on. *)

Ends == {"ok", "skipped", "partial_success", "failed"}
Steps == {"packs", "prompts", "draft", "tasks", "bundle", "trace", "report", "tell"}
ReportTexts == [text : {"torn", "whole"}, doc : BOOLEAN, lists : SUBSET Outputs]
AtWork == [step : Steps, kind : {"first", "retry", "bundle", "edit"}, doc : BOOLEAN,
           todo : SUBSET Outputs, writing : {"nothing", "report"} \cup Outputs,
           made : SUBSET Outputs, ends : SUBSET Ends, seen : ReportTexts]

HandoffTypeOK ==
    /\ document \in BOOLEAN
    /\ disk \in SUBSET Outputs
    /\ report \in ReportTexts
    /\ maker \in [Makers -> {Nobody} \cup AtWork]
    /\ interrupted \in BOOLEAN

Engaged(p) == maker[p] # Nobody
Fine(p) == maker[p].ends \subseteq {"ok", "skipped"}

(* What a generation can have made by the end of a step. *)
MadeBy(step) ==
    CASE step = "packs"               -> Packs
      [] step \in {"prompts", "draft"} -> Packs \cup Prompts
      [] step = "tasks"               -> Packs \cup Prompts \cup {"task_bundle_v1"}
      [] OTHER                        -> Outputs

(* A file is made once, what is to be made has not been; an edit makes none. *)
MakesOnce(p) ==
    Engaged(p) =>
        /\ maker[p].todo \subseteq FilesOf(maker[p].step)
        /\ maker[p].made \subseteq MadeBy(maker[p].step) \ maker[p].todo
        /\ maker[p].kind = "edit" => maker[p].step = "report"

(* What a whole generation has made once its stages went well. *)
StagesMade(p) ==
    Engaged(p) /\ maker[p].kind \in {"first", "retry"} /\ Fine(p) =>
        /\ maker[p].step # "packs" => Packs \subseteq maker[p].made
        /\ maker[p].step \notin {"packs", "prompts"} => Prompts \subseteq maker[p].made
        /\ maker[p].step \notin {"packs", "prompts", "draft", "tasks"}
              => "task_bundle_v1" \in maker[p].made
        /\ maker[p].step \in {"trace", "report", "tell"} => "delivery_bundle" \in maker[p].made

(* One alone at work: what it made stands, and it alone empties the report. *)
Alone(p) ==
    /\ \A q \in Makers : Engaged(q) => q = p
    /\ maker[p].made \subseteq disk
    /\ maker[p].step # "report" => report.text = "whole"
    /\ maker[p].step = "tell" => maker[p].made \subseteq report.lists

ToldOk == told.kind \in {"first", "retry"} /\ told.status = "ok"

(* What an event has said stands while nobody is at work, and during an     *)
(* edit, which holds the list as long as the report may be empty.           *)
ToldStands ==
    ToldOk /\ (\A p \in Makers : Engaged(p) => maker[p].kind = "edit") =>
        /\ Outputs \subseteq disk
        /\ NobodyWorks => Outputs \subseteq report.lists
        /\ \A p \in Makers : Engaged(p) => Outputs \subseteq maker[p].seen.lists

HandoffInv ==
    /\ HandoffTypeOK
    /\ \A p \in Makers : MakesOnce(p) /\ StagesMade(p)
    /\ ~interrupted => ToldStands /\ \A p \in Makers : Engaged(p) => Alone(p)

Stages == {"packs", "prompts", "draft", "tasks", "bundle"}

(* Who is at a step is at work; who is put to work, nobody else with it. *)
LEMMA AtAStep ==
  ASSUME HandoffTypeOK, NEW p \in Makers
  PROVE  /\ Engaged(p) => maker[p] \in AtWork
         /\ maker[p].step # "none" => Engaged(p)
BY DEF HandoffTypeOK, Engaged, Nobody

LEMMA OneMoves ==
  ASSUME HandoffTypeOK, NEW p \in Makers, NEW now, maker' = [maker EXCEPT ![p] = now]
  PROVE  /\ maker'[p] = now
         /\ \A q \in Makers : q # p => maker'[q] = maker[q]
         /\ now \in {Nobody} \cup AtWork => maker' \in [Makers -> {Nobody} \cup AtWork]
BY DEF HandoffTypeOK

LEMMA WorkIsNotRest == \A now \in AtWork : now # Nobody
  BY DEF AtWork, Nobody, Steps

(* Packs, prompts and bundles are different files, so a stage has what the  *)
(* ones before it made, and makes something else.                           *)
LEMMA StagesFollow ==
  /\ \A step \in Steps : FilesOf(step) \in SUBSET Outputs
  /\ \A step \in Stages : /\ step \in Steps /\ NextStep(step) \in Steps
                          /\ NextStep(step) \notin {"report", "tell"}
                          /\ MadeBy(step) \subseteq MadeBy(NextStep(step)) \ FilesOf(NextStep(step))
<1>1. \A step \in Steps : FilesOf(step) \in SUBSET Outputs
  BY DEF FilesOf, Outputs
<1>2. \A step \in Stages : /\ step \in Steps /\ NextStep(step) \in Steps
                          /\ NextStep(step) \notin {"report", "tell"}
  BY DEF Stages, Steps, NextStep
<1>3. ASSUME NEW step \in Stages
      PROVE  MadeBy(step) \subseteq MadeBy(NextStep(step)) \ FilesOf(NextStep(step))
  <2>1. CASE step = "packs"
    BY <2>1, HandoffAssumption DEF MadeBy, NextStep, FilesOf
  <2>2. CASE step = "prompts"
    BY <2>2 DEF MadeBy, NextStep, FilesOf
  <2>3. CASE step = "draft"
    BY <2>3, HandoffAssumption DEF MadeBy, NextStep, FilesOf
  <2>4. CASE step = "tasks"
    BY <2>4, HandoffAssumption DEF MadeBy, NextStep, FilesOf, Outputs
  <2>5. CASE step = "bundle"
    BY <2>5 DEF MadeBy, NextStep, FilesOf, Outputs
  <2> QED BY <2>1, <2>2, <2>3, <2>4, <2>5 DEF Stages
<1> QED BY <1>1, <1>2, <1>3

(* A step within the stages keeps the invariant if it leaves its own        *)
(* generation as it should: no event is about it yet.                       *)
LEMMA StageKeepsInv ==
  ASSUME HandoffInv, NEW p \in Makers, NEW now \in AtWork,
         maker[p].step \in Stages, maker' = [maker EXCEPT ![p] = now],
         disk' \in SUBSET Outputs,
         now.kind = maker[p].kind, now.step \notin {"report", "tell"},
         now.todo \subseteq FilesOf(now.step),
         now.made \subseteq MadeBy(now.step) \ now.todo,
         StagesMade(p)',
         ~interrupted /\ Alone(p) => now.made \subseteq disk',
         UNCHANGED <<document, report, told, generations, interrupted>>
  PROVE  HandoffInv'
<1>0. HandoffTypeOK
  BY DEF HandoffInv
<1>1. /\ maker'[p] = now
      /\ \A q \in Makers : q # p => maker'[q] = maker[q]
      /\ maker' \in [Makers -> {Nobody} \cup AtWork]
  BY <1>0, OneMoves
<1>2. Engaged(p) /\ Engaged(p)' /\ maker[p].kind # "edit"
  <2>1. Engaged(p)
    BY <1>0, AtAStep DEF Stages
  <2>2. maker[p].step # "report"
    BY DEF Stages
  <2>3. maker[p].kind # "edit"
    BY <2>1, <2>2 DEF HandoffInv, MakesOnce
  <2> QED BY <1>1, <2>1, <2>3, WorkIsNotRest DEF Engaged
<1>3. HandoffTypeOK'
  BY <1>0, <1>1 DEF HandoffTypeOK
<1>4. \A q \in Makers : MakesOnce(q)' /\ StagesMade(q)'
  <2>1. MakesOnce(p)'
    BY <1>1, <1>2 DEF MakesOnce
  <2>2. \A q \in Makers : q # p => MakesOnce(q)' /\ StagesMade(q)'
    BY <1>1 DEF HandoffInv, MakesOnce, StagesMade, Engaged, Fine
  <2> QED BY <2>1, <2>2
<1>5. ASSUME ~interrupted
      PROVE  ToldStands' /\ \A q \in Makers : Engaged(q)' => Alone(q)'
  <2>1. Alone(p)
    BY <1>2, <1>5 DEF HandoffInv
  <2>2. \A q \in Makers : Engaged(q)' => q = p
    BY <1>1, <2>1 DEF Alone, Engaged
  <2>3. report.text = "whole"
    BY <2>1 DEF Alone, Stages
  <2>4. Alone(p)'
    BY <1>1, <1>2, <1>5, <2>1, <2>2, <2>3 DEF Alone
  <2>5. ToldStands'
    BY <1>1, <1>2 DEF ToldStands
  <2> QED BY <2>2, <2>4, <2>5
<1> QED BY <1>3, <1>4, <1>5 DEF HandoffInv

(* A file that is emptied is none of those that were made. *)
LEMMA StartKeepsInv ==
  ASSUME HandoffInv, NEW p \in Makers, NEW f, maker[p].step \in Stages, StartFile(p, f),
         UNCHANGED <<document, report, told, generations, interrupted>>
  PROVE  HandoffInv'
<1>1. /\ Engaged(p) /\ maker[p] \in AtWork
      /\ maker[p].todo \subseteq FilesOf(maker[p].step)
      /\ maker[p].made \subseteq MadeBy(maker[p].step) \ maker[p].todo
  BY AtAStep DEF HandoffInv, MakesOnce, Stages
<1>2. PICK now \in {[maker[p] EXCEPT !.writing = f], [maker[p] EXCEPT !.todo = @ \ {f}]} :
        /\ maker' = [maker EXCEPT ![p] = now]
        /\ disk' \in {disk, disk \ {f}}
  BY DEF StartFile
<1>3. f \in maker[p].todo /\ f \in Outputs
  BY <1>1 DEF StartFile, AtWork
<1>4. /\ now \in AtWork /\ now.step = maker[p].step /\ now.kind = maker[p].kind
      /\ now.made = maker[p].made /\ now.ends = maker[p].ends
      /\ now.todo \subseteq maker[p].todo
  BY <1>1, <1>2, <1>3 DEF AtWork
<1>5. now.step \notin {"report", "tell"}
  BY <1>4 DEF Stages
<1>6. disk' \in SUBSET Outputs
  BY <1>2 DEF HandoffInv, HandoffTypeOK
<1>7. StagesMade(p)'
  <2>1. maker'[p] = now
    BY <1>2, OneMoves DEF HandoffInv
  <2> QED BY <1>1, <1>4, <2>1 DEF HandoffInv, StagesMade, Fine, Engaged
<1>8. Alone(p) => now.made \subseteq disk'
  BY <1>1, <1>2, <1>3, <1>4 DEF Alone
<1>9. now.todo \subseteq FilesOf(now.step) /\ now.made \subseteq MadeBy(now.step) \ now.todo
  BY <1>1, <1>4
<1> QED BY <1>2, <1>4, <1>5, <1>6, <1>7, <1>8, <1>9, StageKeepsInv

(* What one alone at work has filled is there. *)
LEMMA FilledKeepsInv ==
  ASSUME HandoffInv, NEW p \in Makers, FinishFile(p)
  PROVE  HandoffInv'
<1> DEFINE f == maker[p].writing
           over == [maker[p] EXCEPT !.todo = @ \ {f}, !.writing = "nothing"]
           done == [over EXCEPT !.made = @ \cup {f}]
<1>1. /\ Engaged(p) /\ maker[p] \in AtWork
      /\ maker[p].todo \subseteq FilesOf(maker[p].step)
      /\ maker[p].made \subseteq MadeBy(maker[p].step) \ maker[p].todo
  BY AtAStep DEF HandoffInv, MakesOnce, FinishFile
<1>2. /\ f \in maker[p].todo /\ f \in Outputs
      /\ UNCHANGED <<document, report, told, generations, interrupted>>
  BY <1>1 DEF FinishFile, AtWork
<1>3. maker[p].step \in Stages
  BY <1>1, <1>2 DEF FilesOf, Stages, AtWork, Steps
<1>4. PICK now \in {over, done} :
        /\ maker' = [maker EXCEPT ![p] = now]
        /\ disk' \in {disk, disk \cup {f}}
        /\ now = over \/ (now = done /\ (disk' = disk \cup {f} \/ SharesFile(p)))
  BY DEF FinishFile
<1>5. /\ now \in AtWork /\ now.step = maker[p].step /\ now.kind = maker[p].kind
      /\ now.ends = maker[p].ends /\ now.todo = maker[p].todo \ {f}
      /\ \/ now.made = maker[p].made
         \/ now.made = maker[p].made \cup {f} /\ (disk' = disk \cup {f} \/ SharesFile(p))
  <2>1. CASE now = over
    BY <1>1, <1>2, <2>1 DEF AtWork
  <2>2. CASE now = done /\ (disk' = disk \cup {f} \/ SharesFile(p))
    <3>1. /\ done \in AtWork /\ done.step = maker[p].step /\ done.kind = maker[p].kind
          /\ done.ends = maker[p].ends /\ done.todo = maker[p].todo \ {f}
          /\ done.made = maker[p].made \cup {f}
      BY <1>1, <1>2 DEF AtWork
    <3> QED BY <2>2, <3>1
  <2> QED BY <1>4, <2>1, <2>2
<1>6. disk' \in SUBSET Outputs
  BY <1>2, <1>4 DEF HandoffInv, HandoffTypeOK
<1>7. FilesOf(maker[p].step) \subseteq MadeBy(maker[p].step)
  BY <1>3 DEF Stages, FilesOf, MadeBy, Outputs
<1>8. now.todo \subseteq FilesOf(now.step) /\ now.made \subseteq MadeBy(now.step) \ now.todo
  BY <1>1, <1>2, <1>5, <1>7
<1>9. StagesMade(p)'
  <2>1. maker'[p] = now
    BY <1>4, OneMoves DEF HandoffInv
  <2>2. Fine(p)' => Fine(p)
    BY <1>5, <2>1 DEF Fine
  <2>3. StagesMade(p)
    BY DEF HandoffInv
  <2> HIDE DEF f, over, done
  <2> QED BY <1>1, <1>5, <2>1, <2>2, <2>3 DEF StagesMade, Engaged
<1>10. Alone(p) => now.made \subseteq disk'
  <2>1. Alone(p) => ~SharesFile(p)
    BY DEF Alone, SharesFile, Engaged
  <2> HIDE DEF over, done
  <2> QED BY <1>4, <1>5, <2>1 DEF Alone
<1>11. now.step \notin {"report", "tell"}
  BY <1>3, <1>5 DEF Stages
<1> HIDE DEF f, over, done
<1> QED BY <1>2, <1>3, <1>4, <1>5, <1>6, <1>8, <1>9, <1>10, <1>11, StageKeepsInv

(* A stage passes for one that went well only with all its files made, and  *)
(* the next begins with none of its own.                                    *)
LEMMA EndKeepsInv ==
  ASSUME HandoffInv, NEW p \in Makers, NEW end \in Ends,
         maker[p].step \in Stages, EndAs(p, end),
         end \in {"ok", "skipped"} /\ maker[p].kind \in {"first", "retry"} /\ Fine(p)
             => FilesOf(maker[p].step) \subseteq maker[p].made,
         UNCHANGED <<document, disk, report, told, generations, interrupted>>
  PROVE  HandoffInv'
<1> DEFINE next == NextStep(maker[p].step)
           now == [maker[p] EXCEPT !.step = next, !.todo = FilesOf(next), !.ends = @ \cup {end}]
<1>1. /\ Engaged(p) /\ maker[p] \in AtWork
      /\ maker[p].made \subseteq MadeBy(maker[p].step)
  BY AtAStep DEF HandoffInv, MakesOnce, Stages
<1>2. maker' = [maker EXCEPT ![p] = now]
  BY DEF EndAs
<1>3. /\ next \in Steps /\ next \notin {"report", "tell"} /\ FilesOf(next) \in SUBSET Outputs
      /\ MadeBy(maker[p].step) \subseteq MadeBy(next) \ FilesOf(next)
  BY StagesFollow
<1> HIDE DEF next
<1>4. /\ now \in AtWork /\ now.step = next /\ now.kind = maker[p].kind
      /\ now.made = maker[p].made /\ now.ends = maker[p].ends \cup {end}
      /\ now.todo = FilesOf(next)
  BY <1>1, <1>3 DEF AtWork
<1> HIDE DEF now
<1>5. maker'[p] = now
  BY <1>2, OneMoves DEF HandoffInv
<1>6. StagesMade(p)'
  <2>1. SUFFICES ASSUME maker[p].kind \in {"first", "retry"}, Fine(p)'
                 PROVE  /\ next # "packs" => Packs \subseteq maker[p].made
                        /\ next \notin {"packs", "prompts"} => Prompts \subseteq maker[p].made
                        /\ next \notin {"packs", "prompts", "draft", "tasks"}
                              => "task_bundle_v1" \in maker[p].made
                        /\ next \in {"trace", "report", "tell"}
                              => "delivery_bundle" \in maker[p].made
    BY <1>4, <1>5 DEF StagesMade
  <2>2. Fine(p) /\ end \in {"ok", "skipped"}
    BY <1>4, <1>5, <2>1 DEF Fine
  <2>3. FilesOf(maker[p].step) \subseteq maker[p].made /\ StagesMade(p)
    BY <2>1, <2>2 DEF HandoffInv
  <2>4. CASE maker[p].step = "packs"
    BY <2>3, <2>4 DEF next, NextStep, FilesOf
  <2>5. CASE maker[p].step = "prompts"
    BY <1>1, <2>1, <2>2, <2>3, <2>5 DEF next, NextStep, FilesOf, StagesMade
  <2>6. CASE maker[p].step = "draft"
    BY <1>1, <2>1, <2>2, <2>3, <2>6 DEF next, NextStep, FilesOf, StagesMade
  <2>7. CASE maker[p].step = "tasks"
    BY <1>1, <2>1, <2>2, <2>3, <2>7 DEF next, NextStep, FilesOf, StagesMade
  <2>8. CASE maker[p].step = "bundle"
    BY <1>1, <2>1, <2>2, <2>3, <2>8 DEF next, NextStep, FilesOf, StagesMade
  <2> QED BY <2>4, <2>5, <2>6, <2>7, <2>8 DEF Stages
<1>7. disk' \in SUBSET Outputs
  BY DEF HandoffInv, HandoffTypeOK
<1>8. Alone(p) => now.made \subseteq disk'
  BY <1>4 DEF Alone
<1>9. /\ now.step \notin {"report", "tell"} /\ now.todo \subseteq FilesOf(now.step)
      /\ now.made \subseteq MadeBy(now.step) \ now.todo
  BY <1>1, <1>3, <1>4
<1> QED BY <1>2, <1>4, <1>6, <1>7, <1>8, <1>9, StageKeepsInv

(* Every stage that goes well leaves what it is for, and none that failed    *)
(* or was skipped for want of something passes for one that went well.       *)
LEMMA StagesKeepInv ==
  ASSUME HandoffInv, NEW p \in Makers,
         \/ MakePacks(p) \/ MakePrompts(p) \/ MakeDraft(p) \/ MakeTasks(p) \/ MakeBundle(p)
         \/ EndStage(p)
  PROVE  HandoffInv'
<1>1. /\ maker[p].step \in Stages
      /\ UNCHANGED <<document, report, told, generations, interrupted>>
  BY DEF MakePacks, MakePrompts, MakeDraft, MakeTasks, MakeBundle, EndStage, Stages
<1>2. {"ok", "skipped", "failed"} \subseteq Ends
  BY DEF Ends
<1>3. CASE \E f : StartFile(p, f)
  BY <1>1, <1>3, StartKeepsInv
<1>4. CASE EndAs(p, "failed") /\ UNCHANGED disk
  BY <1>1, <1>2, <1>4, EndKeepsInv
<1>5. CASE MakePacks(p)
  BY <1>3, <1>5 DEF MakePacks
<1>6. CASE MakePrompts(p)
  <2>1. CASE /\ maker[p].step = "prompts" /\ "execution_pack" \notin maker[p].made
             /\ EndAs(p, "skipped") /\ UNCHANGED disk
    <3>1. Engaged(p)
      BY <2>1, AtAStep DEF HandoffInv
    <3>2. ~(maker[p].kind \in {"first", "retry"} /\ Fine(p))
      BY <2>1, <3>1, HandoffAssumption DEF HandoffInv, StagesMade
    <3> QED BY <1>1, <1>2, <2>1, <3>2, EndKeepsInv
  <2> QED BY <1>3, <1>4, <1>6, <2>1 DEF MakePrompts
<1>7. CASE MakeDraft(p)
  <2>1. PICK end \in Ends : EndAs(p, end)
    BY <1>2, <1>7 DEF MakeDraft
  <2>2. FilesOf(maker[p].step) = {} /\ UNCHANGED disk
    BY <1>7 DEF MakeDraft, FilesOf
  <2> QED BY <1>1, <2>1, <2>2, EndKeepsInv
<1>8. CASE MakeTasks(p)
  BY <1>3, <1>8 DEF MakeTasks
<1>9. CASE MakeBundle(p)
  BY <1>3, <1>4, <1>9 DEF MakeBundle
<1>10. CASE EndStage(p)
  <2> DEFINE all == FilesOf(maker[p].step)
             end == EndOf(all \ maker[p].made, all)
  <2>1. EndAs(p, end) /\ UNCHANGED disk
    BY <1>10 DEF EndStage
  <2>2. /\ end \in Ends
        /\ end \in {"ok", "skipped"} => all \subseteq maker[p].made
    BY DEF EndOf, Ends
  <2> HIDE DEF end
  <2> QED BY <1>1, <2>1, <2>2, EndKeepsInv
<1> QED BY <1>5, <1>6, <1>7, <1>8, <1>9, <1>10

(* What begins has made nothing.  A whole generation begins a new account;  *)
(* a bundle or an edit alone finds what the last one said to be true.       *)
LEMMA StartsKeepsInv ==
  ASSUME HandoffInv, NEW p \in Makers, NEW kind \in {"first", "retry", "bundle", "edit"},
         NEW step \in {"packs", "bundle", "report"}, Starts(p, At(step, kind)),
         kind = "edit" <=> step = "report", kind \in {"first", "retry"} <=> step = "packs"
  PROVE  HandoffInv'
<1> DEFINE now == At(step, kind)
<1>0. HandoffTypeOK
  BY DEF HandoffInv
<1>1. /\ maker[p] = Nobody /\ report.text = "whole" /\ maker' = [maker EXCEPT ![p] = now]
      /\ interrupted' = (~NobodyWorks \/ (interrupted /\ kind \notin {"first", "retry"}))
      /\ UNCHANGED <<document, disk, report, told>>
  BY DEF Starts, At
<1>2. /\ now \in AtWork /\ now.step = step /\ now.kind = kind
      /\ now.todo = FilesOf(step) /\ now.made = {} /\ now.ends = {} /\ now.seen = report
  <2>1. HandoffSource \in BOOLEAN
    BY <1>0 DEF HandoffSource, HandoffTypeOK, ReportTexts
  <2>2. step \in Steps /\ FilesOf(step) \in SUBSET Outputs
    BY StagesFollow DEF Steps
  <2> QED BY <1>0, <2>1, <2>2 DEF At, AtWork, HandoffTypeOK
<1> HIDE DEF now
<1>3. /\ maker'[p] = now /\ now # Nobody
      /\ \A q \in Makers : q # p => maker'[q] = maker[q]
      /\ maker' \in [Makers -> {Nobody} \cup AtWork]
  BY <1>0, <1>1, <1>2, OneMoves, WorkIsNotRest
<1>4. HandoffTypeOK'
  BY <1>0, <1>1, <1>3 DEF HandoffTypeOK, NobodyWorks
<1>5. \A q \in Makers : MakesOnce(q)' /\ StagesMade(q)'
  <2>1. MakesOnce(p)' /\ StagesMade(p)'
    BY <1>2, <1>3 DEF MakesOnce, StagesMade
  <2>2. \A q \in Makers : q # p => MakesOnce(q)' /\ StagesMade(q)'
    BY <1>3 DEF HandoffInv, MakesOnce, StagesMade, Engaged, Fine
  <2> QED BY <2>1, <2>2
<1>6. ASSUME ~interrupted'
      PROVE  ToldStands' /\ \A q \in Makers : Engaged(q)' => Alone(q)'
  <2>1. NobodyWorks /\ (interrupted => kind \in {"first", "retry"})
    BY <1>1, <1>6
  <2>2. \A q \in Makers : Engaged(q)' => q = p
    BY <1>3, <2>1 DEF Engaged, NobodyWorks
  <2>3. Alone(p)'
    BY <1>1, <1>2, <1>3, <2>2 DEF Alone
  <2>4. ToldStands'
    <3>1. CASE kind # "edit"
      BY <1>2, <1>3, <3>1 DEF ToldStands, Engaged
    <3>2. CASE kind = "edit"
      <4>1. ToldStands /\ \A q \in Makers : ~Engaged(q)
        BY <2>1, <3>2 DEF HandoffInv, NobodyWorks, Engaged
      <4>2. ToldOk => Outputs \subseteq disk /\ Outputs \subseteq report.lists
        BY <2>1, <4>1 DEF ToldStands
      <4>3. ~NobodyWorks'
        BY <1>3 DEF NobodyWorks
      <4> QED BY <1>1, <1>2, <1>3, <2>2, <4>2, <4>3 DEF ToldStands, ToldOk
    <3> QED BY <3>1, <3>2
  <2> QED BY <2>2, <2>3, <2>4
<1> QED BY <1>4, <1>5, <1>6 DEF HandoffInv

(* The report is read, emptied and written back; alone at work, nothing it  *)
(* lists is lost on the way.                                                *)
LEMMA ReportKeepsInv ==
  ASSUME HandoffInv, NEW p \in Makers, LoadReport(p) \/ EmptyReport(p) \/ SaveReport(p)
  PROVE  HandoffInv'
<1>0. HandoffTypeOK
  BY DEF HandoffInv
<1>1. /\ Engaged(p) /\ maker[p] \in AtWork /\ MakesOnce(p) /\ StagesMade(p)
      /\ UNCHANGED <<document, disk, told, generations, interrupted>>
  BY AtAStep DEF HandoffInv, LoadReport, EmptyReport, SaveReport
<1>2. \A q \in Makers : q # p /\ maker'[q] = maker[q] => MakesOnce(q)' /\ StagesMade(q)'
  BY DEF HandoffInv, MakesOnce, StagesMade, Engaged, Fine
<1>3. ASSUME ~interrupted
      PROVE  Alone(p) /\ ToldStands /\ \A q \in Makers : q # p => maker[q] = Nobody
  BY <1>1, <1>3 DEF HandoffInv, Alone, Engaged
<1>4. CASE LoadReport(p)
  <2> DEFINE next == IF report.text = "whole" \/ maker[p].kind = "bundle" THEN "report" ELSE "tell"
             now == [maker[p] EXCEPT !.step = next, !.seen = report]
  <2>1. maker[p].step = "trace" /\ maker' = [maker EXCEPT ![p] = now] /\ report' = report
    BY <1>4 DEF LoadReport
  <2>2. next \in {"report", "tell"} /\ (report.text = "whole" => next = "report")
    OBVIOUS
  <2> HIDE DEF next
  <2>3. /\ now \in AtWork /\ now.step = next /\ now.kind = maker[p].kind
        /\ now.todo = maker[p].todo /\ now.made = maker[p].made /\ now.ends = maker[p].ends
    BY <1>0, <1>1, <2>2 DEF AtWork, Steps, HandoffTypeOK
  <2> HIDE DEF now
  <2>4. /\ maker'[p] = now /\ now # Nobody
        /\ \A q \in Makers : q # p => maker'[q] = maker[q]
        /\ maker' \in [Makers -> {Nobody} \cup AtWork]
    BY <1>0, <2>1, <2>3, OneMoves, WorkIsNotRest
  <2>5. maker[p].kind # "edit" /\ maker[p].todo = {}
    BY <1>1, <2>1 DEF MakesOnce, FilesOf
  <2>6. MakesOnce(p)' /\ StagesMade(p)'
    BY <1>1, <2>1, <2>2, <2>3, <2>4, <2>5 DEF MakesOnce, StagesMade, Fine, MadeBy, FilesOf
  <2>7. ASSUME ~interrupted
        PROVE  ToldStands' /\ \A q \in Makers : Engaged(q)' => Alone(q)'
    <3>1. now.step = "report"
      BY <1>3, <2>1, <2>2, <2>3, <2>7 DEF Alone
    <3>2. Alone(p)' /\ \A q \in Makers : Engaged(q)' => q = p
      BY <1>1, <1>3, <2>3, <2>4, <2>7, <3>1 DEF Alone, Engaged
    <3>3. ToldStands'
      BY <2>3, <2>4, <2>5 DEF ToldStands, Engaged
    <3> QED BY <3>2, <3>3
  <2> QED BY <1>0, <1>1, <1>2, <2>1, <2>4, <2>6, <2>7 DEF HandoffInv, HandoffTypeOK
<1>5. CASE EmptyReport(p)
  <2> DEFINE now == [maker[p] EXCEPT !.writing = "report"]
  <2>1. maker[p].step = "report" /\ maker' = [maker EXCEPT ![p] = now] /\ report' = Torn
    BY <1>5 DEF EmptyReport
  <2>2. /\ now \in AtWork /\ now.step = "report" /\ now.kind = maker[p].kind
        /\ now.todo = maker[p].todo /\ now.made = maker[p].made /\ now.ends = maker[p].ends
        /\ now.seen = maker[p].seen
    BY <1>1, <2>1 DEF AtWork
  <2> HIDE DEF now
  <2>3. /\ maker'[p] = now /\ now # Nobody
        /\ \A q \in Makers : q # p => maker'[q] = maker[q]
        /\ maker' \in [Makers -> {Nobody} \cup AtWork]
    BY <1>0, <2>1, <2>2, OneMoves, WorkIsNotRest
  <2>4. HandoffTypeOK'
    BY <1>0, <1>1, <2>1, <2>3 DEF HandoffTypeOK, Torn, ReportTexts
  <2>5. MakesOnce(p)' /\ StagesMade(p)'
    BY <1>1, <2>1, <2>2, <2>3 DEF MakesOnce, StagesMade, Fine, Engaged
  <2>6. ASSUME ~interrupted
        PROVE  ToldStands' /\ \A q \in Makers : Engaged(q)' => Alone(q)'
    <3>1. Alone(p)' /\ \A q \in Makers : Engaged(q)' => q = p
      BY <1>1, <1>3, <2>2, <2>3, <2>6 DEF Alone, Engaged
    <3>2. ~NobodyWorks'
      BY <2>3 DEF NobodyWorks
    <3>3. ToldStands'
      BY <1>1, <1>3, <2>2, <2>3, <2>6, <3>1, <3>2 DEF ToldStands, ToldOk, Engaged
    <3> QED BY <3>1, <3>3
  <2> QED BY <1>1, <1>2, <2>3, <2>4, <2>5, <2>6 DEF HandoffInv
<1>6. CASE SaveReport(p)
  <2> DEFINE told_next == [maker[p] EXCEPT !.step = "tell", !.writing = "nothing"]
             now == IF maker[p].kind = "edit" THEN Nobody ELSE told_next
  <2>1. /\ maker[p].step = "report" /\ maker' = [maker EXCEPT ![p] = now]
        /\ report' = Saved(p) \/ (SharesFile(p) /\ report' = report)
    BY <1>6 DEF SaveReport
  <2>2. /\ told_next \in AtWork /\ told_next.step = "tell" /\ told_next.kind = maker[p].kind
        /\ told_next.todo = maker[p].todo /\ told_next.made = maker[p].made
        /\ told_next.ends = maker[p].ends
    BY <1>1 DEF AtWork, Steps
  <2> HIDE DEF told_next
  <2>3. /\ maker'[p] = now
        /\ \A q \in Makers : q # p => maker'[q] = maker[q]
        /\ maker' \in [Makers -> {Nobody} \cup AtWork]
    BY <1>0, <2>1, <2>2, OneMoves
  <2>4. Saved(p) \in ReportTexts
    BY <1>1 DEF Saved, ReportTexts, AtWork
  <2>5. HandoffTypeOK'
    BY <1>0, <1>1, <2>1, <2>3, <2>4 DEF HandoffTypeOK
  <2>6. MakesOnce(p)' /\ StagesMade(p)'
    <3>1. CASE maker[p].kind = "edit"
      BY <2>3, <3>1 DEF MakesOnce, StagesMade, Engaged
    <3>2. CASE maker[p].kind # "edit"
      BY <1>1, <2>1, <2>2, <2>3, <3>2
         DEF MakesOnce, StagesMade, Fine, Engaged, MadeBy, FilesOf
    <3> QED BY <3>1, <3>2
  <2>7. ASSUME ~interrupted
        PROVE  ToldStands' /\ \A q \in Makers : Engaged(q)' => Alone(q)'
    <3>1. ~SharesFile(p)
      BY <1>3, <2>7 DEF SharesFile
    <3>2. /\ report'.text = "whole" /\ report'.lists = maker[p].seen.lists \cup maker[p].made
      BY <2>1, <3>1 DEF Saved
    <3>3. \A q \in Makers : Engaged(q)' => q = p
      BY <1>3, <2>3, <2>7 DEF Engaged
    <3>4. CASE maker[p].kind = "edit"
      <4>1. ToldOk => Outputs \subseteq disk /\ Outputs \subseteq maker[p].seen.lists
        BY <1>1, <1>3, <2>7, <3>4 DEF ToldStands, Engaged
      <4>2. \A q \in Makers : ~Engaged(q)'
        BY <2>3, <3>3, <3>4 DEF Engaged
      <4>3. ToldOk' = ToldOk
        BY <1>1 DEF ToldOk
      <4> QED BY <1>1, <3>2, <4>1, <4>2, <4>3 DEF ToldStands
    <3>5. CASE maker[p].kind # "edit"
      <4>1. Alone(p)'
        BY <1>1, <1>3, <2>2, <2>3, <2>7, <3>2, <3>3, <3>5 DEF Alone
      <4>2. ToldStands'
        BY <2>2, <2>3, <3>5, WorkIsNotRest DEF ToldStands, Engaged
      <4> QED BY <3>3, <4>1, <4>2
    <3> QED BY <3>4, <3>5
  <2> QED BY <1>1, <1>2, <2>3, <2>5, <2>6, <2>7 DEF HandoffInv
<1> QED BY <1>4, <1>5, <1>6

(* A generation that is over, told of or not, or cut off. *)
LEMMA LastStepKeepsInv ==
  ASSUME HandoffInv, NEW p \in Makers, Tell(p) \/ Abandon(p)
  PROVE  HandoffInv'
<1>0. HandoffTypeOK
  BY DEF HandoffInv
<1>1. /\ maker' = [maker EXCEPT ![p] = Nobody] /\ UNCHANGED <<document, disk, report>>
      /\ interrupted' \in {interrupted, TRUE}
  BY DEF Tell, Abandon
<1>2. /\ maker'[p] = Nobody
      /\ \A q \in Makers : q # p => maker'[q] = maker[q]
      /\ maker' \in [Makers -> {Nobody} \cup AtWork]
  BY <1>0, <1>1, OneMoves
<1>3. HandoffTypeOK'
  BY <1>0, <1>1, <1>2 DEF HandoffTypeOK
<1>4. \A q \in Makers : MakesOnce(q)' /\ StagesMade(q)'
  BY <1>2 DEF HandoffInv, MakesOnce, StagesMade, Engaged, Fine
<1>5. ASSUME ~interrupted'
      PROVE  ToldStands' /\ \A q \in Makers : Engaged(q)' => Alone(q)'
  <2>1. /\ maker[p].step = "tell" /\ ~interrupted
        /\ told' = [kind |-> maker[p].kind, status |-> Combined(maker[p].ends)]
    BY <1>5 DEF Tell, Abandon
  <2>2. Engaged(p) /\ Alone(p)
    BY <1>0, <2>1, AtAStep DEF HandoffInv
  <2>3. \A q \in Makers : ~Engaged(q)'
    BY <1>2, <2>2 DEF Alone, Engaged
  <2>4. ASSUME ToldOk'
        PROVE  Outputs \subseteq disk /\ Outputs \subseteq report.lists
    <3>1. maker[p].kind \in {"first", "retry"} /\ Combined(maker[p].ends) = "ok"
      BY <2>1, <2>4 DEF ToldOk
    <3>2. Fine(p)
      BY <3>1 DEF Combined, Fine
    <3>3. Outputs \subseteq maker[p].made
      BY <2>1, <2>2, <3>1, <3>2 DEF HandoffInv, StagesMade, Outputs
    <3> QED BY <2>1, <2>2, <3>3 DEF Alone
  <2> QED BY <1>1, <2>3, <2>4 DEF ToldStands
<1> QED BY <1>3, <1>4, <1>5 DEF HandoffInv

LEMMA HandoffStepKeepsInv ==
  ASSUME HandoffInv, HandoffNext
  PROVE  HandoffInv'
<1>1. CASE Revise
  <2>1. HandoffTypeOK'
    BY <1>1 DEF Revise, HandoffInv, HandoffTypeOK
  <2>2. \A q \in Makers : MakesOnce(q)' /\ StagesMade(q)'
    BY <1>1 DEF Revise, HandoffInv, MakesOnce, StagesMade, Engaged, Fine
  <2>3. ASSUME ~interrupted'
        PROVE  ToldStands' /\ \A q \in Makers : Engaged(q)' => Alone(q)'
    BY <1>1, <2>3 DEF Revise, HandoffInv, ToldStands, ToldOk, Alone, Engaged, NobodyWorks
  <2> QED BY <2>1, <2>2, <2>3 DEF HandoffInv
<1>2. ASSUME NEW p \in Makers, NEW kind \in {"first", "retry", "bundle"}, Begin(p, kind)
      PROVE  HandoffInv'
  BY <1>2, StartsKeepsInv DEF Begin
<1>3. ASSUME NEW p \in Makers, BeginEdit(p)
      PROVE  HandoffInv'
  BY <1>3, StartsKeepsInv DEF BeginEdit
<1> QED BY <1>1, <1>2, <1>3, StagesKeepInv, FilledKeepsInv, ReportKeepsInv, LastStepKeepsInv
        DEF HandoffNext

(* When nobody is at work and the log's latest event is of a whole          *)
(* generation that went well, every pack, prompt and bundle is whole on     *)
(* disk and listed in the report, unless one was cut off, went untold or    *)
(* met another since: for any packs and prompts, however often the outputs  *)
(* are made, the bundle alone is made again, and the report is rewritten.   *)
THEOREM OkMeansWhole == Spec => []OkIsWhole
<1>1. Init => HandoffInv
  <2> SUFFICES ASSUME Init
               PROVE  HandoffInv
    OBVIOUS
  <2>1. HandoffTypeOK
    BY DEF Init, HandoffInit, HandoffTypeOK, ReportTexts
  <2>2. \A p \in Makers : ~Engaged(p)
    BY DEF Init, HandoffInit, Engaged
  <2>3. ~ToldOk
    BY DEF Init, HandoffInit, ToldOk
  <2> QED BY <2>1, <2>2, <2>3 DEF HandoffInv, MakesOnce, StagesMade, ToldStands
<1>2. HandoffInv /\ [Next]_platformVars => HandoffInv'
  <2> SUFFICES ASSUME HandoffInv, [Next]_platformVars
               PROVE  HandoffInv'
    OBVIOUS
  <2>1. CASE UNCHANGED handoffVars
    BY <2>1 DEF handoffVars, HandoffInv, HandoffTypeOK, MakesOnce, StagesMade, Fine,
                Alone, ToldStands, ToldOk, Engaged, NobodyWorks
  <2>2. CASE HandoffNext
    BY <2>2, HandoffStepKeepsInv
  <2> QED BY <2>1, <2>2, OneComponentSteps
<1>3. HandoffInv => OkIsWhole
  BY DEF HandoffInv, ToldStands, ToldOk, OkIsWhole, NobodyWorks, Engaged
<1> QED BY <1>1, <1>2, <1>3, PTL DEF Spec, platformVars

----------------------------------------------------------------------------
(* Notifications. *)

Channels == {"feishu", "feishu_openapi", "feishu_webhook", "wecom"}
Attempt == [id : NotificationIds, channel : Channels, status : {"dispatched", "failed"}]
OnItsWay == [step : {"sending"}, id : NotificationIds, todo : Seq(Channels),
             failed : SUBSET Channels, rest : SUBSET NotificationIds,
             ends : SUBSET {"dispatched", "failed", "partial_success"}]

NotificationsTypeOK ==
    /\ config \in Configs
    /\ sender \in [Senders -> {AtEase} \cup OnItsWay]
    /\ records \in Seq(Attempt)
    /\ asked \in SUBSET NotificationIds

(* A channel has the notification, or a retry would send it. *)
Settled(id, channel) == Taken(id, channel) \/ id \in EverFailed(NotificationIds)

(* What the server is sending is settled for the channels it is through     *)
(* with.                                                                    *)
ServerIsThorough ==
    sender["server"].step = "sending" =>
        \A i \in DOMAIN ChannelsOf(config) :
            \/ Settled(sender["server"].id, ChannelsOf(config)[i])
            \/ \E j \in DOMAIN sender["server"].todo :
                  sender["server"].todo[j] = ChannelsOf(config)[i]

(* What was sent to the end is settled for all of them. *)
SentIsSettled ==
    \A id \in asked :
        \/ sender["server"].step = "sending" /\ sender["server"].id = id
        \/ \A i \in DOMAIN ChannelsOf(config) : Settled(id, ChannelsOf(config)[i])

NotificationsInv == NotificationsTypeOK /\ ServerIsThorough /\ SentIsSettled

LEMMA ChannelsAreChannels ==
  ASSUME NEW c \in Configs
  PROVE  ChannelsOf(c) \in Seq(Channels)
<1>1. c.channels \in {"webhook", "openapi", "both"}
  BY DEF Configs
<1>2. CASE c.channels = "webhook"
  BY <1>2 DEF ChannelsOf, Channels
<1>3. CASE c.channels = "openapi"
  BY <1>3 DEF ChannelsOf, Channels
<1>4. CASE c.channels = "both"
  BY <1>4 DEF ChannelsOf, Channels
<1> QED BY <1>1, <1>2, <1>3, <1>4

(* A new record settles its own channel, whatever its status, and unsettles *)
(* nothing.                                                                 *)
LEMMA RecordsSettle ==
  ASSUME records \in Seq(Attempt), NEW r \in Attempt, records' = Append(records, r)
  PROVE  /\ \A id, channel : Settled(id, channel) => Settled(id, channel)'
         /\ Settled(r.id, r.channel)'
<1>1. /\ DOMAIN records \subseteq DOMAIN records'
      /\ \A i \in DOMAIN records : records'[i] = records[i]
      /\ Len(records) + 1 \in DOMAIN records' /\ records'[Len(records) + 1] = r
  OBVIOUS
<1>2. ASSUME NEW id, NEW channel, Taken(id, channel)
      PROVE  Taken(id, channel)'
  BY <1>1, <1>2 DEF Taken, RecordsOf
<1>3. ASSUME NEW id \in EverFailed(NotificationIds)
      PROVE  id \in EverFailed(NotificationIds)'
  BY <1>1, <1>3 DEF EverFailed, RecordsOf
<1>4. CASE r.status = "dispatched"
  <2>1. Taken(r.id, r.channel)'
    BY <1>1, <1>4 DEF Taken, RecordsOf
  <2> QED BY <1>2, <1>3, <2>1 DEF Settled
<1>5. CASE r.status = "failed"
  <2>1. r.id \in EverFailed(NotificationIds)'
    BY <1>1, <1>5 DEF EverFailed, RecordsOf, Attempt
  <2> QED BY <1>2, <1>3, <2>1 DEF Settled
<1> QED BY <1>4, <1>5 DEF Attempt

(* A sender that sends to the next channel keeps a record of the attempt. *)
LEMMA SendOneKeepsInv ==
  ASSUME NotificationsInv, NEW p \in Senders, SendOne(p)
  PROVE  NotificationsInv'
<1> DEFINE was == sender[p]
           channel == Head(was.todo)
<1>1. was \in OnItsWay /\ was.todo # <<>>
  <2>1. was \in {AtEase} \cup OnItsWay /\ was.step = "sending" /\ was.todo # <<>>
    BY DEF SendOne, NotificationsInv, NotificationsTypeOK
  <2> QED BY <2>1 DEF AtEase
<1>2. channel \in Channels /\ Tail(was.todo) \in Seq(Channels)
  BY <1>1 DEF OnItsWay
<1>3. PICK o \in Outcomes(channel) :
        /\ records' = Append(records, [id |-> was.id, channel |-> channel, status |-> o.status])
        /\ sender' = [sender EXCEPT
              ![p].todo = Tail(@),
              ![p].failed = IF o.status = "failed" THEN @ \cup {channel} ELSE @]
  BY DEF SendOne
<1>4. /\ config' = config /\ asked' = asked
      /\ records \in Seq(Attempt) /\ config \in Configs
      /\ sender \in [Senders -> {AtEase} \cup OnItsWay]
  BY DEF SendOne, NotificationsInv, NotificationsTypeOK
<1>5. o.status \in {"dispatched", "failed"}
  BY DEF Outcomes, SendByWebhook, SendByOpenAPI, Silent, Lost, Posted
<1> DEFINE r == [id |-> was.id, channel |-> channel, status |-> o.status]
           now == [was EXCEPT !.todo = Tail(@),
                              !.failed = IF o.status = "failed" THEN @ \cup {channel} ELSE @]
<1>6. r \in Attempt /\ r.id = was.id /\ r.channel = channel /\ records' = Append(records, r)
  BY <1>1, <1>2, <1>3, <1>5 DEF OnItsWay, Attempt
<1>7. sender' = [sender EXCEPT ![p] = now]
  BY <1>3
<1>8. /\ now \in OnItsWay /\ now.step = "sending" /\ now.id = was.id
      /\ now.todo = Tail(was.todo)
  <2> HIDE DEF channel
  <2> QED BY <1>1, <1>2 DEF OnItsWay
<1> HIDE DEF r, now
<1>9. /\ \A id, ch : Settled(id, ch) => Settled(id, ch)'
      /\ \A id \in {was.id}, ch \in {channel} : Settled(id, ch)'
  <2> SUFFICES ASSUME NEW id, NEW ch, id = was.id, ch = channel
               PROVE  /\ \A i, c : Settled(i, c) => Settled(i, c)'
                      /\ Settled(id, ch)'
    OBVIOUS
  <2>1. PICK a \in Attempt : a = r
    BY <1>6
  <2>2. a.id = id /\ a.channel = ch /\ records' = Append(records, a)
    BY <1>6, <2>1
  <2>3. /\ \A i, c : Settled(i, c) => Settled(i, c)'
        /\ Settled(a.id, a.channel)'
    BY <1>4, <2>2, RecordsSettle
  <2> QED BY <2>2, <2>3
<1>10. NotificationsTypeOK'
  <2>1. records' \in Seq(Attempt)
    BY <1>4, <1>6
  <2>2. sender' \in [Senders -> {AtEase} \cup OnItsWay]
    BY <1>4, <1>7, <1>8
  <2> QED BY <1>4, <2>1, <2>2 DEF NotificationsInv, NotificationsTypeOK
<1>11. /\ ServerIsThorough'
       /\ sender["server"].step = "sending" => sender'["server"].step = "sending"
                                               /\ sender'["server"].id = sender["server"].id
  <2>1. "server" \in Senders
    BY DEF Senders
  <2>2. CASE p = "server"
    <3>1. sender'["server"] = now
      BY <1>4, <1>7, <2>1, <2>2
    <3>2. \A j \in DOMAIN was.todo : was.todo[j] = channel
                                   \/ \E i \in DOMAIN now.todo : now.todo[i] = was.todo[j]
      <4>1. was.todo \in Seq(Channels)
        BY <1>1 DEF OnItsWay
      <4>2. ASSUME NEW j \in DOMAIN was.todo, j # 1
            PROVE  j - 1 \in DOMAIN Tail(was.todo) /\ Tail(was.todo)[j - 1] = was.todo[j]
        BY <1>1, <4>1, <4>2
      <4>3. was.todo[1] = channel
        BY <1>1, <4>1
      <4> QED BY <1>8, <4>2, <4>3
    <3>3. \A i \in DOMAIN ChannelsOf(config) :
            \/ Settled(was.id, ChannelsOf(config)[i])
            \/ \E j \in DOMAIN was.todo : was.todo[j] = ChannelsOf(config)[i]
      BY <1>1, <2>2 DEF NotificationsInv, ServerIsThorough, OnItsWay
    <3>4. ASSUME NEW i \in DOMAIN ChannelsOf(config), NEW id, NEW ch,
                 id = was.id, ch = ChannelsOf(config)[i]
          PROVE  Settled(id, ch)' \/ \E j \in DOMAIN now.todo : now.todo[j] = ch
      <4> HIDE DEF channel, was
      <4> QED BY <1>9, <3>2, <3>3, <3>4
    <3>5. /\ sender'["server"].step = "sending" /\ sender'["server"].id = was.id
          /\ sender'["server"].todo = now.todo
      BY <1>8, <3>1
    <3>6. ASSUME NEW i \in DOMAIN ChannelsOf(config)'
          PROVE  \/ Settled(sender["server"].id, ChannelsOf(config)[i])'
                 \/ \E j \in DOMAIN sender'["server"].todo :
                       sender'["server"].todo[j] = ChannelsOf(config)'[i]
      <4>1. PICK id, ch : id = was.id /\ ch = ChannelsOf(config)[i]
        OBVIOUS
      <4>2. id = sender'["server"].id /\ ch = ChannelsOf(config)'[i]
        BY <1>4, <3>5, <4>1
      <4>3. Settled(id, ch)' \/ \E j \in DOMAIN now.todo : now.todo[j] = ch
        BY <1>4, <3>4, <3>6, <4>1
      <4> QED BY <3>5, <4>2, <4>3
    <3>7. ServerIsThorough'
      BY <3>6 DEF ServerIsThorough
    <3> QED BY <2>2, <3>5, <3>7
  <2>3. CASE p # "server"
    <3>1. sender'["server"] = sender["server"]
      BY <1>4, <1>7, <2>1, <2>3
    <3> QED BY <1>4, <1>9, <3>1 DEF NotificationsInv, ServerIsThorough
  <2> QED BY <2>2, <2>3
<1>12. SentIsSettled'
  BY <1>4, <1>9, <1>11 DEF NotificationsInv, SentIsSettled
<1> QED BY <1>10, <1>11, <1>12 DEF NotificationsInv

(* Whoever is at ease or through with its channels goes on or stops; only   *)
(* the server, before its end, may leave something unsettled, and what it   *)
(* leaves so counts as not sent.                                            *)
LEMMA OthersKeepNotificationsInv ==
  ASSUME NotificationsInv,
         \/ \E id \in NotificationIds : Dispatch(id)
         \/ \E p \in Senders : EndDispatch(p) \/ BreakOff(p)
         \/ Retry
  PROVE  NotificationsInv'
<1>0. "server" \in Senders /\ "mcp" \in Senders /\ "server" # "mcp"
  BY DEF Senders
<1>1. /\ config' = config /\ records' = records
      /\ records \in Seq(Attempt) /\ config \in Configs /\ asked \in SUBSET NotificationIds
      /\ sender \in [Senders -> {AtEase} \cup OnItsWay]
  BY DEF Dispatch, EndDispatch, BreakOff, Retry, NotificationsInv, NotificationsTypeOK
<1>2. \A id, ch : Settled(id, ch)' <=> Settled(id, ch)
  BY <1>1 DEF Settled, Taken, EverFailed, RecordsOf
<1>3. ASSUME NEW id \in NotificationIds, NEW rest \in SUBSET NotificationIds,
             NEW ends \in SUBSET {"dispatched", "failed", "partial_success"}
      PROVE  /\ Sending(id, rest, ends) \in OnItsWay
             /\ Sending(id, rest, ends).id = id /\ Sending(id, rest, ends).step = "sending"
             /\ Sending(id, rest, ends).todo = ChannelsOf(config)
  BY <1>1, ChannelsAreChannels DEF Sending, OnItsWay
<1>4. ASSUME NEW id \in NotificationIds, Dispatch(id)
      PROVE  NotificationsInv'
  <2> DEFINE now == Sending(id, {}, {})
  <2>1. /\ sender["server"] = AtEase /\ sender' = [sender EXCEPT !["server"] = now]
        /\ asked' = asked \cup {id}
    BY <1>4 DEF Dispatch
  <2>2. /\ now \in OnItsWay /\ now.id = id /\ now.step = "sending"
        /\ now.todo = ChannelsOf(config)
    BY <1>3
  <2> HIDE DEF now
  <2>3. sender'["server"] = now
    BY <1>0, <1>1, <2>1
  <2>4. NotificationsTypeOK'
    BY <1>1, <2>1, <2>2 DEF NotificationsTypeOK
  <2>5. ServerIsThorough'
    BY <1>1, <2>2, <2>3 DEF ServerIsThorough
  <2>6. SentIsSettled'
    BY <1>1, <1>2, <2>1, <2>2, <2>3 DEF NotificationsInv, SentIsSettled, AtEase
  <2> QED BY <2>4, <2>5, <2>6 DEF NotificationsInv
<1>5. ASSUME NEW p \in Senders, NEW now \in {AtEase} \cup OnItsWay,
             sender' = [sender EXCEPT ![p] = now], asked' = asked,
             p = "server" => /\ sender[p].step = "sending"
                             /\ sender[p].todo = <<>>
                             /\ now = AtEase \/ now.todo = ChannelsOf(config)
      PROVE  NotificationsInv'
  <2>1. NotificationsTypeOK'
    BY <1>1, <1>5 DEF NotificationsTypeOK
  <2>2. CASE p # "server"
    <3>1. sender'["server"] = sender["server"]
      BY <1>0, <1>1, <1>5, <2>2
    <3> QED BY <1>1, <1>2, <1>5, <2>1, <3>1
            DEF NotificationsInv, ServerIsThorough, SentIsSettled
  <2>3. CASE p = "server"
    <3>1. sender'["server"] = now
      BY <1>0, <1>1, <1>5, <2>3
    <3>2. \A i \in DOMAIN ChannelsOf(config) :
            Settled(sender["server"].id, ChannelsOf(config)[i])
      <4>1. sender["server"].step = "sending" /\ DOMAIN sender["server"].todo = {}
        BY <1>5, <2>3
      <4> QED BY <4>1 DEF NotificationsInv, ServerIsThorough
    <3>3. ServerIsThorough'
      BY <1>1, <1>5, <2>3, <3>1 DEF ServerIsThorough, AtEase
    <3>4. SentIsSettled'
      BY <1>1, <1>2, <1>5, <3>2 DEF NotificationsInv, SentIsSettled
    <3> QED BY <2>1, <3>3, <3>4 DEF NotificationsInv
  <2> QED BY <2>2, <2>3
<1>6. ASSUME NEW p \in Senders, EndDispatch(p)
      PROVE  NotificationsInv'
  <2> DEFINE ends == sender[p].ends \cup {DispatchStatus(sender[p].failed, ChannelsOf(config))}
  <2>1. /\ sender[p] \in OnItsWay /\ sender[p].step = "sending" /\ sender[p].todo = <<>>
        /\ asked' = asked
    <3>1. sender[p].step = "sending" /\ sender[p].todo = <<>> /\ asked' = asked
      BY <1>6 DEF EndDispatch
    <3> QED BY <1>1, <3>1 DEF AtEase
  <2>2. ends \in SUBSET {"dispatched", "failed", "partial_success"}
    BY <2>1 DEF OnItsWay, DispatchStatus
  <2>3. \/ sender' = [sender EXCEPT ![p] = AtEase]
        \/ \E id \in sender[p].rest :
              sender' = [sender EXCEPT ![p] = Sending(id, sender[p].rest \ {id}, ends)]
    BY <1>6 DEF EndDispatch
  <2> HIDE DEF ends
  <2>4. CASE sender' = [sender EXCEPT ![p] = AtEase]
    BY <1>5, <2>1, <2>4
  <2>5. ASSUME NEW id \in sender[p].rest,
               sender' = [sender EXCEPT ![p] = Sending(id, sender[p].rest \ {id}, ends)]
        PROVE  NotificationsInv'
    <3>1. id \in NotificationIds /\ sender[p].rest \ {id} \in SUBSET NotificationIds
      BY <2>1, <2>5 DEF OnItsWay
    <3>2. /\ Sending(id, sender[p].rest \ {id}, ends) \in OnItsWay
          /\ Sending(id, sender[p].rest \ {id}, ends).todo = ChannelsOf(config)
      BY <1>3, <2>2, <3>1
    <3> QED BY <1>5, <2>1, <2>5, <3>2
  <2> QED BY <2>3, <2>4, <2>5
<1>7. ASSUME Retry
      PROVE  NotificationsInv'
  <2>1. PICK id \in EverFailed(NotificationIds) :
          /\ sender' = [sender EXCEPT !["mcp"] =
                          Sending(id, EverFailed(NotificationIds) \ {id}, {})]
          /\ asked' = asked
    BY <1>7 DEF Retry
  <2>2. Sending(id, EverFailed(NotificationIds) \ {id}, {}) \in OnItsWay
    BY <1>3 DEF EverFailed
  <2> QED BY <1>0, <1>5, <2>1, <2>2
<1>8. ASSUME NEW p \in Senders, BreakOff(p)
      PROVE  NotificationsInv'
  <2>1. /\ sender[p].step = "sending" /\ sender' = [sender EXCEPT ![p] = AtEase]
        /\ asked' = IF p = "server" THEN asked \ {sender[p].id} ELSE asked
    BY <1>8 DEF BreakOff
  <2>2. CASE p = "server"
    <3>1. sender'["server"] = AtEase
      BY <1>0, <1>1, <2>1, <2>2
    <3>2. NotificationsTypeOK'
      BY <1>1, <2>1 DEF NotificationsTypeOK
    <3>3. ServerIsThorough'
      BY <3>1 DEF ServerIsThorough, AtEase
    <3>4. SentIsSettled'
      BY <1>1, <1>2, <2>1, <2>2 DEF NotificationsInv, SentIsSettled
    <3> QED BY <3>2, <3>3, <3>4 DEF NotificationsInv
  <2>3. CASE p # "server"
    BY <1>5, <2>1, <2>3
  <2> QED BY <2>2, <2>3
<1> QED BY <1>4, <1>6, <1>7, <1>8

(* A notification sent to the end has reached every channel of the          *)
(* environment or left a failed record that a retry finds, whatever the     *)
(* other process sends, retries or breaks off meanwhile.                    *)
THEOREM LossesAreRetriable == Spec => []LossIsRetriable
<1>1. Init => NotificationsInv
  BY DEF Init, NotificationsInit, NotificationsInv, NotificationsTypeOK, ServerIsThorough,
         SentIsSettled, AtEase, Senders
<1>2. NotificationsInv /\ [Next]_platformVars => NotificationsInv'
  <2> SUFFICES ASSUME NotificationsInv, [Next]_platformVars
               PROVE  NotificationsInv'
    OBVIOUS
  <2>1. CASE UNCHANGED notificationsVars
    BY <2>1 DEF notificationsVars, NotificationsInv, NotificationsTypeOK, ServerIsThorough,
                SentIsSettled, Settled, Taken, EverFailed, RecordsOf
  <2>2. CASE NotificationsNext
    BY <2>2, SendOneKeepsInv, OthersKeepNotificationsInv DEF NotificationsNext
  <2> QED BY <2>1, <2>2, OneComponentSteps
<1>3. NotificationsInv => LossIsRetriable
  BY DEF NotificationsInv, SentIsSettled, Settled, LossIsRetriable
<1> QED BY <1>1, <1>2, <1>3, PTL DEF Spec, platformVars

----------------------------------------------------------------------------
(* The long-term memory. *)

(* Likeness is of the kind and the topic only, and goes both ways. *)
LEMMA LikeIsSymmetric ==
  \A a, b : Like(a, b) <=> Like(b, a)
BY DEF Like, Near

LEMMA LikeIsOfKindAndTopic ==
  ASSUME NEW a, NEW b, NEW c, a.kind = b.kind, a.topic = b.topic
  PROVE  Like(a, c) <=> Like(b, c)
BY DEF Like, Near

(* What the gate keeps is a sequence in which no two are alike, and none is *)
(* like a memory it was compared with.                                      *)
LEMMA GateKeepsApart ==
  ASSUME NEW candidates, NEW existing, NEW kept \in Gatekeep(candidates, existing)
  PROVE  /\ Len(kept) \in Nat /\ DOMAIN kept = 1 .. Len(kept)
         /\ \A i \in DOMAIN kept : \A m \in existing : ~Like(kept[i], m)
         /\ \A i, j \in DOMAIN kept : i # j => ~Like(kept[i], kept[j])
<1>1. PICK passed \in Passing(candidates, existing) :
        \E o \in Ranked(passed, candidates) : kept = [i \in DOMAIN o |-> candidates[o[i]]]
  BY DEF Gatekeep
<1>2. PICK o \in Ranked(passed, candidates) : kept = [i \in DOMAIN o |-> candidates[o[i]]]
  BY <1>1
<1>3. PICK n \in 0 .. MaxKept : o \in [1 .. n -> passed]
  BY <1>2 DEF Ranked
<1>4. n \in Nat /\ DOMAIN kept = 1 .. n
  BY <1>2, <1>3, LongTermMemoryAssumption
<1>5. Len(kept) = n
  <2>1. kept \in [1 .. n -> {kept[i] : i \in 1 .. n}]
    BY <1>2, <1>3
  <2>2. kept \in Seq({kept[i] : i \in 1 .. n})
    BY <1>4, <2>1, SeqDef
  <2> QED BY <1>4, <2>2, LenProperties
<1>6. \A i \in 1 .. n : o[i] \in passed /\ kept[i] = candidates[o[i]]
  BY <1>2, <1>3
<1>7. \A i, j \in 1 .. n : i < j => o[i] # o[j]
  BY <1>3 DEF Ranked
<1>8. /\ \A k \in passed, m \in existing : ~Like(candidates[k], m)
      /\ \A k, l \in passed : l < k => ~Like(candidates[k], candidates[l])
      /\ passed \subseteq 1 .. Len(candidates)
  BY <1>1 DEF Passing
<1>9. ASSUME NEW i \in 1 .. n, NEW j \in 1 .. n, i # j
      PROVE  ~Like(kept[i], kept[j])
  <2>1. o[i] \in passed /\ o[j] \in passed /\ o[i] # o[j]
    BY <1>6, <1>7, <1>9
  <2>2. o[i] < o[j] \/ o[j] < o[i]
    BY <1>8, <2>1
  <2>3. ~Like(candidates[o[i]], candidates[o[j]])
    BY <1>8, <2>1, <2>2, LikeIsSymmetric
  <2> QED BY <1>6, <2>3
<1> QED BY <1>4, <1>5, <1>6, <1>8, <1>9

(* A memory is read by a request of its own team or project, or any at all. *)
Reaches(m, request) ==
    \/ m.scope.level = "global"
    \/ request.team # "" /\ m.scope.level = "team" /\ m.scope.team = request.team
    \/ request.project # "" /\ m.scope.level = "project" /\ m.scope.project = request.project

(* A memory of a review, while that review saves what it kept. *)
Kept(m, state) ==
    state.step = "saving" =>
        /\ m.id[2] \in 1 .. state.saved
        /\ m.kind = state.kept[m.id[2]].kind /\ m.topic = state.kept[m.id[2]].topic

Fields(scope) == [level |-> scope.level, team |-> scope.team, project |-> scope.project,
                  types |-> scope.types]

MemoriesTypeOK ==
    \A m \in memories :
        /\ m.id[1] \in Learners
        /\ learner[m.id[1]].step \in {"saving", "done"}
        /\ Kept(m, learner[m.id[1]])
        /\ m.scope = Fields(m.scope)

Saving(state) ==
    /\ state = [step |-> "saving", request |-> state.request, saved |-> state.saved,
                kept |-> state.kept]
    /\ state.saved \in Nat /\ Len(state.kept) \in Nat /\ state.saved <= Len(state.kept)
    /\ DOMAIN state.kept = 1 .. Len(state.kept)
    /\ \A i, j \in DOMAIN state.kept : i # j => ~Like(state.kept[i], state.kept[j])

LearnersTypeOK ==
    /\ learner = [r \in Learners |-> learner[r]]
    /\ \A r \in Learners :
          /\ learner[r].step \in {"new", "reviewing", "saving", "done"}
          /\ learner[r].step = "saving" => Saving(learner[r])

(* What a review is saving is unlike each memory it can read, but for those *)
(* of a review that extracted at the same time.                             *)
Unlike(state, m) == Reaches(m, state.request) =>
                       \A i \in DOMAIN state.kept : ~Like(state.kept[i], m)

ApartOrTogether ==
    \A r \in Learners : learner[r].step = "saving" =>
        /\ \A m \in memories :
              m.id[1] # r => {r, m.id[1]} \in together \/ Unlike(learner[r], m)
        /\ \A q \in Learners :
              learner[q].step = "saving" /\ q # r => {r, q} \in together

LongTermInv ==
    /\ LearnersTypeOK /\ MemoriesTypeOK
    /\ ApartOrTogether /\ OneMemoryOfAKind /\ RecallHasGround

(* The memories a request reads are those that reach it. *)
LEMMA ExistingReaches ==
  \A request : Existing(request) = {m \in memories : Reaches(m, request)}
BY DEF Existing, Reaches

(* A request reads every memory of the scope that its own would have.       *)
LEMMA SameScopeReaches ==
  ASSUME NEW request, NEW kind, NEW m, m.scope = Fields(m.scope),
         [m.scope EXCEPT !.types = {}] = [Scope(kind, request) EXCEPT !.types = {}]
  PROVE  Reaches(m, request)
<1> DEFINE s == Scope(kind, request)
           level == LevelOf(kind, request)
<1>1. /\ s = Fields(s) /\ s.level = level
      /\ s.team = IF level = "team" THEN request.team ELSE ""
      /\ s.project = IF level = "project" THEN request.project ELSE ""
  BY DEF Scope, Fields
<1>2. /\ level \in {"team", "project", "global"}
      /\ level = "team" => request.team # ""
      /\ level = "project" => request.project # ""
  BY DEF LevelOf
<1> HIDE DEF s, level
<1>3. m.scope.level = s.level /\ m.scope.team = s.team /\ m.scope.project = s.project
  <2>1. [m.scope EXCEPT !.types = {}] = [s EXCEPT !.types = {}]
    BY DEF s
  <2>2. /\ m.scope.level = [m.scope EXCEPT !.types = {}].level
        /\ m.scope.team = [m.scope EXCEPT !.types = {}].team
        /\ m.scope.project = [m.scope EXCEPT !.types = {}].project
    BY DEF Fields
  <2>3. /\ s.level = [s EXCEPT !.types = {}].level
        /\ s.team = [s EXCEPT !.types = {}].team
        /\ s.project = [s EXCEPT !.types = {}].project
    BY <1>1 DEF Fields
  <2> QED BY <2>1, <2>2, <2>3
<1> QED BY <1>1, <1>2, <1>3 DEF Reaches

(* The points for the kind of a memory alone never reach a threshold: what   *)
(* is chosen has a scope or a surface in common with the request.            *)
LEMMA ChosenHaveGround ==
  ASSUME NEW request, NEW mode, NEW c \in Chosen(request, mode), NEW m \in c
  PROVE  /\ m \in memories
         /\ OfScope(m, request) > 0 \/ OfSurface(m, request) > 0
         /\ Reaches(m, request) \/ request.type \in m.scope.types
<1>1. m \in Fitting(request, mode)
  BY DEF Chosen
<1>2. /\ m \in memories
      /\ Reaches(m, request) \/ request.type \in m.scope.types
      /\ Score(m, request, mode) >= Threshold(mode)
  BY <1>1, ExistingReaches DEF Fitting, ByType
<1>3. OfScope(m, request) \in Nat /\ OfSurface(m, request) \in Nat
  <2>1. OfScope(m, request) \in {10000, 7500, 4500, 0}
    BY DEF OfScope
  <2>2. Shared(m, request) \in {60, 20, 0}
    BY DEF Shared
  <2> QED BY <2>1, <2>2 DEF OfSurface
<1>4. /\ Reuse(m.kind) * 18 \in {1620, 1548, 1494, 846}
      /\ Confidence(m.kind) * 14 \in {1036, 1064, 1008, 854}
      /\ OfMode(m, mode) \in {1000, 800, 0} /\ Threshold(mode) \in {7000, 6600, 6000}
  BY DEF Reuse, Confidence, OfMode, Threshold
<1>5. ASSUME NEW s \in Nat, NEW f \in Nat, NEW a \in {1620, 1548, 1494, 846},
             NEW b \in {1036, 1064, 1008, 854}, NEW c1 \in {1000, 800, 0},
             NEW h \in {7000, 6600, 6000}, s + f + a + b + c1 >= h
      PROVE  s > 0 \/ f > 0
  <2>1. a <= 1620 /\ b <= 1064 /\ c1 <= 1000 /\ h >= 6000 /\ a \in Nat /\ b \in Nat
        /\ c1 \in Nat /\ h \in Nat
    OBVIOUS
  <2> QED BY <1>5, <2>1
<1>6. OfScope(m, request) > 0 \/ OfSurface(m, request) > 0
  <2>1. OfScope(m, request) + OfSurface(m, request) + Reuse(m.kind) * 18
          + Confidence(m.kind) * 14 + OfMode(m, mode) >= Threshold(mode)
    BY <1>2 DEF Score
  <2> QED BY <1>3, <1>4, <1>5, <2>1
<1> QED BY <1>2, <1>6

(* A review that begins, or has no more to save, changes nothing for the     *)
(* others.                                                                   *)
LEMMA OutsideKeepsInv ==
  ASSUME LongTermInv, NEW r \in Learners, NEW now,
         learner' = [learner EXCEPT ![r] = now], memories' = memories, together' = together,
         \/ now.step = "done"
         \/ /\ now.step = "reviewing" /\ learner[r].step = "new"
            /\ \A m \in now.recalled :
                  /\ OfScope(m, now.request) > 0 \/ OfSurface(m, now.request) > 0
                  /\ m \in Existing(now.request) \/ now.request.type \in m.scope.types
  PROVE  LongTermInv'
<1>1. /\ learner' = [q \in Learners |-> IF q = r THEN now ELSE learner[q]]
      /\ learner'[r] = now /\ \A q \in Learners \ {r} : learner'[q] = learner[q]
  BY DEF LongTermInv, LearnersTypeOK
<1>2. LearnersTypeOK'
  BY <1>1 DEF LongTermInv, LearnersTypeOK
<1>3. MemoriesTypeOK'
  <2> SUFFICES ASSUME NEW m \in memories
               PROVE  /\ m.id[1] \in Learners
                      /\ learner'[m.id[1]].step \in {"saving", "done"}
                      /\ Kept(m, learner'[m.id[1]])
                      /\ m.scope = Fields(m.scope)
    BY DEF MemoriesTypeOK
  <2>1. /\ m.id[1] \in Learners /\ learner[m.id[1]].step \in {"saving", "done"}
        /\ Kept(m, learner[m.id[1]]) /\ m.scope = Fields(m.scope)
    BY DEF LongTermInv, MemoriesTypeOK
  <2> QED BY <1>1, <2>1 DEF Kept
<1>4. ApartOrTogether'
  BY <1>1 DEF LongTermInv, ApartOrTogether
<1>5. OneMemoryOfAKind'
  BY DEF LongTermInv, OneMemoryOfAKind
<1>6. RecallHasGround'
  <2>1. \A request : Existing(request)' = Existing(request)
    BY DEF Existing
  <2> QED BY <1>1, <2>1 DEF LongTermInv, RecallHasGround
<1> QED BY <1>2, <1>3, <1>4, <1>5, <1>6 DEF LongTermInv

(* A review that extracts keeps nothing like a memory it can read, and is   *)
(* noted as extracting together with all that have not finished.            *)
LEMMA ExtractKeepsInv ==
  ASSUME LongTermInv, NEW r \in Learners, Extract(r)
  PROVE  LongTermInv'
<1> DEFINE request == learner[r].request
<1>0. PICK result \in Results :
        \E kept \in Gatekeep(Candidates(result), Existing(request)) :
           learner' = [learner EXCEPT ![r] =
               [step |-> "saving", request |-> request, saved |-> 0, kept |-> kept]]
  BY DEF Extract
<1>1. PICK kept \in Gatekeep(Candidates(result), Existing(request)) :
        learner' = [learner EXCEPT ![r] =
            [step |-> "saving", request |-> request, saved |-> 0, kept |-> kept]]
  BY <1>0
<1> DEFINE now == [step |-> "saving", request |-> request, saved |-> 0, kept |-> kept]
<1>2. /\ learner[r].step = "reviewing" /\ memories' = memories
      /\ together' = together \cup {{r, q} : q \in Extracting}
  BY DEF Extract
<1>3. /\ Len(kept) \in Nat /\ DOMAIN kept = 1 .. Len(kept)
      /\ \A i \in DOMAIN kept : \A m \in Existing(request) : ~Like(kept[i], m)
      /\ \A i, j \in DOMAIN kept : i # j => ~Like(kept[i], kept[j])
  BY GateKeepsApart
<1>4. now.step = "saving" /\ Saving(now) /\ \A m \in memories : Unlike(now, m)
  <2>1. now.step = "saving" /\ now.request = request /\ now.saved = 0 /\ now.kept = kept
    OBVIOUS
  <2>2. Saving(now)
    BY <1>3, <2>1 DEF Saving
  <2>3. \A m \in memories : Unlike(now, m)
    BY <1>3, <2>1, ExistingReaches DEF Unlike
  <2> QED BY <2>1, <2>2, <2>3
<1>5. /\ learner' = [q \in Learners |-> IF q = r THEN now ELSE learner[q]]
      /\ learner'[r] = now /\ \A q \in Learners \ {r} : learner'[q] = learner[q]
  BY <1>1 DEF LongTermInv, LearnersTypeOK
<1> HIDE DEF now, request
<1>6. LearnersTypeOK'
  BY <1>4, <1>5 DEF LongTermInv, LearnersTypeOK
<1>7. \A m \in memories : m.id[1] \in Learners \ {r}
  BY <1>2 DEF LongTermInv, MemoriesTypeOK
<1>8. MemoriesTypeOK'
  <2> SUFFICES ASSUME NEW m \in memories
               PROVE  /\ m.id[1] \in Learners
                      /\ learner'[m.id[1]].step \in {"saving", "done"}
                      /\ Kept(m, learner'[m.id[1]])
                      /\ m.scope = Fields(m.scope)
    BY <1>2 DEF MemoriesTypeOK
  <2>1. learner'[m.id[1]] = learner[m.id[1]]
    BY <1>5, <1>7
  <2> QED BY <2>1 DEF LongTermInv, MemoriesTypeOK
<1>9. ApartOrTogether'
  <2>1. \A q \in Learners : learner[q].step = "saving" => {r, q} \in together'
    BY <1>2 DEF Extracting
  <2>2. ASSUME NEW q \in Learners, learner'[q].step = "saving", NEW m \in memories, m.id[1] # q
        PROVE  {q, m.id[1]} \in together' \/ Unlike(learner'[q], m)
    <3>1. CASE q = r
      BY <1>4, <1>5, <3>1
    <3>2. CASE q # r
      <4>1. learner'[q] = learner[q]
        BY <1>5, <3>2
      <4>2. {q, m.id[1]} \in together \/ Unlike(learner[q], m)
        BY <2>2, <4>1 DEF LongTermInv, ApartOrTogether
      <4> QED BY <1>2, <4>1, <4>2
    <3> QED BY <3>1, <3>2
  <2>3. ASSUME NEW q \in Learners, learner'[q].step = "saving",
               NEW o \in Learners, learner'[o].step = "saving", o # q
        PROVE  {q, o} \in together'
    <3>1. CASE q = r
      BY <1>5, <2>1, <2>3, <3>1
    <3>2. CASE o = r
      <4>1. {r, q} \in together' /\ {r, q} = {q, o}
        BY <1>5, <2>1, <2>3, <3>2
      <4> QED BY <4>1
    <3>3. CASE q # r /\ o # r
      BY <1>2, <1>5, <2>3, <3>3 DEF LongTermInv, ApartOrTogether
    <3> QED BY <3>1, <3>2, <3>3
  <2> QED BY <1>2, <2>2, <2>3 DEF ApartOrTogether
<1>10. OneMemoryOfAKind'
  BY <1>2 DEF LongTermInv, OneMemoryOfAKind
<1>11. RecallHasGround'
  <2>1. \A q : Existing(q)' = Existing(q)
    BY <1>2 DEF Existing
  <2> QED BY <1>4, <1>5, <2>1 DEF LongTermInv, RecallHasGround
<1> QED BY <1>6, <1>8, <1>9, <1>10, <1>11 DEF LongTermInv

(* A memory that is saved is new to the table, and unlike each memory of    *)
(* its scope but those of the reviews that extracted with its own.          *)
LEMMA SaveMemoryKeepsInv ==
  ASSUME LongTermInv, NEW r \in Learners, SaveMemory(r)
  PROVE  LongTermInv'
<1> DEFINE was == learner[r]
           i == was.saved + 1
           new == [id |-> <<r, i>>, kind |-> was.kept[i].kind, topic |-> was.kept[i].topic,
                   scope |-> Scope(was.kept[i].kind, was.request)]
           now == [was EXCEPT !.saved = @ + 1]
<1>1. /\ was.step = "saving" /\ was.saved < Len(was.kept) /\ memories' = Upsert(new)
      /\ learner' = [learner EXCEPT ![r] = now] /\ together' = together
  BY DEF SaveMemory
<1>2. Saving(was)
  BY <1>1 DEF LongTermInv, LearnersTypeOK
<1>3. i \in DOMAIN was.kept /\ i \in Nat /\ i = was.saved + 1 /\ was.saved \in Nat
  BY <1>1, <1>2 DEF Saving
<1>4. /\ now.step = "saving" /\ now.request = was.request /\ now.kept = was.kept
      /\ now.saved = was.saved + 1 /\ Saving(now)
  <2>1. /\ now.step = "saving" /\ now.request = was.request /\ now.kept = was.kept
        /\ now.saved = was.saved + 1
        /\ now = [step |-> "saving", request |-> now.request, saved |-> now.saved,
                  kept |-> now.kept]
    BY <1>2 DEF Saving
  <2>2. now.saved \in Nat /\ now.saved <= Len(now.kept)
    <3>1. Len(was.kept) \in Nat
      BY <1>2 DEF Saving
    <3> QED BY <1>1, <1>3, <2>1, <3>1
  <2> HIDE DEF now
  <2> QED BY <1>2, <2>1, <2>2 DEF Saving
<1>5. /\ new.id[1] = r /\ new.id[2] = i
      /\ new.kind = was.kept[i].kind /\ new.topic = was.kept[i].topic
      /\ new.scope = Scope(new.kind, was.request) /\ new.scope = Fields(new.scope)
  BY DEF Scope, Fields
<1> HIDE DEF now
<1>6. /\ learner' = [q \in Learners |-> IF q = r THEN now ELSE learner[q]]
      /\ learner'[r] = now /\ \A q \in Learners \ {r} : learner'[q] = learner[q]
  BY <1>1 DEF LongTermInv, LearnersTypeOK
<1>7. memories' = memories \cup {new}
  <2>1. ASSUME NEW m \in memories
        PROVE  m.id # new.id
    <3>1. CASE m.id[1] = r
      <4>1. m.id[2] \in 1 .. was.saved
        BY <1>1, <3>1 DEF LongTermInv, MemoriesTypeOK, Kept
      <4> QED BY <1>3, <1>5, <4>1
    <3>2. CASE m.id[1] # r
      BY <1>5, <3>2
    <3> QED BY <3>1, <3>2
  <2> HIDE DEF new
  <2> QED BY <1>1, <2>1 DEF Upsert
<1> HIDE DEF new, i, was
<1>8. LearnersTypeOK'
  BY <1>4, <1>6 DEF LongTermInv, LearnersTypeOK
<1>9. MemoriesTypeOK'
  <2> SUFFICES ASSUME NEW m \in memories \cup {new}
               PROVE  /\ m.id[1] \in Learners
                      /\ learner'[m.id[1]].step \in {"saving", "done"}
                      /\ Kept(m, learner'[m.id[1]])
                      /\ m.scope = Fields(m.scope)
    BY <1>7 DEF MemoriesTypeOK
  <2>1. CASE m = new
    BY <1>3, <1>4, <1>5, <1>6, <2>1 DEF Kept
  <2>2. CASE m \in memories
    <3>1. /\ m.id[1] \in Learners /\ learner[m.id[1]].step \in {"saving", "done"}
          /\ Kept(m, learner[m.id[1]]) /\ m.scope = Fields(m.scope)
      BY <2>2 DEF LongTermInv, MemoriesTypeOK
    <3>2. CASE m.id[1] = r
      <4>1. Kept(m, was)
        BY <3>1, <3>2 DEF was
      <4>2. Kept(m, now)
        BY <1>1, <1>3, <1>4, <4>1 DEF Kept
      <4> QED BY <1>4, <1>6, <3>1, <3>2, <4>2
    <3>3. CASE m.id[1] # r
      BY <1>6, <3>1, <3>3
    <3> QED BY <3>2, <3>3
  <2> QED BY <2>1, <2>2
<1>10. /\ \A m \in memories : m.id[1] # r => {r, m.id[1]} \in together \/ Unlike(was, m)
       /\ \A q \in Learners : learner[q].step = "saving" /\ q # r => {r, q} \in together
  BY <1>1 DEF LongTermInv, ApartOrTogether, was
<1>11. ApartOrTogether'
  <2>1. \A q \in Learners : /\ learner'[q].step = learner[q].step
                            /\ learner'[q].request = learner[q].request \/ q # r
    BY <1>1, <1>4, <1>6 DEF was
  <2>2. ASSUME NEW q \in Learners, learner'[q].step = "saving",
               NEW m \in memories', m.id[1] # q
        PROVE  {q, m.id[1]} \in together' \/ Unlike(learner'[q], m)
    <3>1. CASE m = new
      <4>1. {r, q} \in together /\ {r, q} = {q, m.id[1]}
        BY <1>5, <1>10, <2>1, <2>2, <3>1
      <4> QED BY <1>1, <4>1
    <3>2. CASE m \in memories /\ q = r
      <4>1. {r, m.id[1]} \in together \/ Unlike(was, m)
        BY <1>10, <2>2, <3>2
      <4>2. Unlike(was, m) => Unlike(now, m)
        BY <1>4 DEF Unlike
      <4> QED BY <1>1, <1>6, <3>2, <4>1, <4>2
    <3>3. CASE m \in memories /\ q # r
      <4>1. {q, m.id[1]} \in together \/ Unlike(learner[q], m)
        BY <2>1, <2>2, <3>3 DEF LongTermInv, ApartOrTogether
      <4> QED BY <1>1, <1>6, <3>3, <4>1
    <3> QED BY <1>7, <3>1, <3>2, <3>3
  <2>3. ASSUME NEW q \in Learners, learner'[q].step = "saving",
               NEW o \in Learners, learner'[o].step = "saving", o # q
        PROVE  {q, o} \in together'
    BY <1>1, <2>1, <2>3 DEF LongTermInv, ApartOrTogether
  <2> QED BY <2>2, <2>3 DEF ApartOrTogether
<1>12. ASSUME NEW m \in memories, Like(m, new),
              [m.scope EXCEPT !.types = {}] = [new.scope EXCEPT !.types = {}]
       PROVE  {r, m.id[1]} \in together
  <2>1. Like(m, was.kept[i])
    <3>1. \A c : Like(new, c) <=> Like(was.kept[i], c)
      BY <1>5, LikeIsOfKindAndTopic
    <3> QED BY <1>12, <3>1, LikeIsSymmetric
  <2>2. m.scope = Fields(m.scope) /\ Kept(m, learner[m.id[1]])
    BY DEF LongTermInv, MemoriesTypeOK
  <2>3. CASE m.id[1] = r
    <3>1. /\ m.id[2] \in 1 .. was.saved
          /\ m.kind = was.kept[m.id[2]].kind /\ m.topic = was.kept[m.id[2]].topic
      BY <1>1, <2>2, <2>3 DEF Kept, was
    <3>2. Like(was.kept[m.id[2]], was.kept[i])
      BY <2>1, <3>1, LikeIsOfKindAndTopic
    <3>3. m.id[2] \in DOMAIN was.kept /\ m.id[2] # i
      BY <1>2, <1>3, <3>1 DEF Saving
    <3> QED BY <1>2, <1>3, <3>2, <3>3 DEF Saving
  <2>4. CASE m.id[1] # r
    <3>1. Reaches(m, was.request)
      BY <1>5, <1>12, <2>2, SameScopeReaches
    <3>2. ~Unlike(was, m)
      BY <1>3, <2>1, <3>1, LikeIsSymmetric DEF Unlike
    <3> QED BY <1>10, <2>4, <3>2
  <2> QED BY <2>3, <2>4
<1>13. OneMemoryOfAKind'
  <2> SUFFICES ASSUME NEW a \in memories', NEW b \in memories', a # b, Like(a, b),
                      [a.scope EXCEPT !.types = {}] = [b.scope EXCEPT !.types = {}]
               PROVE  {a.id[1], b.id[1]} \in together
    BY <1>1 DEF OneMemoryOfAKind
  <2>1. CASE a \in memories /\ b \in memories
    BY <2>1 DEF LongTermInv, OneMemoryOfAKind
  <2>2. CASE a \in memories /\ b = new
    <3>1. {r, a.id[1]} \in together
      BY <1>12, <2>2
    <3>2. {r, a.id[1]} = {a.id[1], b.id[1]}
      BY <1>5, <2>2
    <3> QED BY <3>1, <3>2
  <2>3. CASE b \in memories /\ a = new
    <3>1. {r, b.id[1]} \in together
      BY <1>12, <2>3, LikeIsSymmetric
    <3> QED BY <1>5, <2>3, <3>1
  <2> QED BY <1>7, <2>1, <2>2, <2>3
<1>14. RecallHasGround'
  <2>1. \A q : Existing(q) \subseteq Existing(q)'
    BY <1>7 DEF Existing
  <2> QED BY <1>4, <1>6, <2>1 DEF LongTermInv, RecallHasGround
<1> QED BY <1>8, <1>9, <1>11, <1>13, <1>14 DEF LongTermInv

(* Whatever the reviews that run at the same time do, the memory of one     *)
(* kind and scope stays without likes and what is recalled has a ground.    *)
LEMMA LongTermInvHolds == Spec => []LongTermInv
<1>1. Init => LongTermInv
  BY DEF Init, LongTermInit, LongTermInv, LearnersTypeOK, MemoriesTypeOK, ApartOrTogether,
         OneMemoryOfAKind, RecallHasGround
<1>2. LongTermInv /\ [Next]_platformVars => LongTermInv'
  <2> SUFFICES ASSUME LongTermInv, [Next]_platformVars
               PROVE  LongTermInv'
    OBVIOUS
  <2>1. CASE UNCHANGED longTermVars
    <3>1. memories' = memories /\ learner' = learner /\ together' = together
      BY <2>1 DEF longTermVars
    <3>2. LearnersTypeOK' /\ MemoriesTypeOK' /\ ApartOrTogether' /\ OneMemoryOfAKind'
      BY <3>1 DEF LongTermInv, LearnersTypeOK, MemoriesTypeOK, ApartOrTogether,
                  OneMemoryOfAKind
    <3>3. RecallHasGround'
      BY <3>1 DEF LongTermInv, RecallHasGround, Existing
    <3> QED BY <3>2, <3>3 DEF LongTermInv
  <2>2. ASSUME NEW r \in Learners, Recall(r)
        PROVE  LongTermInv'
    <3>1. learner[r].step = "new" /\ memories' = memories /\ together' = together
      BY <2>2 DEF Recall
    <3>2. PICK request, mode, c : /\ c \in {{}} \cup Chosen(request, mode)
                                  /\ learner' = [learner EXCEPT ![r] =
                                       [step |-> "reviewing", request |-> request,
                                        recalled |-> c]]
      BY <2>2 DEF Recall
    <3> DEFINE now == [step |-> "reviewing", request |-> request, recalled |-> c]
    <3>3. \A m \in c : /\ OfScope(m, request) > 0 \/ OfSurface(m, request) > 0
                       /\ m \in Existing(request) \/ request.type \in m.scope.types
      BY <3>2, ChosenHaveGround, ExistingReaches
    <3>4. now.step = "reviewing" /\ now.request = request /\ now.recalled = c
      OBVIOUS
    <3>5. learner' = [learner EXCEPT ![r] = now]
      BY <3>2
    <3> HIDE DEF now
    <3> QED BY <3>1, <3>3, <3>4, <3>5, OutsideKeepsInv
  <2>3. ASSUME NEW r \in Learners, Unroutable(r) \/ EndExtraction(r)
        PROVE  LongTermInv'
    <3>1. PICK now : /\ now = [step |-> "done"]
                     /\ learner' = [learner EXCEPT ![r] = now]
                     /\ memories' = memories /\ together' = together
      BY <2>3 DEF Unroutable, EndExtraction
    <3>2. now.step = "done"
      BY <3>1
    <3> QED BY <3>1, <3>2, OutsideKeepsInv
  <2>4. CASE LongTermNext
    BY <2>2, <2>3, <2>4, ExtractKeepsInv, SaveMemoryKeepsInv DEF LongTermNext
  <2> QED BY <2>1, <2>4, OneComponentSteps
<1> QED BY <1>1, <1>2, PTL DEF Spec, platformVars

(* No review saves a memory like one of the same scope that it could read:  *)
(* two memories of a kind come only from reviews that extracted at the same *)
(* time.                                                                    *)
THEOREM MemoriesAreOfOneKind == Spec => []OneMemoryOfAKind
BY LongTermInvHolds, PTL DEF LongTermInv

(* What a review recalls, however the table changes afterwards, had and     *)
(* keeps a ground in the scope or the surface of its request.               *)
THEOREM RecalledHasGround == Spec => []RecallHasGround
BY LongTermInvHolds, PTL DEF LongTermInv

----------------------------------------------------------------------------
(* The project space: its materials, the providers' settings and those of a *)
(* connector.  Only a restart is a step of two of them.                     *)

spaceVars == <<materialsVars, settingsVars, connectorVars>>

(* A step of the space is one of the materials, of the providers' settings  *)
(* or of the connector, whose restarts are also the settings'.              *)
LEMMA OneOfTheSpaceSteps ==
  ASSUME [SpaceNext]_spaceVars
  PROVE  /\ MaterialsNext \/ UNCHANGED materialsVars
         /\ SettingsNext \/ UNCHANGED settingsVars
         /\ ConnectorNext \/ UNCHANGED connectorVars
<1>1. CASE SpaceNext
  <2>1. ConnectorNext => SettingsNext \/ UNCHANGED settingsVars
    BY DEF ConnectorNext, SettingsNext
  <2> QED BY <1>1, <2>1 DEF SpaceNext
<1>2. CASE UNCHANGED spaceVars BY <1>2 DEF spaceVars
<1> QED BY <1>1, <1>2

----------------------------------------------------------------------------
(* The least and the greatest of numbers: what a CHOOSE of one finds. *)

LEMMA LeastOfNaturals ==
  ASSUME NEW S \in SUBSET Nat, S # {}
  PROVE  \E x \in S : \A y \in S : x <= y
<1> DEFINE R == {ss \in Nat \X Nat : ss[1] < ss[2]}
<1>1. IsWellFoundedOn(R, Nat) BY NatLessThanWellFounded DEF OpToRel
<1>2. PICK x \in S : \A y \in S : ~ (<<y, x>> \in R)
  <2> HIDE DEF R
  <2> QED BY <1>1, WFMin
<1>3. \A y \in S : ~ (y < x)
  <2> TAKE y \in S
  <2>1. x \in Nat /\ y \in Nat OBVIOUS
  <2>2. ~ (<<y, x>> \in R) BY <1>2
  <2> QED BY <2>1, <2>2
<1>4. \A y \in S : x <= y BY <1>3
<1> QED BY <1>4

LEMMA GreatestOfNaturals ==
  ASSUME NEW S \in SUBSET Nat, S # {}, NEW n \in Nat, \A x \in S : x <= n
  PROVE  Max(S) \in S /\ \A y \in S : y <= Max(S)
<1> DEFINE T == {n - x : x \in S}
<1>1. T \in SUBSET Nat
  <2>1. \A x \in S : x \in Nat /\ x <= n OBVIOUS
  <2>2. \A x \in S : n - x \in Nat BY <2>1
  <2> QED BY <2>2
<1>2. T # {} OBVIOUS
<1>3. PICK t \in T : \A u \in T : t <= u
  <2> HIDE DEF T
  <2> QED BY <1>1, <1>2, LeastOfNaturals
<1>4. PICK x \in S : t = n - x OBVIOUS
<1>5. \A y \in S : n - y \in T OBVIOUS
<1>6. \A y \in S : x >= y
  <2> HIDE DEF T
  <2> QED BY <1>3, <1>4, <1>5
<1>7. \E z \in S : \A y \in S : z >= y BY <1>6
<1>8. Max(S) \in S /\ \A y \in S : Max(S) >= y BY <1>7 DEF Max
<1> QED BY <1>8

----------------------------------------------------------------------------
(* The materials. *)

Rows == [title : Titles, content : Int, url : BOOLEAN, version : Nat, parent : Nat,
         counted : BOOLEAN, seen : Nat]
Asked == {"asked", "started", "linked"}

Reading(w) == writer[w].step = "read"

(* A row read for later is one of the rows that may be inserted. *)
MaterialsTypeOK ==
  /\ sources \in Seq(Rows \cup {Deleted})
  /\ DOMAIN writer = Writers
  /\ \A w \in Writers : Reading(w) => writer[w].source \in Rows

(* A version is never above the number of its row, and a row of the past was *)
(* there when what was counted up above it was read.                         *)
VersionsInv ==
  /\ \A s \in Present : sources[s].version <= s
  /\ \A s, t \in Present :
       /\ s <= sources[t].seen /\ sources[s].counted /\ sources[t].counted
       /\ sources[s].title = sources[t].title
       => sources[s].version < sources[t].version
  /\ \A t \in Present : sources[t].seen < t

ReadInv == \A w \in Writers : Reading(w) =>
  LET new == writer[w].source
  IN  /\ new.seen <= Len(sources) /\ new.version <= new.seen + 1
      /\ \A s \in Present :
           /\ s <= new.seen /\ sources[s].counted /\ new.counted
           /\ sources[s].title = new.title
           => sources[s].version < new.version

(* The text a review has read is in its row, as long as that is kept. *)
TextInv == \A r \in DOMAIN reviews : reviews[r].step \in Asked =>
  /\ reviews[r].id \in DOMAIN sources
  /\ reviews[r].id \in Present =>
       sources[reviews[r].id].content \in {reviews[r].text, Document}

MaterialsInv == MaterialsTypeOK /\ VersionsInv /\ ReadInv /\ TextInv

LEMMA RowsAreThere ==
  ASSUME MaterialsTypeOK
  PROVE  /\ Len(sources) \in Nat /\ DOMAIN sources = 1 .. Len(sources)
         /\ Present \subseteq 1 .. Len(sources)
         /\ \A s \in Present : sources[s] \in Rows
BY DEF MaterialsTypeOK, Present

LEMMA RowsAreNotDeleted == \A new \in Rows : new # Deleted
<1> TAKE new \in Rows
<1>1. "version" \in DOMAIN new BY DEF Rows
<1>2. "version" \notin DOMAIN Deleted BY DEF Deleted
<1> QED BY <1>1, <1>2

(* No row is read anew. *)
ReadsKept ==
  /\ DOMAIN writer' = Writers
  /\ \A w \in Writers :
       writer'[w].step = "read" => Reading(w) /\ writer'[w].source = writer[w].source

(* Rows are edited or deleted: what was counted of a row stays what it was. *)
RowsKept ==
  /\ sources' \in Seq(Rows \cup {Deleted}) /\ Len(sources') = Len(sources)
  /\ \A s \in DOMAIN sources' : sources'[s] # Deleted =>
       /\ sources[s] # Deleted
       /\ sources'[s].version = sources[s].version /\ sources'[s].seen = sources[s].seen
       /\ sources'[s].counted => sources[s].counted /\ sources'[s].title = sources[s].title
       /\ sources'[s].content = sources[s].content \/ sources'[s].content = Document

(* No request has read a text anew. *)
TextsKept ==
  \A r \in DOMAIN reviews' : reviews'[r].step \in Asked =>
    /\ r \in DOMAIN reviews /\ reviews[r].step \in Asked
    /\ reviews'[r].id = reviews[r].id /\ reviews'[r].text = reviews[r].text

LEMMA SameRowsKept == ASSUME MaterialsInv, UNCHANGED sources PROVE RowsKept
BY DEF MaterialsInv, MaterialsTypeOK, RowsKept

LEMMA SameReadsKept == ASSUME MaterialsTypeOK, UNCHANGED writer PROVE ReadsKept
BY DEF ReadsKept, Reading, MaterialsTypeOK

LEMMA SameTextsKept == UNCHANGED reviews => TextsKept
BY DEF TextsKept

LEMMA EditsKeep ==
  ASSUME MaterialsInv, RowsKept, ReadsKept, TextsKept
  PROVE  MaterialsInv'
<1> USE DEF MaterialsInv
<1>1. MaterialsTypeOK' BY DEF MaterialsTypeOK, RowsKept, ReadsKept, Reading
<1>2. /\ DOMAIN sources' = DOMAIN sources
      /\ Present' \subseteq Present /\ Present' \subseteq DOMAIN sources'
      /\ \A s \in Present' : sources'[s] # Deleted
  BY DEF RowsKept, Present, MaterialsTypeOK
<1>3. VersionsInv'
  <2>1. \A s \in Present' :
          /\ s \in Present
          /\ sources'[s].version = sources[s].version /\ sources'[s].seen = sources[s].seen
          /\ sources'[s].counted => sources[s].counted /\ sources'[s].title = sources[s].title
    BY <1>2 DEF RowsKept
  <2> HIDE DEF MaterialsInv
  <2>2. VersionsInv BY DEF MaterialsInv
  <2> QED BY <2>1, <2>2 DEF VersionsInv
<1>4. ReadInv'
  <2> SUFFICES ASSUME NEW w \in Writers, writer'[w].step = "read"
               PROVE  /\ writer'[w].source.seen <= Len(sources')
                      /\ writer'[w].source.version <= writer'[w].source.seen + 1
                      /\ \A s \in Present' :
                           /\ s <= writer'[w].source.seen /\ sources'[s].counted
                           /\ writer'[w].source.counted
                           /\ sources'[s].title = writer'[w].source.title
                           => sources'[s].version < writer'[w].source.version
    BY DEF ReadInv, Reading
  <2>1. Reading(w) /\ writer'[w].source = writer[w].source BY DEF ReadsKept
  <2>2. \A s \in Present' :
          /\ s \in Present /\ sources'[s].version = sources[s].version
          /\ sources'[s].counted => sources[s].counted /\ sources'[s].title = sources[s].title
    BY <1>2 DEF RowsKept
  <2> QED BY <2>1, <2>2 DEF ReadInv, RowsKept
<1>5. TextInv'
  <2> SUFFICES ASSUME NEW r \in DOMAIN reviews', reviews'[r].step \in Asked
               PROVE  /\ reviews'[r].id \in DOMAIN sources'
                      /\ reviews'[r].id \in Present' =>
                           sources'[reviews'[r].id].content \in {reviews'[r].text, Document}
    BY DEF TextInv
  <2>1. /\ r \in DOMAIN reviews /\ reviews[r].step \in Asked
        /\ reviews'[r].id = reviews[r].id /\ reviews'[r].text = reviews[r].text
    BY DEF TextsKept
  <2>2. \A s \in Present' :
          /\ s \in Present
          /\ sources'[s].content = sources[s].content \/ sources'[s].content = Document
    BY <1>2 DEF RowsKept
  <2> QED BY <1>2, <2>1, <2>2 DEF TextInv
<1> QED BY <1>1, <1>3, <1>4, <1>5

(* A row is inserted at the end: it was read at some moment before. *)
LEMMA InsertsKeep ==
  ASSUME MaterialsInv, NEW new \in Rows, sources' = Append(sources, new),
         new.seen <= Len(sources), new.version <= new.seen + 1,
         \A s \in Present :
           s <= new.seen /\ sources[s].counted /\ new.counted /\ sources[s].title = new.title
             => sources[s].version < new.version,
         ReadsKept, TextsKept
  PROVE  MaterialsInv'
<1> USE DEF MaterialsInv
<1> DEFINE n == Len(sources)
<1>1. /\ n \in Nat /\ DOMAIN sources = 1 .. n /\ Present \subseteq 1 .. n
      /\ \A s \in Present : sources[s] \in Rows
  BY RowsAreThere
<1>2. /\ sources' \in Seq(Rows \cup {Deleted}) /\ Len(sources') = n + 1
      /\ \A s \in 1 .. n : sources'[s] = sources[s]
      /\ sources'[n + 1] = new
  BY DEF MaterialsTypeOK
<1>3. DOMAIN sources' = 1 .. (n + 1) BY <1>1, <1>2
<1> HIDE DEF n
<1>4. \A s \in Present' : (s \in Present /\ s \in 1 .. n) \/ s = n + 1
  BY <1>1, <1>2, <1>3 DEF Present
<1>5. MaterialsTypeOK' BY <1>2 DEF MaterialsTypeOK, ReadsKept, Reading
<1>6. \A s \in Present : sources[s].version \in Nat /\ sources[s].seen \in Nat BY <1>1 DEF Rows
<1>7. new.version \in Nat /\ new.seen \in Nat BY DEF Rows
<1>8. n = Len(sources) BY DEF n
<1>9. VersionsInv'
  <2>1. \A s \in Present' : sources'[s].version <= s
    BY <1>1, <1>2, <1>4, <1>6, <1>7, <1>8 DEF VersionsInv
  <2>2. \A t \in Present' : sources'[t].seen < t
    BY <1>1, <1>2, <1>4, <1>6, <1>7, <1>8 DEF VersionsInv
  <2>3. ASSUME NEW s \in Present', NEW t \in Present',
               s <= sources'[t].seen, sources'[s].counted, sources'[t].counted,
               sources'[s].title = sources'[t].title
        PROVE  sources'[s].version < sources'[t].version
    <3>1. s \in 1 .. (n + 1) /\ t \in 1 .. (n + 1) /\ sources'[t].seen \in Nat
      BY <1>1, <1>2, <1>4, <1>6, <1>7
    <3>2. s < t BY <1>1, <2>2, <2>3, <3>1
    <3>3. s \in Present /\ s \in 1 .. n /\ sources'[s] = sources[s] BY <1>1, <1>2, <1>4, <3>1, <3>2
    <3>4. CASE t \in Present /\ t \in 1 .. n
      BY <1>2, <2>3, <3>3, <3>4 DEF VersionsInv
    <3>5. CASE t = n + 1 BY <1>2, <2>3, <3>3, <3>5
    <3> QED BY <1>4, <3>4, <3>5
  <2> QED BY <2>1, <2>2, <2>3 DEF VersionsInv
<1>10. ReadInv'
  <2> SUFFICES ASSUME NEW w \in Writers, writer'[w].step = "read"
               PROVE  /\ writer'[w].source.seen <= Len(sources')
                      /\ writer'[w].source.version <= writer'[w].source.seen + 1
                      /\ \A s \in Present' :
                           /\ s <= writer'[w].source.seen /\ sources'[s].counted
                           /\ writer'[w].source.counted
                           /\ sources'[s].title = writer'[w].source.title
                           => sources'[s].version < writer'[w].source.version
    BY DEF ReadInv, Reading
  <2>1. Reading(w) /\ writer'[w].source = writer[w].source BY DEF ReadsKept
  <2>2. writer[w].source.seen \in Nat /\ writer[w].source.seen <= n
    BY <2>1, <1>8 DEF ReadInv, MaterialsTypeOK, Rows
  <2>3. \A s \in Present' : s <= writer[w].source.seen => s \in Present /\ sources'[s] = sources[s]
    <3> SUFFICES ASSUME NEW s \in Present', s <= writer[w].source.seen
                 PROVE  s \in Present /\ sources'[s] = sources[s]
      OBVIOUS
    <3>1. s # n + 1 BY <1>1, <2>2
    <3> QED BY <1>2, <1>4, <3>1
  <2>4. writer[w].source.seen <= Len(sources') BY <1>1, <1>2, <2>2
  <2>5. \A s \in Present : /\ s <= writer[w].source.seen /\ sources[s].counted
                          /\ writer[w].source.counted
                          /\ sources[s].title = writer[w].source.title
                          => sources[s].version < writer[w].source.version
    BY <2>1 DEF ReadInv
  <2>6. writer[w].source.version <= writer[w].source.seen + 1 BY <2>1 DEF ReadInv
  <2> QED BY <2>1, <2>3, <2>4, <2>5, <2>6
<1>11. TextInv'
  <2> SUFFICES ASSUME NEW r \in DOMAIN reviews', reviews'[r].step \in Asked
               PROVE  /\ reviews'[r].id \in DOMAIN sources'
                      /\ reviews'[r].id \in Present' =>
                           sources'[reviews'[r].id].content \in {reviews'[r].text, Document}
    BY DEF TextInv
  <2>1. /\ r \in DOMAIN reviews /\ reviews[r].step \in Asked
        /\ reviews'[r].id = reviews[r].id /\ reviews'[r].text = reviews[r].text
    BY DEF TextsKept
  <2>2. reviews[r].id \in 1 .. n BY <1>1, <2>1 DEF TextInv
  <2>3. reviews[r].id \in Present' => reviews[r].id \in Present
    BY <1>1, <1>4, <2>2
  <2> QED BY <1>1, <1>2, <1>3, <2>1, <2>2, <2>3 DEF TextInv
<1> QED BY <1>5, <1>9, <1>10, <1>11

(* The next version is above every version of the title, and no higher than *)
(* the number of the rows allows.                                            *)
LEMMA NextVersions ==
  ASSUME MaterialsTypeOK, VersionsInv
  PROVE  \A title :
           /\ NextVersion(title) \in Nat /\ NextVersion(title) <= Len(sources) + 1
           /\ \A s \in Present : sources[s].title = title => sources[s].version < NextVersion(title)
<1> TAKE title
<1> DEFINE S == {0} \cup {sources[s].version : s \in OfTitle(title)}
<1>1. /\ Len(sources) \in Nat /\ Present \subseteq 1 .. Len(sources)
      /\ \A s \in Present : sources[s] \in Rows
  BY RowsAreThere
<1>2. \A s \in OfTitle(title) : s \in Present /\ sources[s].version \in Nat
  BY <1>1 DEF OfTitle, Rows
<1>3. \A s \in OfTitle(title) : sources[s].version <= Len(sources)
  <2> TAKE s \in OfTitle(title)
  <2>1. s \in 1 .. Len(sources) /\ sources[s].version <= s BY <1>1, <1>2 DEF VersionsInv
  <2> QED BY <1>1, <1>2, <2>1
<1>4. S \in SUBSET Nat /\ S # {} BY <1>2
<1>5. \A x \in S : x <= Len(sources) BY <1>1, <1>3
<1>6. \A s \in Present : sources[s].title = title => sources[s].version \in S BY DEF OfTitle
<1>7. NextVersion(title) = 1 + Max(S) BY DEF NextVersion
<1> HIDE DEF S
<1>8. Max(S) \in S /\ \A y \in S : y <= Max(S) BY <1>1, <1>4, <1>5, GreatestOfNaturals
<1>9. Max(S) \in Nat /\ Max(S) <= Len(sources) BY <1>4, <1>5, <1>8
<1>10. \A y \in S : y \in Nat BY <1>4
<1>11. \A s \in Present : sources[s].title = title => sources[s].version < 1 + Max(S)
  BY <1>6, <1>8, <1>9, <1>10
<1> QED BY <1>1, <1>7, <1>9, <1>11

(* resolve_version_info, rollback_source and a PATCH of a parent read rows    *)
(* that fit what is there.                                                   *)
Fits(new) ==
  /\ new \in Rows /\ new.seen = Len(sources) /\ new.version <= new.seen + 1
  /\ \A s \in Present : sources[s].counted /\ new.counted /\ sources[s].title = new.title
       => sources[s].version < new.version

LEMMA BeginKeeps ==
  ASSUME MaterialsInv, NEW w \in Writers, NEW new, Fits(new), BeginSource(w, new)
  PROVE  MaterialsInv'
<1> USE DEF MaterialsInv
<1>1. writer' = [writer EXCEPT ![w] = [step |-> "read", source |-> new]]
      /\ UNCHANGED <<sources, events, reviews, crashes, limit>>
  BY DEF BeginSource
<1>2. DOMAIN writer' = Writers /\ writer'[w].step = "read" /\ writer'[w].source = new
  BY <1>1 DEF MaterialsTypeOK
<1>3. \A v \in Writers \ {w} : writer'[v] = writer[v] BY <1>1 DEF MaterialsTypeOK
<1>4. MaterialsTypeOK' BY <1>1, <1>2, <1>3 DEF MaterialsTypeOK, Reading, Fits
<1>5. Present' = Present BY <1>1 DEF Present
<1>6. VersionsInv' /\ TextInv' BY <1>1, <1>5 DEF VersionsInv, TextInv
<1>7. ReadInv'
  <2>1. /\ new.seen <= Len(sources) /\ new.version <= new.seen + 1
        /\ \A s \in Present : /\ s <= new.seen /\ sources[s].counted /\ new.counted
                              /\ sources[s].title = new.title
                              => sources[s].version < new.version
    BY DEF Fits, Rows
  <2> QED BY <1>1, <1>2, <1>3, <1>5, <2>1 DEF ReadInv, Reading
<1> QED BY <1>4, <1>6, <1>7

LEMMA CountedFit ==
  ASSUME MaterialsInv, NEW title \in Titles, NEW url \in BOOLEAN
  PROVE  Fits(CountedUp(title, url))
<1> DEFINE new == CountedUp(title, url)
<1>1. /\ NextVersion(title) \in Nat /\ NextVersion(title) <= Len(sources) + 1
      /\ \A s \in Present : sources[s].title = title => sources[s].version < NextVersion(title)
  BY NextVersions DEF MaterialsInv
<1>2. Latest(title) \in Nat
  <2>1. /\ Len(sources) \in Nat /\ Present \subseteq 1 .. Len(sources)
        /\ \A s \in Present : sources[s] \in Rows
    BY RowsAreThere DEF MaterialsInv
  <2>2. CASE OfTitle(title) = {} BY <2>2 DEF Latest
  <2>3. CASE OfTitle(title) # {}
    <3> DEFINE S == {sources[s].version : s \in OfTitle(title)}
    <3>1. \A s \in OfTitle(title) : /\ s \in 1 .. Len(sources) /\ s \in Present
                                   /\ sources[s].version \in Nat
                                   /\ sources[s].version <= Len(sources)
      <4> TAKE s \in OfTitle(title)
      <4>1. s \in Present /\ s \in 1 .. Len(sources) BY <2>1 DEF OfTitle
      <4>2. sources[s].version \in Nat BY <2>1, <4>1 DEF Rows
      <4>3. sources[s].version <= s BY <4>1 DEF MaterialsInv, VersionsInv
      <4> QED BY <2>1, <4>1, <4>2, <4>3
    <3>2. S \in SUBSET Nat /\ S # {} /\ \A x \in S : x <= Len(sources) BY <2>3, <3>1
    <3>3. PICK m \in S : \A y \in S : y <= m
      <4> HIDE DEF S
      <4> QED BY <2>1, <3>2, GreatestOfNaturals
    <3>4. \E s \in OfTitle(title) : \A t \in OfTitle(title) : sources[t].version <= sources[s].version
      BY <3>3
    <3>5. Latest(title) \in OfTitle(title) BY <2>3, <3>4 DEF Latest
    <3> QED BY <3>1, <3>5
  <2> QED BY <2>2, <2>3
<1>3. Len(sources) \in Nat BY RowsAreThere DEF MaterialsInv
<1>4. new = [title |-> title, content |-> Own, url |-> url, version |-> NextVersion(title),
             parent |-> Latest(title), counted |-> TRUE, seen |-> Len(sources)]
  BY DEF CountedUp, Source
<1>5. new \in Rows BY <1>1, <1>2, <1>3, <1>4, MaterialsAssumption DEF Rows, Own
<1>6. new.seen = Len(sources) /\ new.version = NextVersion(title) /\ new.title = title BY <1>4
<1> HIDE DEF new
<1>7. Fits(new) BY <1>1, <1>5, <1>6 DEF Fits
<1> QED BY <1>7 DEF new

LEMMA UnderFits ==
  ASSUME MaterialsInv, NEW p \in Present, NEW url \in BOOLEAN
  PROVE  Fits(Under(p, url))
<1> DEFINE new == Under(p, url)
<1>1. /\ Len(sources) \in Nat /\ p \in 1 .. Len(sources) /\ sources[p] \in Rows
  BY RowsAreThere DEF MaterialsInv
<1>2. sources[p].version <= p BY DEF MaterialsInv, VersionsInv
<1>3. new = [title |-> sources[p].title, content |-> Own, url |-> url,
             version |-> sources[p].version + 1, parent |-> p, counted |-> FALSE,
             seen |-> Len(sources)]
  BY DEF Under, Source
<1>4. sources[p].title \in Titles /\ sources[p].version \in Nat BY <1>1 DEF Rows
<1>5. new \in Rows BY <1>1, <1>3, <1>4 DEF Rows, Own
<1>6. new.seen = Len(sources) /\ new.version = sources[p].version + 1 /\ ~new.counted BY <1>3
<1> HIDE DEF new
<1>7. new.version <= new.seen + 1 BY <1>1, <1>2, <1>4, <1>6
<1>8. Fits(new) BY <1>5, <1>6, <1>7 DEF Fits
<1> QED BY <1>8 DEF new

LEMMA AgainFits ==
  ASSUME MaterialsInv, NEW r \in Present
  PROVE  Fits(Again(r, NextVersion(sources[r].title)))
<1> DEFINE title == sources[r].title
           new == Again(r, NextVersion(title))
<1>1. /\ Len(sources) \in Nat /\ r \in 1 .. Len(sources) /\ sources[r] \in Rows
  BY RowsAreThere DEF MaterialsInv
<1>2. /\ NextVersion(title) \in Nat /\ NextVersion(title) <= Len(sources) + 1
      /\ \A s \in Present : sources[s].title = title => sources[s].version < NextVersion(title)
  BY NextVersions DEF MaterialsInv
<1>3. /\ new \in Rows /\ new.seen = Len(sources) /\ new.version = NextVersion(title)
      /\ new.title = title
  <2>1. \A v \in Nat :
          /\ Again(r, v) \in Rows /\ Again(r, v).seen = Len(sources)
          /\ Again(r, v).version = v /\ Again(r, v).title = sources[r].title
    <3> TAKE v \in Nat
    <3>1. r \in Nat BY <1>1
    <3> QED BY <1>1, <3>1 DEF Again, Rows
  <2> QED BY <1>2, <2>1
<1> HIDE DEF title, new
<1>4. Fits(new) BY <1>2, <1>3 DEF Fits
<1> QED BY <1>4 DEF new, title

LEMMA MaterialsInitInv == MaterialsInit => MaterialsInv
<1> SUFFICES ASSUME MaterialsInit PROVE MaterialsInv OBVIOUS
<1> USE DEF MaterialsInit
<1>1. \A w \in Writers : writer[w].step = "idle" BY DEF Idle
<1>2. Present = {} BY DEF Present
<1>3. \A r \in DOMAIN reviews : reviews[r].step = "none" OBVIOUS
<1>4. MaterialsTypeOK BY <1>1 DEF MaterialsTypeOK, Reading
<1> QED BY <1>1, <1>2, <1>3, <1>4
        DEF MaterialsInv, VersionsInv, ReadInv, TextInv, Reading, Asked

LEMMA InsertSourceKeeps ==
  ASSUME MaterialsInv, NEW w \in Writers, InsertSource(w) PROVE MaterialsInv'
<1> DEFINE read == writer[w].source
           new == InsertedAs(read, Len(sources) + 1)
<1>1. /\ Reading(w) /\ sources' = Append(sources, new)
      /\ writer' = [writer EXCEPT ![w] = [step |-> "wrote", kind |-> "arrived",
                                         id |-> Len(sources) + 1]]
      /\ UNCHANGED <<events, reviews, crashes, limit>>
  BY DEF InsertSource, Reading
<1>2. read \in Rows BY <1>1 DEF MaterialsInv, MaterialsTypeOK
<1>3. Len(sources) \in Nat BY RowsAreThere DEF MaterialsInv
<1>4. /\ new \in Rows /\ new.seen = read.seen /\ new.version = read.version
      /\ new.counted = read.counted /\ new.title = read.title
  BY <1>2, <1>3 DEF InsertedAs, Rows
<1>5. ReadsKept
  <2>1. DOMAIN writer = Writers BY DEF MaterialsInv, MaterialsTypeOK
  <2>2. /\ DOMAIN writer' = Writers /\ writer'[w].step = "wrote"
        /\ \A v \in Writers \ {w} : writer'[v] = writer[v]
    BY <1>1, <2>1
  <2> QED BY <2>2 DEF ReadsKept, Reading
<1>6. TextsKept BY <1>1, SameTextsKept
<1>7. /\ read.seen <= Len(sources) /\ read.version <= read.seen + 1
      /\ \A s \in Present :
           s <= read.seen /\ sources[s].counted /\ read.counted /\ sources[s].title = read.title
             => sources[s].version < read.version
  BY <1>1 DEF MaterialsInv, ReadInv
<1> HIDE DEF read, new
<1> QED BY <1>1, <1>4, <1>5, <1>6, <1>7, InsertsKeep

LEMMA InsertFirstKeeps ==
  ASSUME MaterialsInv, NEW title \in Titles, NEW url \in BOOLEAN, InsertFirst(title, url)
  PROVE  MaterialsInv'
<1> DEFINE new == InsertedAs(Source(title, url, 1, 0, FALSE), Len(sources) + 1)
<1>1. sources' = Append(sources, new) /\ UNCHANGED <<writer, reviews, crashes, limit>>
  BY DEF InsertFirst
<1>2. Len(sources) \in Nat BY RowsAreThere DEF MaterialsInv
<1>3. /\ new \in Rows /\ new.seen = Len(sources) /\ new.version = 1 /\ ~new.counted
  <2> DEFINE first == Source(title, url, 1, 0, FALSE)
  <2>1. /\ first \in Rows /\ first.seen = Len(sources) /\ first.version = 1 /\ ~first.counted
    BY <1>2 DEF Source, Rows, Own
  <2>2. new = IF first.content = Own THEN [first EXCEPT !.content = Len(sources) + 1] ELSE first
    BY DEF InsertedAs
  <2> HIDE DEF first, new
  <2> QED BY <1>2, <2>1, <2>2 DEF Rows
<1>4. ReadsKept /\ TextsKept BY <1>1, SameReadsKept, SameTextsKept DEF MaterialsInv
<1> HIDE DEF new
<1>5. new.seen <= Len(sources) /\ new.version <= new.seen + 1 BY <1>2, <1>3
<1> QED BY <1>1, <1>3, <1>4, <1>5, InsertsKeep

LEMMA RecordEventKeeps ==
  ASSUME MaterialsInv, NEW w \in Writers, RecordEvent(w) PROVE MaterialsInv'
<1>1. /\ writer' = [writer EXCEPT ![w] = Idle]
      /\ UNCHANGED <<sources, reviews, crashes, limit>>
  BY DEF RecordEvent
<1>2. ReadsKept
  <2>1. DOMAIN writer = Writers BY DEF MaterialsInv, MaterialsTypeOK
  <2>2. /\ DOMAIN writer' = Writers /\ writer'[w].step = "idle"
        /\ \A v \in Writers \ {w} : writer'[v] = writer[v]
    BY <1>1, <2>1 DEF Idle
  <2> QED BY <2>2 DEF ReadsKept, Reading
<1> QED BY <1>1, <1>2, EditsKeep, SameRowsKept, SameTextsKept

(* One row is edited. *)
LEMMA RowEdited ==
  ASSUME MaterialsInv, NEW s \in Present, NEW new \in Rows \cup {Deleted},
         sources' = [sources EXCEPT ![s] = new],
         new # Deleted =>
           /\ new.version = sources[s].version /\ new.seen = sources[s].seen
           /\ new.counted => sources[s].counted /\ new.title = sources[s].title
           /\ new.content = sources[s].content \/ new.content = Document
  PROVE  RowsKept
<1>1. sources \in Seq(Rows \cup {Deleted}) /\ s \in DOMAIN sources /\ sources[s] # Deleted
  BY DEF MaterialsInv, MaterialsTypeOK, Present
<1>2. sources' \in Seq(Rows \cup {Deleted}) /\ Len(sources') = Len(sources) BY <1>1
<1>3. DOMAIN sources' = DOMAIN sources BY <1>1
<1>4. sources'[s] = new /\ \A t \in DOMAIN sources \ {s} : sources'[t] = sources[t] BY <1>1
<1> QED BY <1>1, <1>2, <1>3, <1>4 DEF RowsKept

LEMMA UpdateSourceKeeps ==
  ASSUME MaterialsInv, NEW s \in DOMAIN sources, NEW title \in Titles, NEW url \in BOOLEAN,
         UpdateSource(s, title, url)
  PROVE  MaterialsInv'
<1> DEFINE new == [sources[s] EXCEPT !.title = title, !.url = url,
                     !.counted = sources[s].counted /\ title = sources[s].title]
<1>1. /\ s \in Present
      /\ sources' = [sources EXCEPT ![s].title = title, ![s].url = url,
                                    ![s].counted = @ /\ title = sources[s].title]
      /\ UNCHANGED <<events, writer, reviews, crashes, limit>>
  BY DEF UpdateSource
<1>2. sources[s] \in Rows /\ sources \in Seq(Rows \cup {Deleted})
  BY <1>1, RowsAreThere DEF MaterialsInv, MaterialsTypeOK
<1>3. sources' = [sources EXCEPT ![s] = new] BY <1>1, <1>2 DEF Rows
<1>4. /\ new \in Rows /\ new.version = sources[s].version /\ new.seen = sources[s].seen
      /\ new.content = sources[s].content
      /\ new.counted => sources[s].counted /\ new.title = sources[s].title
  BY <1>2 DEF Rows
<1> HIDE DEF new
<1>5. RowsKept BY <1>1, <1>3, <1>4, RowEdited
<1> QED BY <1>1, <1>5, EditsKeep, SameReadsKept, SameTextsKept DEF MaterialsInv

LEMMA DeleteSourceKeeps ==
  ASSUME MaterialsInv, NEW s \in DOMAIN sources, DeleteSource(s) PROVE MaterialsInv'
<1>1. /\ s \in Present /\ sources' = [sources EXCEPT ![s] = Deleted]
      /\ writer' = [writer EXCEPT !["loop"] = [step |-> "wrote", kind |-> "deleted", id |-> s]]
      /\ UNCHANGED <<events, reviews, crashes, limit>>
  BY DEF DeleteSource
<1>2. RowsKept BY <1>1, RowEdited
<1>3. ReadsKept
  <2>1. DOMAIN writer = Writers /\ "loop" \in Writers BY DEF MaterialsInv, MaterialsTypeOK, Writers
  <2>2. /\ DOMAIN writer' = Writers /\ writer'["loop"].step = "wrote"
        /\ \A v \in Writers \ {"loop"} : writer'[v] = writer[v]
    BY <1>1, <2>1
  <2> QED BY <2>2 DEF ReadsKept, Reading
<1> QED BY <1>1, <1>2, <1>3, EditsKeep, SameTextsKept

LEMMA ConnectAgainKeeps ==
  ASSUME MaterialsInv, NEW s \in DOMAIN sources, ConnectAgain(s) PROVE MaterialsInv'
<1> DEFINE new == [sources[s] EXCEPT !.content = Document]
<1>1. /\ s \in Present /\ sources' = [sources EXCEPT ![s].content = Document]
      /\ UNCHANGED <<events, writer, reviews, crashes, limit>>
  BY DEF ConnectAgain, Newest
<1>2. sources[s] \in Rows BY <1>1, RowsAreThere DEF MaterialsInv
<1>3. sources' = [sources EXCEPT ![s] = new] BY <1>1
<1>4. /\ new \in Rows /\ new.version = sources[s].version /\ new.seen = sources[s].seen
      /\ new.content = Document /\ new.counted = sources[s].counted
      /\ new.title = sources[s].title
  BY <1>2 DEF Rows, Document
<1> HIDE DEF new
<1>5. RowsKept BY <1>1, <1>3, <1>4, RowEdited
<1> QED BY <1>1, <1>5, EditsKeep, SameReadsKept, SameTextsKept DEF MaterialsInv

LEMMA AskReviewKeeps ==
  ASSUME MaterialsInv, NEW r \in DOMAIN reviews, NEW s \in DOMAIN sources, AskReview(r, s)
  PROVE  MaterialsInv'
<1> DEFINE new == [step |-> "asked", id |-> s, live |-> sources[s].url, text |-> sources[s].content]
<1>1. /\ s \in Present /\ reviews' = [reviews EXCEPT ![r] = new]
      /\ UNCHANGED <<sources, events, writer, crashes, limit>>
  BY DEF AskReview
<1>2. /\ reviews'[r].id = s /\ reviews'[r].text = sources[s].content
      /\ DOMAIN reviews' = DOMAIN reviews
      /\ \A q \in DOMAIN reviews \ {r} : reviews'[q] = reviews[q]
  BY <1>1
<1>3. Present' = Present BY <1>1 DEF Present
<1>4. TextInv' BY <1>1, <1>2, <1>3 DEF TextInv, MaterialsInv
<1> QED BY <1>1, <1>3, <1>4
        DEF MaterialsInv, MaterialsTypeOK, VersionsInv, ReadInv, Reading

(* What becomes of a request later does not change what it has read. *)
LEMMA ReviewGoesOn ==
  ASSUME MaterialsInv, NEW r \in DOMAIN reviews, reviews[r].step \in Asked,
         NEW new, reviews' = [reviews EXCEPT ![r] = new],
         new.step \in Asked => new.id = reviews[r].id /\ new.text = reviews[r].text,
         UNCHANGED <<sources, events, writer, crashes, limit>>
  PROVE  MaterialsInv'
<1>1. /\ reviews'[r] = new /\ DOMAIN reviews' = DOMAIN reviews
      /\ \A q \in DOMAIN reviews \ {r} : reviews'[q] = reviews[q]
  OBVIOUS
<1>2. TextsKept BY <1>1 DEF TextsKept
<1> QED BY <1>2, EditsKeep, SameRowsKept, SameReadsKept DEF MaterialsInv

LEMMA StartRunKeeps ==
  ASSUME MaterialsInv, NEW r \in DOMAIN reviews, StartRun(r) \/ LinkRun(r) PROVE MaterialsInv'
<1>1. PICK step \in {"started", "linked"} :
        /\ reviews[r].step \in {"asked", "started"}
        /\ reviews' = [reviews EXCEPT ![r].step = step]
        /\ UNCHANGED <<sources, events, writer, crashes, limit>>
  BY DEF StartRun, LinkRun
<1> DEFINE new == [reviews[r] EXCEPT !.step = step]
<1>2. reviews' = [reviews EXCEPT ![r] = new] BY <1>1
<1>3. new.id = reviews[r].id /\ new.text = reviews[r].text OBVIOUS
<1>4. reviews[r].step \in Asked BY <1>1 DEF Asked
<1> HIDE DEF new
<1> QED BY <1>1, <1>2, <1>3, <1>4, ReviewGoesOn

LEMMA FailReviewKeeps ==
  ASSUME MaterialsInv, NEW r \in DOMAIN reviews, FailReview(r) PROVE MaterialsInv'
<1>1. /\ reviews[r].step \in {"asked", "started"}
      /\ reviews' = [reviews EXCEPT ![r] = Failed(reviews[r])]
      /\ UNCHANGED <<sources, events, writer, crashes, limit>>
  BY DEF FailReview
<1>2. Failed(reviews[r]).step \notin Asked BY DEF Failed, Asked
<1>3. reviews[r].step \in Asked BY <1>1 DEF Asked
<1> QED BY <1>1, <1>2, <1>3, ReviewGoesOn

LEMMA MaterialsCrashKeeps == ASSUME MaterialsInv, Crash PROVE MaterialsInv'
<1>1. /\ writer' = [w \in Writers |-> Idle]
      /\ reviews' = [r \in DOMAIN reviews |->
                       IF reviews[r].step \in {"asked", "started"} THEN Failed(reviews[r])
                                                                   ELSE reviews[r]]
      /\ UNCHANGED <<sources, events, limit>>
  BY DEF Crash
<1>2. ReadsKept BY <1>1 DEF ReadsKept, Idle
<1>3. TextsKept
  <2>1. \A r \in DOMAIN reviews : Failed(reviews[r]).step \notin Asked BY DEF Failed, Asked
  <2> QED BY <1>1, <2>1 DEF TextsKept
<1> QED BY <1>1, <1>2, <1>3, EditsKeep, SameRowsKept

LEMMA MaterialsKeeps ==
  ASSUME MaterialsInv, MaterialsNext \/ UNCHANGED materialsVars PROVE MaterialsInv'
<1>1. ASSUME NEW w \in Writers, NEW title \in Titles, FetchSource(w, title) PROVE MaterialsInv'
  BY <1>1, CountedFit, BeginKeeps DEF FetchSource
<1>2. ASSUME NEW title \in Titles, NEW url \in BOOLEAN, AddSource(title, url) PROVE MaterialsInv'
  <2>1. "loop" \in Writers BY DEF Writers
  <2> QED BY <1>2, <2>1, CountedFit, UnderFits, BeginKeeps DEF AddSource
<1>3. ASSUME NEW s \in DOMAIN sources, RollBack(s) PROVE MaterialsInv'
  <2>1. "loop" \in Writers BY DEF Writers
  <2> QED BY <1>3, <2>1, AgainFits, BeginKeeps DEF RollBack
<1>4. ASSUME NEW title \in Titles, ConnectFirst(title) \/ Materialize(title) PROVE MaterialsInv'
  BY <1>4, InsertFirstKeeps DEF ConnectFirst, Materialize
<1>5. ASSUME UNCHANGED materialsVars PROVE MaterialsInv'
  BY <1>5, EditsKeep, SameRowsKept, SameReadsKept, SameTextsKept DEF materialsVars, MaterialsInv
<1> QED BY <1>1, <1>2, <1>3, <1>4, <1>5, InsertSourceKeeps, RecordEventKeeps, UpdateSourceKeeps,
           DeleteSourceKeeps, ConnectAgainKeeps, AskReviewKeeps, StartRunKeeps, FailReviewKeeps,
           MaterialsCrashKeeps DEF MaterialsNext

LEMMA MaterialsInvariant == SpaceSpec => []MaterialsInv
<1>1. SpaceInit => MaterialsInv BY MaterialsInitInv DEF SpaceInit
<1>2. MaterialsInv /\ [SpaceNext]_spaceVars => MaterialsInv' BY OneOfTheSpaceSteps, MaterialsKeeps
<1> QED BY <1>1, <1>2, PTL DEF SpaceSpec, spaceVars

(* Rows counted up under one title never share a version, but for a write of *)
(* the sync worker beside a request, whatever is renamed, rolled back or     *)
(* deleted in between: resolve_version_info counts above all that is there.  *)
THEOREM VersionsStayApart == SpaceSpec => []VersionsApart
<1>1. MaterialsInv => VersionsApart
  <2> SUFFICES ASSUME MaterialsInv, NEW s \in Present, NEW t \in Present, s < t,
                      sources[s].counted, sources[t].counted,
                      sources[s].title = sources[t].title, sources[s].version = sources[t].version
               PROVE  sources[t].seen < s
    BY DEF VersionsApart
  <2>1. /\ s \in Nat /\ sources[s].version \in Nat /\ sources[t].seen \in Nat
    BY RowsAreThere DEF MaterialsInv, Rows
  <2>2. ~ (s <= sources[t].seen) BY <2>1 DEF MaterialsInv, VersionsInv
  <2> QED BY <2>1, <2>2
<1> QED BY <1>1, MaterialsInvariant, PTL

(* The row a finished request names as its source holds the text the run has *)
(* reviewed, unless the row has gone or connect_feishu overwrote it.         *)
THEOREM ReviewedTextsAreKept == SpaceSpec => []ReviewedTextKept
<1>1. MaterialsInv => ReviewedTextKept
  BY DEF MaterialsInv, TextInv, ReviewedTextKept, Asked
<1> QED BY <1>1, MaterialsInvariant, PTL
----------------------------------------------------------------------------
(* The providers' settings. *)

Boxes == [key : Keys \cup {"none"}, by : MasterKeys \cup {"none"}]
ConnectionRows == [state : {"configured", "validated"}, provider : Providers, box : Boxes]

(* A connection keeps the key it was last given, and an empty one is not *)
(* sealed by anyone.                                                     *)
SettingsInv ==
  /\ connections \in [Connections -> ConnectionRows \cup {Unused, Gone}]
  /\ DOMAIN saved = Connections
  /\ master \in MasterKeys \cup {"none"}
  /\ projectPreset \in Presets \cup {"none"}
  /\ \A p \in Presets : Exists(presets, p) => presets[p].conn \in Connections
  /\ DOMAIN presets = Presets
  /\ \A c \in Connections : Exists(connections, c) =>
       /\ connections[c].box.key = saved[c]
       /\ connections[c].box.key = "none" => connections[c].box.by = "none"

LEMMA ConnectionsAreThere ==
  ASSUME SettingsInv
  PROVE  /\ \A c \in Connections : Exists(connections, c) => connections[c] \in ConnectionRows
         /\ \A r \in ConnectionRows : r \notin {Unused, Gone}
<1>1. \A r \in ConnectionRows : r \notin {Unused, Gone}
  <2> TAKE r \in ConnectionRows
  <2>1. r.state \in {"configured", "validated"} BY DEF ConnectionRows
  <2> QED BY <2>1 DEF Unused, Gone
<1> QED BY <1>1 DEF SettingsInv, Exists

LEMMA SealedBoxes ==
  ASSUME SettingsInv, NEW key \in Keys \cup {"none"}
  PROVE  /\ Sealed(key) \in Boxes /\ Sealed(key).key = key
         /\ key = "none" => Sealed(key).by = "none"
BY DEF Sealed, Boxes, SettingsInv

(* One connection's row, and the key it was last given, are written. *)
LEMMA ConnectionWritten ==
  ASSUME SettingsInv, NEW c \in Connections, NEW r \in ConnectionRows \cup {Gone},
         connections' = [connections EXCEPT ![c] = r],
         DOMAIN saved' = Connections,
         \A d \in Connections \ {c} : saved'[d] = saved[d],
         r # Gone => r.box.key = saved'[c] /\ (r.box.key = "none" => r.box.by = "none"),
         UNCHANGED <<presets, master, projectPreset>>
  PROVE  SettingsInv'
<1>1. /\ connections' \in [Connections -> ConnectionRows \cup {Unused, Gone}]
      /\ connections'[c] = r /\ \A d \in Connections \ {c} : connections'[d] = connections[d]
  BY DEF SettingsInv
<1>2. \A p \in Presets : Exists(presets', p) => presets'[p].conn \in Connections
  BY DEF SettingsInv, Exists
<1>3. \A d \in Connections : Exists(connections', d) =>
        /\ connections'[d].box.key = saved'[d]
        /\ connections'[d].box.key = "none" => connections'[d].box.by = "none"
  BY <1>1 DEF SettingsInv, Exists
<1> QED BY <1>1, <1>2, <1>3 DEF SettingsInv, Exists

LEMMA SettingsInitInv == SettingsInit => SettingsInv
BY DEF SettingsInit, SettingsInv, Exists

LEMMA CreateConnectionKeeps ==
  ASSUME SettingsInv, NEW c \in Connections, NEW provider \in Providers,
         NEW key \in Keys \cup {"none"}, CreateConnection(c, provider, key)
  PROVE  SettingsInv'
<1> DEFINE r == [state |-> "configured", provider |-> provider, box |-> Sealed(key)]
<1>1. /\ connections' = [connections EXCEPT ![c] = r]
      /\ saved' = [saved EXCEPT ![c] = key]
      /\ UNCHANGED <<presets, master, projectPreset>>
  BY DEF CreateConnection
<1>2. r \in ConnectionRows /\ r.box = Sealed(key) BY SealedBoxes DEF ConnectionRows
<1>3. DOMAIN saved = Connections BY DEF SettingsInv
<1>4. saved'[c] = key /\ DOMAIN saved' = Connections /\ \A d \in Connections \ {c} : saved'[d] = saved[d]
  BY <1>1, <1>3
<1>5. r.box.key = saved'[c] /\ (r.box.key = "none" => r.box.by = "none")
  BY <1>2, <1>4, SealedBoxes
<1> HIDE DEF r
<1> QED BY <1>1, <1>2, <1>4, <1>5, ConnectionWritten

LEMMA ReplaceKeyKeeps ==
  ASSUME SettingsInv, NEW c \in Connections, NEW key \in Keys \cup {"none"}, ReplaceKey(c, key)
  PROVE  SettingsInv'
<1> DEFINE r == [connections[c] EXCEPT !.box = Sealed(key)]
<1>1. /\ connections' = [connections EXCEPT ![c] = r]
      /\ saved' = [saved EXCEPT ![c] = key]
      /\ UNCHANGED <<presets, master, projectPreset>>
  BY DEF ReplaceKey
<1>2. r \in ConnectionRows /\ r.box = Sealed(key)
  BY SealedBoxes, ConnectionsAreThere DEF ConnectionRows, ReplaceKey
<1>3. DOMAIN saved = Connections BY DEF SettingsInv
<1>4. saved'[c] = key /\ DOMAIN saved' = Connections /\ \A d \in Connections \ {c} : saved'[d] = saved[d]
  BY <1>1, <1>3
<1>5. r.box.key = saved'[c] /\ (r.box.key = "none" => r.box.by = "none")
  BY <1>2, <1>4, SealedBoxes
<1> HIDE DEF r
<1> QED BY <1>1, <1>2, <1>4, <1>5, ConnectionWritten

LEMMA TestConnectionKeeps ==
  ASSUME SettingsInv, NEW c \in Connections, TestConnection(c) PROVE SettingsInv'
<1> DEFINE r == [connections[c] EXCEPT !.state = "validated"]
<1>1. /\ Exists(connections, c) /\ connections' = [connections EXCEPT ![c] = r]
      /\ UNCHANGED <<presets, master, projectPreset, saved>>
  BY DEF TestConnection
<1>2. r \in ConnectionRows /\ r.box = connections[c].box
  BY <1>1, ConnectionsAreThere DEF ConnectionRows
<1>3. DOMAIN saved = Connections BY DEF SettingsInv
<1>4. r.box.key = saved'[c] /\ (r.box.key = "none" => r.box.by = "none")
  BY <1>1, <1>2 DEF SettingsInv
<1> HIDE DEF r
<1> QED BY <1>1, <1>2, <1>3, <1>4, ConnectionWritten

LEMMA DeleteConnectionKeeps ==
  ASSUME SettingsInv, NEW c \in Connections, DeleteConnection(c) PROVE SettingsInv'
<1>1. DOMAIN saved = Connections BY DEF SettingsInv
<1> QED BY <1>1, ConnectionWritten DEF DeleteConnection

(* The presets name connections that were there, whatever becomes of them. *)
LEMMA PresetsKeep ==
  ASSUME SettingsInv, UNCHANGED <<connections, saved>>, master' \in MasterKeys \cup {"none"},
         projectPreset' \in Presets \cup {"none"},
         DOMAIN presets' = Presets,
         \A p \in Presets : presets'[p] \notin {Unused, Gone} => presets'[p].conn \in Connections
  PROVE  SettingsInv'
BY DEF SettingsInv, Exists

LEMMA ClearedPresets ==
  ASSUME SettingsInv
  PROVE  /\ DOMAIN Cleared = Presets
         /\ \A p \in Presets : Cleared[p] \notin {Unused, Gone} => Cleared[p].conn \in Connections
<1>1. \A p \in Presets : Exists(presets, p) => [presets[p] EXCEPT !.default = FALSE].conn = presets[p].conn
  OBVIOUS
<1> QED BY <1>1 DEF Cleared, SettingsInv, Exists

LEMMA SettingsKeeps ==
  ASSUME SettingsInv, SettingsNext \/ UNCHANGED settingsVars PROVE SettingsInv'
<1>1. ASSUME NEW p \in Presets, NEW c \in Connections, NEW default \in BOOLEAN,
             SavePreset(p, c, default)
      PROVE  SettingsInv'
  <2> DEFINE old == IF default THEN Cleared ELSE presets
             new == [state |-> "saved", conn |-> c, default |-> default]
  <2>1. presets' = [old EXCEPT ![p] = new] /\ UNCHANGED <<connections, master, projectPreset, saved>>
    BY <1>1 DEF SavePreset
  <2>2. /\ DOMAIN old = Presets
        /\ \A q \in Presets : old[q] \notin {Unused, Gone} => old[q].conn \in Connections
    BY ClearedPresets DEF SettingsInv, Exists
  <2>3. new.conn = c OBVIOUS
  <2> HIDE DEF old, new
  <2>4. /\ DOMAIN presets' = Presets /\ presets'[p] = new
        /\ \A q \in Presets \ {p} : presets'[q] = old[q]
    BY <2>1, <2>2
  <2> QED BY <2>1, <2>2, <2>3, <2>4, PresetsKeep DEF SettingsInv
<1>2. ASSUME SaveCutShort PROVE SettingsInv'
  BY <1>2, ClearedPresets, PresetsKeep DEF SaveCutShort, SettingsInv
<1>3. ASSUME NEW p \in Presets, DeletePreset(p) PROVE SettingsInv'
  <2>1. /\ DOMAIN presets' = Presets /\ presets'[p] = Gone
        /\ \A q \in Presets \ {p} : presets'[q] = presets[q]
    BY <1>3 DEF DeletePreset, SettingsInv
  <2> QED BY <1>3, <2>1, PresetsKeep DEF DeletePreset, SettingsInv, Exists
<1>4. ASSUME NEW p \in Presets \cup {"none"},
             ChoosePreset(p) \/ StartReview(p) \/ UNCHANGED settingsVars
      PROVE  SettingsInv'
  <2>1. /\ UNCHANGED <<connections, presets, master, saved>>
        /\ projectPreset' \in {p, projectPreset}
    BY <1>4 DEF ChoosePreset, StartReview, settingsVars
  <2> QED BY <2>1, PresetsKeep DEF SettingsInv, Exists
<1>5. ASSUME NEW m \in MasterKeys \cup {"none"}, Restart(m) PROVE SettingsInv'
  BY <1>5, PresetsKeep DEF Restart, SettingsInv, Exists
<1> QED BY <1>1, <1>2, <1>3, <1>4, <1>5, CreateConnectionKeeps, ReplaceKeyKeeps,
           TestConnectionKeeps, DeleteConnectionKeeps DEF SettingsNext

(* Only create_review's options change what a review is started with. *)
LEMMA StartsAsSaved ==
  ASSUME SettingsInv, SettingsNext \/ UNCHANGED settingsVars
  PROVE  started' # started /\ started'.conn # "none"
         => /\ started'.key = saved[started'.conn]
            /\ connections[started'.conn].box.by \in {"none", master}
<1>1. (\E preset \in Presets \cup {"none"} : StartReview(preset)) \/ UNCHANGED started
  BY DEF SettingsNext, CreateConnection, ReplaceKey, DeleteConnection, TestConnection,
         SavePreset, SaveCutShort, DeletePreset, ChoosePreset, Restart, settingsVars
<1>2. ASSUME NEW preset \in Presets \cup {"none"}, StartReview(preset), started'.conn # "none"
      PROVE  /\ started'.key = saved[started'.conn]
             /\ connections[started'.conn].box.by \in {"none", master}
  <2> DEFINE p == IF preset = "none" THEN projectPreset ELSE preset
  <2>1. IF p = "none" THEN started' = [conn |-> "none", key |-> "none"]
        ELSE /\ Exists(presets, p) /\ Exists(connections, presets[p].conn)
             /\ CanOpen(connections[presets[p].conn].box)
             /\ started' = [conn |-> presets[p].conn, key |-> connections[presets[p].conn].box.key]
    BY <1>2 DEF StartReview
  <2>2. p \in Presets \cup {"none"} BY DEF SettingsInv
  <2>3. p # "none" BY <1>2, <2>1
  <2>4. /\ Exists(presets, p) /\ Exists(connections, presets[p].conn)
        /\ CanOpen(connections[presets[p].conn].box)
        /\ started' = [conn |-> presets[p].conn, key |-> connections[presets[p].conn].box.key]
    BY <2>1, <2>3
  <2> HIDE DEF p
  <2>5. presets[p].conn \in Connections BY <2>2, <2>3, <2>4 DEF SettingsInv
  <2>6. /\ started'.conn = presets[p].conn
        /\ started'.key = connections[presets[p].conn].box.key
    BY <2>4
  <2> QED BY <2>4, <2>5, <2>6 DEF CanOpen, SettingsInv
<1> QED BY <1>1, <1>2

LEMMA SettingsInvariant == SpaceSpec => []SettingsInv
<1>1. SpaceInit => SettingsInv BY SettingsInitInv DEF SpaceInit
<1>2. SettingsInv /\ [SpaceNext]_spaceVars => SettingsInv' BY OneOfTheSpaceSteps, SettingsKeeps
<1> QED BY <1>1, <1>2, PTL DEF SpaceSpec, spaceVars
----------------------------------------------------------------------------
(* The connector's settings. *)

Values == Keys \cup {"none", "pat", "app", "mapped"}
Filled == [DOMAIN Blank -> Values]
SavedRows == [state : {"saved"}, settings : Filled, by : MasterKeys]
Asking ==
  [token : Keys \cup {"kept", "empty"}, key : Keys \cup {"kept", "empty"},
   hook : Keys \cup {"kept", "empty"}, mode : {"kept", "pat", "app"},
   mapped : {"kept", "mapped", "none"}]
AskedPuts == [step : {"asked"}, ask : Asking, secrets : [Secrets \cup {"mode"} -> Values]]
MergedPuts == [step : {"merged"}, ask : Asking, next : Filled]

(* What a reader makes of a row, with a master key. *)
ReadAs(r, key) ==
  IF r = Absent THEN Blank ELSE IF r.by = key /\ key # "none" THEN r.settings ELSE Unopened(r)

(* What users have given, should this request come through. *)
GivenWith(ask) ==
  [f \in DOMAIN Blank |-> IF ask[f] \in {"kept", "empty"} THEN given[f] ELSE ask[f]]

Readable == row = Absent \/ Opens

ConnectorTypeOK ==
  /\ row \in SavedRows \cup {Absent}
  /\ put \in AskedPuts \cup MergedPuts \cup {NoPut}
  /\ touch.step = "read" => touch.settings \in Filled
  /\ given \in Filled
  /\ blind \in BOOLEAN /\ met \in BOOLEAN

(* The row holds what users gave. *)
RowAsGiven ==
  ~met => /\ row = Absent => given = Blank
          /\ row # Absent => /\ row.settings["mapped"] = given["mapped"]
                             /\ blind \/ row.settings = given

(* The worker holds what it made of the row that it has read. *)
TouchAsRead == touch.step = "read" => touch.settings = ReadAs(touch.row, master)

(* A request that has read the row holds what it asks for, and what users   *)
(* gave for what it leaves out.                                             *)
PutAsGiven ==
  ~met =>
    /\ put.step = "asked" /\ ~blind /\ Readable =>
         \A f \in Secrets \cup {"mode"} :
           put.secrets[f] = IF put.ask[f] = "kept" THEN given[f]
                            ELSE IF put.ask[f] = "empty" THEN "none" ELSE put.ask[f]
    /\ put.step = "merged" =>
         /\ put.next["mapped"] = GivenWith(put.ask)["mapped"]
         /\ ~blind /\ Readable => put.next = GivenWith(put.ask)

ConnectorInv == ConnectorTypeOK /\ RowAsGiven /\ TouchAsRead /\ PutAsGiven

LEMMA BlankFields ==
  /\ DOMAIN Blank = {"token", "key", "hook", "mode", "mapped"}
  /\ Blank \in Filled
  /\ Blank["mapped"] = "none"
<1>1. DOMAIN Blank = {"token", "key", "hook", "mode", "mapped"} BY DEF Blank
<1>2. Blank["mapped"] = "none" BY DEF Blank
<1>3. Blank \in [DOMAIN Blank -> Values] BY DEF Blank, Values
<1> QED BY <1>1, <1>2, <1>3 DEF Filled

LEMMA Readings ==
  ASSUME NEW r \in SavedRows \cup {Absent}, NEW key
  PROVE  /\ ReadAs(r, key) \in Filled
         /\ r # Absent => r \in SavedRows /\ ReadAs(r, key)["mapped"] = r.settings["mapped"]
         /\ r = Absent => ReadAs(r, key) = Blank
         /\ r # Absent /\ r.by = key /\ key # "none" => ReadAs(r, key) = r.settings
         /\ r # Absent /\ ~ (r.by = key /\ key # "none") => ReadAs(r, key) = Unopened(r)
<1>1. ASSUME r # Absent PROVE Unopened(r) \in Filled /\ Unopened(r)["mapped"] = r.settings["mapped"]
  <2>1. r.settings \in Filled /\ r.settings["mapped"] \in Values
    BY <1>1, BlankFields DEF SavedRows, Filled
  <2> QED BY <2>1, BlankFields DEF Unopened, Filled
<1>2. r # Absent => r \in SavedRows /\ r.settings \in Filled BY DEF SavedRows
<1> QED BY <1>1, <1>2, BlankFields DEF ReadAs

LEMMA SettingsAreRead == Settings = ReadAs(row, master)
BY DEF Settings, ReadAs, Opens

(* What is read, as long as the worker has met no request. *)
LEMMA ReadsAsGiven ==
  ASSUME ConnectorInv, ~met
  PROVE  /\ Settings["mapped"] = given["mapped"]
         /\ ~blind /\ Readable => Settings = given
<1>1. row \in SavedRows \cup {Absent} BY DEF ConnectorInv, ConnectorTypeOK
<1> QED BY <1>1, SettingsAreRead, Readings, BlankFields
        DEF ConnectorInv, RowAsGiven, Readable, Opens

LEMMA RequestsAsk ==
  ASSUME NEW ask \in Asking
  PROVE  /\ \A f \in DOMAIN Blank : ask[f] \in Values \cup {"kept", "empty"}
         /\ \A f \in Secrets \cup {"mode"} : ask[f] # "none"
         /\ ask["mapped"] # "empty" /\ ask.mapped = ask["mapped"]
<1>1. "none" \notin Keys BY SettingsAssumption
<1>2. /\ ask["token"] \in Keys \cup {"kept", "empty"} /\ ask["key"] \in Keys \cup {"kept", "empty"}
      /\ ask["hook"] \in Keys \cup {"kept", "empty"} /\ ask["mode"] \in {"kept", "pat", "app"}
      /\ ask["mapped"] \in {"kept", "mapped", "none"}
  BY DEF Asking
<1> QED BY <1>1, <1>2, BlankFields DEF Values, Secrets

LEMMA ConnectorInitInv == ConnectorInit => ConnectorInv
<1> SUFFICES ASSUME ConnectorInit PROVE ConnectorInv OBVIOUS
<1>1. put.step # "asked" /\ put.step # "merged" /\ touch.step # "read" BY DEF ConnectorInit, NoPut
<1> QED BY <1>1, BlankFields
        DEF ConnectorInit, ConnectorInv, ConnectorTypeOK, RowAsGiven, TouchAsRead, PutAsGiven

(* A row that is written whole: from what is read, or from what is given. *)
LEMMA RowWritten ==
  ASSUME ConnectorInv, NEW settings \in Filled, Rewrite(settings), given' \in Filled,
         master \in MasterKeys \cup {"none"}, UNCHANGED master,
         ~met' => /\ settings["mapped"] = given'["mapped"]
                  /\ ~blind /\ Readable => settings = given'
  PROVE  /\ row' \in SavedRows \cup {Absent} /\ blind' \in BOOLEAN
         /\ RowAsGiven'
         /\ ~blind' => ~blind /\ Readable
<1>1. /\ row' = [state |-> "saved", settings |-> settings, by |-> master]
      /\ blind' = (blind \/ (row # Absent /\ ~Opens)) /\ master # "none"
  BY DEF Rewrite
<1>2. row' \in SavedRows /\ row'.settings = settings BY <1>1 DEF SavedRows
<1>3. blind' \in BOOLEAN BY <1>1 DEF ConnectorInv, ConnectorTypeOK
<1>4. ~blind' => ~blind /\ Readable BY <1>1 DEF Readable
<1>5. row' # Absent
  <2>1. row'.state = "saved" BY <1>1
  <2> QED BY <2>1 DEF Absent
<1> QED BY <1>2, <1>3, <1>4, <1>5 DEF RowAsGiven

LEMMA PutReadKeeps ==
  ASSUME ConnectorInv, NEW ask \in Asks(service), PutRead(ask), UNCHANGED master
  PROVE  ConnectorInv'
<1>1. ask \in Asking
  BY DEF Asks, Asking
<1> DEFINE got == [f \in Secrets \cup {"mode"} |-> CASE ask[f] = "kept" -> Settings[f]
                                                     [] ask[f] = "empty" -> "none"
                                                     [] OTHER -> ask[f]]
<1>2. /\ put' = [step |-> "asked", ask |-> ask, secrets |-> got]
      /\ UNCHANGED <<row, touch, given, blind, met>>
  BY DEF PutRead
<1>3. Settings \in Filled
  BY SettingsAreRead, Readings DEF ConnectorInv, ConnectorTypeOK
<1>4. \A f \in Secrets \cup {"mode"} :
        got[f] = IF ask[f] = "kept" THEN Settings[f] ELSE IF ask[f] = "empty" THEN "none" ELSE ask[f]
  OBVIOUS
<1>5. got \in [Secrets \cup {"mode"} -> Values]
  <2>1. Secrets \cup {"mode"} \subseteq DOMAIN Blank BY BlankFields DEF Secrets
  <2>2. \A f \in Secrets \cup {"mode"} : got[f] \in Values
    <3> HIDE DEF got
    <3> QED BY <1>1, <1>3, <1>4, <2>1, RequestsAsk DEF Filled, Values
  <2> QED BY <2>2
<1> HIDE DEF got
<1>6. put' \in AskedPuts /\ put'.step = "asked" /\ put'.ask = ask /\ put'.secrets = got
  BY <1>1, <1>2, <1>5 DEF AskedPuts
<1>7. Readable' = Readable BY <1>2 DEF Readable, Opens
<1>8. PutAsGiven' BY <1>2, <1>4, <1>6, <1>7, ReadsAsGiven DEF PutAsGiven
<1>9. ConnectorTypeOK' BY <1>2, <1>6 DEF ConnectorInv, ConnectorTypeOK
<1> QED BY <1>2, <1>8, <1>9 DEF ConnectorInv, RowAsGiven, TouchAsRead

LEMMA PutUpsertKeeps ==
  ASSUME ConnectorInv, PutUpsert, UNCHANGED master
  PROVE  ConnectorInv'
<1> DEFINE next == Merged(put)
<1>1. /\ put' = [step |-> "merged", ask |-> put.ask, next |-> next]
      /\ UNCHANGED <<row, touch, given, blind, met>> /\ put.step = "asked"
  BY DEF PutUpsert
<1>2. put \in AskedPuts
  BY <1>1 DEF ConnectorInv, ConnectorTypeOK, MergedPuts, NoPut
<1>3. put.ask \in Asking /\ put.secrets \in [Secrets \cup {"mode"} -> Values] BY <1>2 DEF AskedPuts
<1>4. Settings \in Filled
  BY SettingsAreRead, Readings DEF ConnectorInv, ConnectorTypeOK
<1>5. /\ next["mapped"] = IF put.ask["mapped"] = "kept" THEN Settings["mapped"] ELSE put.ask["mapped"]
      /\ \A f \in DOMAIN Blank \ {"mapped"} :
           next[f] = IF Provided(put.ask) /\ put.secrets[f] # "none" THEN put.secrets[f] ELSE Settings[f]
      /\ next = [f \in DOMAIN Blank |-> next[f]]
  BY BlankFields DEF Merged
<1> HIDE DEF next
<1>6. DOMAIN Blank \ {"mapped"} = Secrets \cup {"mode"} /\ "mapped" \in DOMAIN Blank
  BY BlankFields DEF Secrets
<1>7. \A f \in DOMAIN Blank : next[f] \in Values
  <2>1. next["mapped"] \in Values BY <1>3, <1>4, <1>5, <1>6, RequestsAsk DEF Filled
  <2>2. \A f \in Secrets \cup {"mode"} : next[f] \in Values BY <1>3, <1>4, <1>5, <1>6 DEF Filled
  <2> QED BY <1>6, <2>1, <2>2
<1>8. next \in Filled BY <1>5, <1>7 DEF Filled
<1>9. put' \in MergedPuts /\ put'.step = "merged" /\ put'.ask = put.ask /\ put'.next = next
  BY <1>1, <1>3, <1>8 DEF MergedPuts
<1>10. Readable' = Readable BY <1>1 DEF Readable, Opens
<1>11. \A f \in DOMAIN Blank :
         GivenWith(put.ask)[f] = IF put.ask[f] \in {"kept", "empty"} THEN given[f] ELSE put.ask[f]
  BY DEF GivenWith
<1>12. ~met => next["mapped"] = GivenWith(put.ask)["mapped"]
  BY <1>3, <1>5, <1>6, <1>11, ReadsAsGiven, RequestsAsk
<1>13. ~met /\ ~blind /\ Readable => next = GivenWith(put.ask)
  <2> SUFFICES ASSUME ~met, ~blind, Readable, NEW f \in DOMAIN Blank \ {"mapped"}
               PROVE  next[f] = GivenWith(put.ask)[f]
    BY <1>5, <1>6, <1>12 DEF GivenWith
  <2>1. Settings = given BY ReadsAsGiven
  <2>2. put.secrets[f] = IF put.ask[f] = "kept" THEN given[f]
                         ELSE IF put.ask[f] = "empty" THEN "none" ELSE put.ask[f]
    BY <1>1, <1>6 DEF ConnectorInv, PutAsGiven
  <2>3. put.ask[f] # "none" BY <1>3, <1>6, RequestsAsk
  <2>4. put.ask[f] # "kept" => Provided(put.ask) BY <1>6 DEF Provided
  <2> QED BY <1>5, <1>11, <2>1, <2>2, <2>3, <2>4
<1>14. PutAsGiven' BY <1>1, <1>9, <1>10, <1>12, <1>13 DEF PutAsGiven, GivenWith
<1>15. ConnectorTypeOK' BY <1>1, <1>9 DEF ConnectorInv, ConnectorTypeOK
<1> QED BY <1>1, <1>14, <1>15 DEF ConnectorInv, RowAsGiven, TouchAsRead

LEMMA PutWriteKeeps ==
  ASSUME ConnectorInv, PutWrite, UNCHANGED master, master \in MasterKeys \cup {"none"}
  PROVE  ConnectorInv'
<1>1. /\ put.step = "merged" /\ put' = NoPut /\ given' = GivenWith(put.ask)
      /\ UNCHANGED <<touch, met>> /\ Rewrite(put.next)
  BY DEF PutWrite, GivenWith
<1>2. put \in MergedPuts
  BY <1>1 DEF ConnectorInv, ConnectorTypeOK, AskedPuts, NoPut
<1>3. put.next \in Filled /\ put.ask \in Asking BY <1>2 DEF MergedPuts
<1>4. given' \in Filled
  <2>1. \A f \in DOMAIN Blank :
          (IF put.ask[f] \in {"kept", "empty"} THEN given[f] ELSE put.ask[f]) \in Values
    BY <1>3, RequestsAsk DEF ConnectorInv, ConnectorTypeOK, Filled
  <2> QED BY <1>1, <2>1 DEF GivenWith, Filled
<1>5. ~met' => /\ put.next["mapped"] = given'["mapped"]
               /\ ~blind /\ Readable => put.next = given'
  BY <1>1 DEF ConnectorInv, PutAsGiven
<1>6. row' \in SavedRows \cup {Absent} /\ blind' \in BOOLEAN /\ RowAsGiven'
  BY <1>1, <1>3, <1>4, <1>5, RowWritten
<1>7. put'.step # "asked" /\ put'.step # "merged" BY <1>1 DEF NoPut
<1> QED BY <1>1, <1>4, <1>6, <1>7 DEF ConnectorInv, ConnectorTypeOK, TouchAsRead, PutAsGiven

LEMMA TouchWriteKeeps ==
  ASSUME ConnectorInv, TouchWrite, UNCHANGED master, master \in MasterKeys \cup {"none"}
  PROVE  ConnectorInv'
<1>1. /\ touch.step = "read" /\ touch' = NoPut /\ met' = (met \/ row # touch.row)
      /\ UNCHANGED <<put, given>> /\ Rewrite(touch.settings)
  BY DEF TouchWrite
<1>2. touch.settings \in Filled /\ given' \in Filled /\ met' \in BOOLEAN
  BY <1>1 DEF ConnectorInv, ConnectorTypeOK
<1>3. ~met' => ~met /\ touch.settings = Settings
  BY <1>1, SettingsAreRead DEF ConnectorInv, TouchAsRead
<1>4. ~met' => /\ touch.settings["mapped"] = given'["mapped"]
               /\ ~blind /\ Readable => touch.settings = given'
  BY <1>1, <1>3, ReadsAsGiven
<1>5. /\ row' \in SavedRows \cup {Absent} /\ blind' \in BOOLEAN /\ RowAsGiven'
      /\ ~blind' => ~blind /\ Readable
  BY <1>1, <1>2, <1>4, RowWritten
<1>6. touch'.step # "read" BY <1>1 DEF NoPut
<1>7. PutAsGiven' BY <1>1, <1>3, <1>5 DEF ConnectorInv, PutAsGiven, GivenWith
<1> QED BY <1>1, <1>2, <1>5, <1>6, <1>7 DEF ConnectorInv, ConnectorTypeOK, TouchAsRead

(* A fetch, a stamp or a request that ends without writing. *)
LEMMA IdleKeeps ==
  ASSUME ConnectorInv, UNCHANGED <<row, given, blind, met>>,
         put' = NoPut \/ UNCHANGED <<put, master>>,
         /\ touch'.step = "read" => touch'.settings \in Filled
         /\ TouchAsRead'
  PROVE  ConnectorInv'
<1>1. CASE put' = NoPut
  <2>1. put'.step # "asked" /\ put'.step # "merged" BY <1>1 DEF NoPut
  <2> QED BY <1>1, <2>1 DEF ConnectorInv, ConnectorTypeOK, RowAsGiven, PutAsGiven
<1>2. CASE UNCHANGED <<put, master>>
  BY <1>2 DEF ConnectorInv, ConnectorTypeOK, RowAsGiven, PutAsGiven, Readable, Opens, GivenWith
<1> QED BY <1>1, <1>2

(* The master key changes only where no request and no fetch is under way. *)
MasterStays == UNCHANGED master \/ (put' = NoPut /\ touch' = NoPut)

LEMMA ConnectorKeeps ==
  ASSUME ConnectorInv, master \in MasterKeys \cup {"none"}, MasterStays,
         ConnectorNext \/ UNCHANGED connectorVars
  PROVE  ConnectorInv'
<1>1. NoPut.step # "read" BY DEF NoPut
<1>2. ASSUME PutRefused \/ FetchEnds \/ TouchRefused, UNCHANGED master PROVE ConnectorInv'
  <2>1. /\ UNCHANGED <<row, given, blind, met>>
        /\ put' = NoPut \/ UNCHANGED <<put, master>>
        /\ touch' = NoPut \/ UNCHANGED touch
    BY <1>2 DEF PutRefused, FetchEnds, TouchRefused
  <2>2. /\ touch'.step = "read" => touch'.settings \in Filled
        /\ TouchAsRead'
    BY <1>1, <1>2, <2>1 DEF ConnectorInv, ConnectorTypeOK, TouchAsRead
  <2> QED BY <2>1, <2>2, IdleKeeps
<1>3. ASSUME Fetch, UNCHANGED master PROVE ConnectorInv'
  <2>1. UNCHANGED <<row, put, given, blind, met>> /\ touch'.step = "fetching"
    BY <1>3 DEF Fetch
  <2>2. touch'.step # "read" BY <2>1
  <2> QED BY <1>3, <2>1, <2>2, IdleKeeps DEF TouchAsRead
<1>4. ASSUME TouchRead, UNCHANGED master PROVE ConnectorInv'
  <2>1. /\ UNCHANGED <<row, put, given, blind, met>>
        /\ touch'.settings = Settings /\ touch'.row = row
    BY <1>4 DEF TouchRead
  <2>2. Settings = ReadAs(row, master) /\ Settings \in Filled
    BY SettingsAreRead, Readings DEF ConnectorInv, ConnectorTypeOK
  <2>3. TouchAsRead' BY <1>4, <2>1, <2>2 DEF TouchAsRead
  <2> QED BY <1>4, <2>1, <2>2, <2>3, IdleKeeps
<1>5. ASSUME UNCHANGED <<row, given, blind, met>>, put' = NoPut, touch' = NoPut PROVE ConnectorInv'
  <2>1. touch'.step # "read" BY <1>1, <1>5
  <2> QED BY <1>5, <2>1, IdleKeeps DEF TouchAsRead
<1>6. ASSUME UNCHANGED connectorVars PROVE ConnectorInv'
  <2>1. UNCHANGED <<row, given, blind, met>> /\ UNCHANGED put /\ UNCHANGED touch
    BY <1>6 DEF connectorVars
  <2>2. CASE UNCHANGED master
    BY <2>1, <2>2, IdleKeeps DEF ConnectorInv, ConnectorTypeOK, TouchAsRead
  <2> QED BY <1>5, <2>1, <2>2 DEF MasterStays
<1>7. CASE ConnectorNext
  <2>1. CASE UNCHANGED settingsVars
    <3>1. UNCHANGED master BY <2>1 DEF settingsVars
    <3> QED BY <1>2, <1>3, <1>4, <1>5, <1>7, <3>1, PutReadKeeps, PutUpsertKeeps, PutWriteKeeps,
               TouchWriteKeeps DEF ConnectorNext
  <2>2. CASE ~ UNCHANGED settingsVars
    <3>1. UNCHANGED <<row, given, blind, met>> /\ put' = NoPut /\ touch' = NoPut
      BY <1>7, <2>2 DEF ConnectorNext
    <3> QED BY <1>5, <3>1
  <2> QED BY <2>1, <2>2
<1> QED BY <1>6, <1>7

LEMMA MasterStaysInASpace == [SpaceNext]_spaceVars => MasterStays
<1>1. ASSUME ConnectorNext PROVE MasterStays
  BY <1>1 DEF ConnectorNext, MasterStays, settingsVars
<1>2. ASSUME ConnectorAtRest, UNCHANGED connectorVars PROVE MasterStays
  BY <1>2 DEF ConnectorAtRest, ConnectorInit, connectorVars, MasterStays
<1>3. ASSUME UNCHANGED settingsVars PROVE MasterStays
  BY <1>3 DEF settingsVars, MasterStays
<1> QED BY <1>1, <1>2, <1>3 DEF SpaceNext, spaceVars

LEMMA ConnectorInvariant == SpaceSpec => [](SettingsInv /\ ConnectorInv)
<1>1. SpaceInit => ConnectorInv BY ConnectorInitInv DEF SpaceInit
<1>2. SettingsInv /\ ConnectorInv /\ [SpaceNext]_spaceVars => ConnectorInv'
  BY OneOfTheSpaceSteps, MasterStaysInASpace, ConnectorKeeps DEF SettingsInv
<1> QED BY <1>1, <1>2, SettingsInvariant, PTL DEF SpaceSpec, spaceVars

(* A fetch begins with what users gave. *)
LEMMA FetchesAsGiven ==
  ASSUME ConnectorInv, ConnectorNext \/ UNCHANGED connectorVars,
         touch.step = "idle", touch'.step = "fetching", ~met
  PROVE  /\ touch'.with["mapped"] = given["mapped"]
         /\ \/ blind
            \/ row # Absent /\ ~Opens /\ touch'.with = Unopened(row)
            \/ (row = Absent \/ Opens) /\ touch'.with = given
<1>1. Fetch
  BY DEF ConnectorNext, PutRead, PutUpsert, PutWrite, PutRefused, FetchEnds, TouchRead,
         TouchWrite, TouchRefused, connectorVars, NoPut
<1>2. touch'.with = Settings BY <1>1 DEF Fetch
<1>3. row \in SavedRows \cup {Absent} BY DEF ConnectorInv, ConnectorTypeOK
<1> QED BY <1>2, <1>3, ReadsAsGiven, SettingsAreRead, Readings DEF Readable, Opens

(* A review starts with the key its connection was last given, and a fetch  *)
(* with the secrets and the mappings of its connector, whatever was edited, *)
(* and under whichever master keys the server was started since: the box    *)
(* that was sealed with another key does not open, and upsert keeps field   *)
(* by field what the request leaves out.                                    *)
THEOREM SecretsAreAsGiven == SpaceSpec => SecretsAsGiven
<1>1. SettingsInv /\ [SpaceNext]_spaceVars
      => [started' # started /\ started'.conn # "none"
            => /\ started'.key = saved[started'.conn]
               /\ connections[started'.conn].box.by \in {"none", master}]_settingsVars
  BY OneOfTheSpaceSteps, StartsAsSaved
<1>2. ConnectorInv /\ [SpaceNext]_spaceVars
      => [touch.step = "idle" /\ touch'.step = "fetching" /\ ~met
            => /\ touch'.with.mapped = given.mapped
               /\ \/ blind
                  \/ row # Absent /\ ~Opens /\ touch'.with = Unopened(row)
                  \/ (row = Absent \/ Opens) /\ touch'.with = given]_connectorVars
  BY OneOfTheSpaceSteps, FetchesAsGiven
<1> QED BY <1>1, <1>2, SettingsInvariant, ConnectorInvariant, PTL
        DEF SpaceSpec, spaceVars, SecretsAsGiven, KeyAsSaved, FetchAsGiven
=============================================================================
