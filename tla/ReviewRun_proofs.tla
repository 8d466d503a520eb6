-------------------------- MODULE ReviewRun_proofs --------------------------
(***************************************************************************)
(* What holds of the runs of the API server for any number of runs and     *)
(* clients, and however often the server dies or a snapshot write raises.  *)
(***************************************************************************)
EXTENDS ReviewRun, SequenceTheorems, TLAPS

(* The task of a run and its record agree, and what the record or a client   *)
(* was told survives on disk: nothing writes the snapshot of a finished run, *)
(* and its reports are never removed.                                        *)
Writing == {"md_open", "md_done", "json_open", "json_done"}

TaskAgreesWithRecord(r) ==
    /\ pc[r] = "none" => job[r] \in {"none"} \cup Terminal
    /\ pc[r] = "allocated" => job[r] = "none"
    /\ pc[r] = "created" => job[r] = "queued"
    /\ pc[r] \in {"graph"} \cup Writing => job[r] = "running"
    /\ pc[r] = "done" => job[r] \in {"running"} \cup Terminal
    /\ ~up => job[r] = "none" /\ pc[r] = "none"

FilesFollowTask(r) ==
    /\ pc[r] # "none" \/ job[r] # "none" => r \in dir
    /\ pc[r] \in Writing => report[r].md # "absent"
    /\ pc[r] \in {"json_open", "json_done"} => report[r].json # "absent"

CompletedIsOnDisk(r) ==
    /\ job[r] = "completed" \/ "completed" \in hist[r].told =>
          r \in dir /\ PersistedStatus(r) = "completed"
    /\ up /\ "completed" \in hist[r].told => job[r] = "completed"
    /\ hist[r].acked => r \in dir /\ (up => job[r] # "none")

RunOK(r) == TaskAgreesWithRecord(r) /\ FilesFollowTask(r) /\ CompletedIsOnDisk(r)

(* A stream is of a run that has a record, and a terminal event on its way   *)
(* says what the record says.                                                *)
ClientOK(c) ==
    /\ stream[c].at # "idle" => stream[c].run \in Runs /\ job[stream[c].run] # "none"
    /\ queue[c] # <<>> => stream[c].at = "subscribed"
    /\ stream[c].at = "ended" =>
          stream[c].got = job[stream[c].run] /\ job[stream[c].run] \in Terminal
    /\ stream[c].at = "subscribed" =>
          \A i \in DOMAIN queue[c] :
              queue[c][i] \in Terminal => queue[c][i] = job[stream[c].run]

RunsOK == \A r \in Runs : RunOK(r)
ClientsOK == \A c \in Clients : ClientOK(c)
ReviewRunInv == TypeOK /\ RunsOK /\ ClientsOK

(* What leaves a run alone leaves its invariant. *)
LEMMA OtherRunsStay ==
  ASSUME NEW q, RunOK(q), up' = up, dir \subseteq dir',
         pc'[q] = pc[q], job'[q] = job[q], snap'[q] = snap[q], report'[q] = report[q],
         hist'[q] = hist[q]
  PROVE  RunOK(q)'
BY DEF RunOK, TaskAgreesWithRecord, FilesFollowTask, CompletedIsOnDisk, PersistedStatus,
       HasReports

(* An event that is published says of a run what its record says. *)
LEMMA ClientsStay ==
  ASSUME NEW c, ClientOK(c), stream' = stream, queue[c] \in Seq({"progress"} \cup Terminal),
         \A q \in Runs : job[q] # "none" => job'[q] # "none",
         \A q \in Runs : job[q] \in Terminal => job'[q] = job[q],
         \/ queue'[c] = queue[c]
         \/ /\ stream[c].at = "subscribed"
            /\ \E e : /\ queue'[c] = Append(queue[c], e)
                      /\ e \in Terminal => e = job'[stream[c].run]
  PROVE  ClientOK(c)'
<1>1. CASE queue'[c] = queue[c]
  BY <1>1 DEF ClientOK, Terminal
<1>2. ASSUME NEW e, stream[c].at = "subscribed", queue'[c] = Append(queue[c], e),
             e \in Terminal => e = job'[stream[c].run]
      PROVE  ClientOK(c)'
  <2>1. /\ DOMAIN queue[c] = 1 .. Len(queue[c]) /\ Len(queue[c]) \in Nat
        /\ DOMAIN queue'[c] = 1 .. Len(queue[c]) + 1
        /\ queue'[c][Len(queue[c]) + 1] = e
        /\ \A i \in 1 .. Len(queue[c]) : queue'[c][i] = queue[c][i]
    BY <1>2
  <2>2. stream[c].run \in Runs /\ job'[stream[c].run] # "none"
    BY <1>2 DEF ClientOK
  <2>3. ASSUME NEW i \in DOMAIN queue'[c], queue'[c][i] \in Terminal
        PROVE  queue'[c][i] = job'[stream[c].run]
    <3>1. CASE i = Len(queue[c]) + 1
      BY <1>2, <2>1, <2>3, <3>1
    <3>2. CASE i # Len(queue[c]) + 1
      <4>1. i \in DOMAIN queue[c] /\ queue'[c][i] = queue[c][i]
        BY <2>1, <3>2
      <4>2. queue[c][i] = job[stream[c].run]
        BY <1>2, <2>3, <4>1 DEF ClientOK
      <4> QED BY <2>2, <2>3, <4>1, <4>2
    <3> QED BY <3>1, <3>2
  <2> QED BY <1>2, <2>2, <2>3 DEF ClientOK
<1> QED BY <1>1, <1>2

(* Publish appends to the queues of the streams of one run and no other. *)
LEMMA PublishAppends ==
  ASSUME TypeOK, NEW r \in Runs, NEW e \in {"progress"} \cup Terminal, Publish(r, e)
  PROVE  /\ queue' \in [Clients -> Seq({"progress"} \cup Terminal)]
         /\ \A c \in Clients :
               \/ queue'[c] = queue[c]
               \/ /\ stream[c].at = "subscribed" /\ stream[c].run = r
                  /\ queue'[c] = Append(queue[c], e)
BY DEF TypeOK, Publish

(* The steps of a run, one by one: its own record, task and files, then the *)
(* others', then the streams.                                               *)
LEMMA AllocateKeepsInv ==
  ASSUME ReviewRunInv, NEW r \in Runs, Allocate(r)
  PROVE  ReviewRunInv'
<1>1. TypeOK'
  BY DEF ReviewRunInv, TypeOK, Allocate
<1>2. RunOK(r)'
  BY DEF ReviewRunInv, TypeOK, RunsOK, Allocate, RunOK, TaskAgreesWithRecord, FilesFollowTask,
         CompletedIsOnDisk, PersistedStatus, HasReports, Writing, Terminal
<1>3. \A q \in Runs \ {r} : RunOK(q)'
  BY OtherRunsStay DEF ReviewRunInv, TypeOK, RunsOK, Allocate
<1>4. ClientsOK'
  BY ClientsStay DEF ReviewRunInv, TypeOK, ClientsOK, Allocate
<1> QED BY <1>1, <1>2, <1>3, <1>4 DEF ReviewRunInv, RunsOK

LEMMA RegisterKeepsInv ==
  ASSUME ReviewRunInv, NEW r \in Runs, Register(r)
  PROVE  ReviewRunInv'
<1>1. TypeOK'
  BY DEF ReviewRunInv, TypeOK, Register, Persist, Active
<1>2. RunOK(r)'
  BY DEF ReviewRunInv, TypeOK, RunsOK, Register, Persist, RunOK, TaskAgreesWithRecord,
         FilesFollowTask, CompletedIsOnDisk, PersistedStatus, HasReports, Writing, Terminal
<1>3. \A q \in Runs \ {r} : RunOK(q)'
  BY OtherRunsStay DEF ReviewRunInv, TypeOK, RunsOK, Register, Persist
<1>4. ClientsOK'
  BY ClientsStay
     DEF ReviewRunInv, TypeOK, ClientsOK, RunsOK, RunOK, TaskAgreesWithRecord, Register, Terminal
<1> QED BY <1>1, <1>2, <1>3, <1>4 DEF ReviewRunInv, RunsOK

LEMMA StartKeepsInv ==
  ASSUME ReviewRunInv, NEW r \in Runs, Start(r)
  PROVE  ReviewRunInv'
<1>1. TypeOK'
  BY DEF ReviewRunInv, TypeOK, Start, Persist, Active
<1>2. RunOK(r)'
  BY DEF ReviewRunInv, TypeOK, RunsOK, Start, Persist, RunOK, TaskAgreesWithRecord,
         FilesFollowTask, CompletedIsOnDisk, PersistedStatus, HasReports, Writing, Terminal
<1>3. \A q \in Runs \ {r} : RunOK(q)'
  BY OtherRunsStay DEF ReviewRunInv, TypeOK, RunsOK, Start, Persist
<1>4. ClientsOK'
  BY ClientsStay
     DEF ReviewRunInv, TypeOK, ClientsOK, RunsOK, RunOK, TaskAgreesWithRecord, Start, Terminal
<1> QED BY <1>1, <1>2, <1>3, <1>4 DEF ReviewRunInv, RunsOK

LEMMA ProgressKeepsInv ==
  ASSUME ReviewRunInv, NEW r \in Runs, Progress(r)
  PROVE  ReviewRunInv'
<1>1. /\ queue' \in [Clients -> Seq({"progress"} \cup Terminal)]
      /\ \A c \in Clients :
            \/ queue'[c] = queue[c]
            \/ stream[c].at = "subscribed" /\ queue'[c] = Append(queue[c], "progress")
  BY PublishAppends DEF ReviewRunInv, Progress
<1>2. TypeOK'
  BY <1>1 DEF ReviewRunInv, TypeOK, Progress, Persist, Active
<1>3. RunOK(r)'
  BY DEF ReviewRunInv, TypeOK, RunsOK, Progress, Persist, RunOK, TaskAgreesWithRecord,
         FilesFollowTask, CompletedIsOnDisk, PersistedStatus, HasReports, Writing, Terminal
<1>4. \A q \in Runs \ {r} : RunOK(q)'
  BY OtherRunsStay DEF ReviewRunInv, TypeOK, RunsOK, Progress, Persist
<1>5. ClientsOK'
  <2>1. "progress" \notin Terminal /\ job' = job /\ stream' = stream
    BY DEF Terminal, Progress
  <2> QED BY <1>1, <2>1, ClientsStay DEF ReviewRunInv, TypeOK, ClientsOK
<1> QED BY <1>2, <1>3, <1>4, <1>5 DEF ReviewRunInv, RunsOK

LEMMA WriteReportsKeepsInv ==
  ASSUME ReviewRunInv, NEW r \in Runs, WriteReports(r)
  PROVE  ReviewRunInv'
<1> DEFINE files == report[r]
<1>1. PICK now :
        /\ report' = [report EXCEPT ![r] = now]
        /\ \/ pc[r] = "graph" /\ pc' = [pc EXCEPT ![r] = "md_open"]
              /\ now = [files EXCEPT !.md = "torn"]
           \/ pc[r] = "md_open" /\ pc' = [pc EXCEPT ![r] = "md_done"]
              /\ now = [files EXCEPT !.md = "whole"]
           \/ pc[r] = "md_done" /\ pc' = [pc EXCEPT ![r] = "json_open"]
              /\ now = [files EXCEPT !.json = "torn"]
           \/ pc[r] = "json_open" /\ pc' = [pc EXCEPT ![r] = "json_done"]
              /\ now = [files EXCEPT !.json = "whole"]
  <2> DEFINE now(i) == CASE i = 1 -> [files EXCEPT !.md = "torn"]
                         [] i = 2 -> [files EXCEPT !.md = "whole"]
                         [] i = 3 -> [files EXCEPT !.json = "torn"]
                         [] OTHER -> [files EXCEPT !.json = "whole"]
  <2>1. PICK i \in 1 .. 4 :
          /\ pc[r] = ReportSteps[i] /\ pc' = [pc EXCEPT ![r] = ReportSteps[i + 1]]
          /\ report' = [report EXCEPT ![r] = now(i)]
    BY Zenon DEF WriteReports
  <2>2. i = 1 \/ i = 2 \/ i = 3 \/ i = 4
    OBVIOUS
  <2>3. /\ ReportSteps[1] = "graph" /\ ReportSteps[2] = "md_open"
        /\ ReportSteps[3] = "md_done" /\ ReportSteps[4] = "json_open"
        /\ ReportSteps[5] = "json_done"
    BY DEF ReportSteps
  <2>4. CASE i = 1
    <3>1. now(i) = [files EXCEPT !.md = "torn"]
      BY <2>4
    <3>2. ReportSteps[i] = "graph" /\ ReportSteps[i + 1] = "md_open"
      BY <2>3, <2>4
    <3> QED BY <2>1, <3>1, <3>2
  <2>5. CASE i = 2
    <3>1. now(i) = [files EXCEPT !.md = "whole"]
      BY <2>5
    <3>2. ReportSteps[i] = "md_open" /\ ReportSteps[i + 1] = "md_done"
      BY <2>3, <2>5
    <3> QED BY <2>1, <3>1, <3>2
  <2>6. CASE i = 3
    <3>1. now(i) = [files EXCEPT !.json = "torn"]
      BY <2>6
    <3>2. ReportSteps[i] = "md_done" /\ ReportSteps[i + 1] = "json_open"
      BY <2>3, <2>6
    <3> QED BY <2>1, <3>1, <3>2
  <2>7. CASE i = 4
    <3>1. now(i) = [files EXCEPT !.json = "whole"]
      BY <2>7
    <3>2. ReportSteps[i] = "json_open" /\ ReportSteps[i + 1] = "json_done"
      BY <2>3, <2>7
    <3> QED BY <2>1, <3>1, <3>2
  <2> QED BY <2>2, <2>4, <2>5, <2>6, <2>7
<1>2. files \in [md : FileStates, json : FileStates]
  BY DEF ReviewRunInv, TypeOK
<1>3. /\ now \in [md : FileStates, json : FileStates]
      /\ files.md # "absent" => now.md # "absent"
      /\ files.json # "absent" => now.json # "absent"
      /\ pc'[r] \in Writing /\ pc[r] \in {"graph"} \cup Writing
      /\ now.md # "absent" \/ pc[r] \in Writing
      /\ pc'[r] \in {"json_open", "json_done"} =>
            now.json # "absent"
  BY <1>1, <1>2 DEF FileStates, Writing, ReviewRunInv, TypeOK
<1>4. TypeOK'
  BY <1>1, <1>3 DEF ReviewRunInv, TypeOK, WriteReports
<1>5. RunOK(r)'
  BY <1>1, <1>3 DEF ReviewRunInv, TypeOK, RunsOK, WriteReports, RunOK, TaskAgreesWithRecord,
         FilesFollowTask, CompletedIsOnDisk, PersistedStatus, HasReports, Writing, Terminal
<1>6. \A q \in Runs \ {r} : RunOK(q)'
  BY <1>1, OtherRunsStay DEF ReviewRunInv, TypeOK, RunsOK, WriteReports
<1>7. ClientsOK'
  BY ClientsStay DEF ReviewRunInv, TypeOK, ClientsOK, WriteReports
<1> QED BY <1>4, <1>5, <1>6, <1>7 DEF ReviewRunInv, RunsOK

LEMMA FinishKeepsInv ==
  ASSUME ReviewRunInv, NEW r \in Runs, NEW s \in Terminal, Finish(r, s)
  PROVE  ReviewRunInv'
<1>1. /\ queue' \in [Clients -> Seq({"progress"} \cup Terminal)]
      /\ \A c \in Clients :
            \/ queue'[c] = queue[c]
            \/ /\ stream[c].at = "subscribed" /\ stream[c].run = r
               /\ queue'[c] = Append(queue[c], s)
  BY PublishAppends DEF ReviewRunInv, Finish
<1>2. PICK told \in SUBSET Terminal :
        /\ told \subseteq hist[r].told \cup {s}
        /\ hist' = [hist EXCEPT ![r].told = told]
  BY DEF Finish, ReviewRunInv, TypeOK
<1>3. /\ hist' \in [Runs -> [acked : BOOLEAN, told : SUBSET Terminal, faulted : BOOLEAN]]
      /\ hist'[r].told = told /\ hist'[r].acked = hist[r].acked
      /\ \A q \in Runs \ {r} : hist'[q] = hist[q]
  BY <1>2 DEF ReviewRunInv, TypeOK
<1>4. TypeOK'
  BY <1>1, <1>3 DEF ReviewRunInv, TypeOK, Finish, Persist
<1>5. RunOK(r)'
  BY <1>2, <1>3 DEF ReviewRunInv, TypeOK, RunsOK, Finish, Persist, RunOK, TaskAgreesWithRecord,
         FilesFollowTask, CompletedIsOnDisk, PersistedStatus, HasReports, Writing, Terminal
<1>6. \A q \in Runs \ {r} : RunOK(q)'
  BY <1>3, OtherRunsStay DEF ReviewRunInv, TypeOK, RunsOK, Finish, Persist
<1>7. ClientsOK'
  <2>1. /\ job[r] = "running" /\ job'[r] = s /\ stream' = stream
        /\ \A q \in Runs \ {r} : job'[q] = job[q]
    BY DEF ReviewRunInv, TypeOK, RunsOK, RunOK, TaskAgreesWithRecord, Finish, Writing
  <2>2. \A q \in Runs : /\ job[q] # "none" => job'[q] # "none"
                        /\ job[q] \in Terminal => job'[q] = job[q]
    BY <2>1 DEF Terminal
  <2> QED BY <1>1, <2>1, <2>2, ClientsStay DEF ReviewRunInv, TypeOK, ClientsOK
<1> QED BY <1>4, <1>5, <1>6, <1>7 DEF ReviewRunInv, RunsOK

LEMMA PersistFailsKeepsInv ==
  ASSUME ReviewRunInv, NEW r \in Runs, PersistFails(r)
  PROVE  ReviewRunInv'
<1>1. /\ hist' \in [Runs -> [acked : BOOLEAN, told : SUBSET Terminal, faulted : BOOLEAN]]
      /\ hist'[r].told = hist[r].told /\ hist'[r].acked = hist[r].acked
      /\ \A q \in Runs \ {r} : hist'[q] = hist[q]
  <2> DEFINE now == [hist[r] EXCEPT !.faulted = TRUE]
  <2>1. hist' = [hist EXCEPT ![r] = now]
    BY DEF PersistFails
  <2>2. hist \in [Runs -> [acked : BOOLEAN, told : SUBSET Terminal, faulted : BOOLEAN]]
    BY DEF ReviewRunInv, TypeOK
  <2>3. /\ now \in [acked : BOOLEAN, told : SUBSET Terminal, faulted : BOOLEAN]
        /\ now.told = hist[r].told /\ now.acked = hist[r].acked
    BY <2>2
  <2> HIDE DEF now
  <2> QED BY <2>1, <2>2, <2>3
<1>2. PICK s \in {"running"} \cup Terminal :
        /\ job' = [job EXCEPT ![r] = s]
        /\ \/ pc[r] = "created" /\ s = "running"
           \/ pc[r] = "json_done" /\ s \in Terminal
  BY DEF PersistFails
<1>3. TypeOK'
  <2>1. job' \in [Runs -> {"none"} \cup Active \cup Terminal]
    BY <1>2 DEF ReviewRunInv, TypeOK, Active
  <2>2. /\ snap' \in [Runs -> {"absent", "torn"} \cup Active \cup Terminal]
        /\ pc' \in [Runs -> {"none", "allocated", "created", "graph", "md_open", "md_done",
                             "json_open", "json_done", "done"}]
        /\ faults' \in Nat /\ busy' \in Runs \cup {NoRun}
    BY DEF ReviewRunInv, TypeOK, PersistFails
  <2>3. UNCHANGED <<up, dir, report, events, stream, queue, crashes>>
    BY DEF PersistFails
  <2> QED BY <1>1, <2>1, <2>2, <2>3 DEF ReviewRunInv, TypeOK
<1>4. RunOK(r)'
  BY <1>1, <1>2
     DEF ReviewRunInv, TypeOK, RunsOK, PersistFails, RunOK, TaskAgreesWithRecord,
         FilesFollowTask, CompletedIsOnDisk, PersistedStatus, HasReports, Writing, Terminal
<1>5. \A q \in Runs \ {r} : RunOK(q)'
  BY <1>1, <1>2, OtherRunsStay DEF ReviewRunInv, TypeOK, RunsOK, PersistFails
<1>6. ClientsOK'
  <2>1. /\ job[r] \in {"queued", "running"} /\ job'[r] = s /\ stream' = stream /\ queue' = queue
        /\ \A q \in Runs \ {r} : job'[q] = job[q]
    BY <1>2 DEF ReviewRunInv, TypeOK, RunsOK, RunOK, TaskAgreesWithRecord, PersistFails, Writing
  <2>2. \A q \in Runs : /\ job[q] # "none" => job'[q] # "none"
                        /\ job[q] \in Terminal => job'[q] = job[q]
    BY <2>1 DEF Terminal
  <2> QED BY <2>1, <2>2, ClientsStay DEF ReviewRunInv, TypeOK, ClientsOK
<1> QED BY <1>3, <1>4, <1>5, <1>6 DEF ReviewRunInv, RunsOK

(* The steps of the streams. *)
LEMMA StreamMoves ==
  ASSUME ReviewRunInv, NEW c \in Clients, NEW now \in [run : Runs \cup {NoRun},
                               at : {"idle", "asked", "subscribed", "ended"},
                               got : {"none"} \cup Terminal],
         NEW todo \in Seq({"progress"} \cup Terminal),
         stream' = [stream EXCEPT ![c] = now], queue' = [queue EXCEPT ![c] = todo],
         UNCHANGED <<up, busy, dir, snap, report, job, pc, events, crashes, faults>>,
         hist' = hist \/ \E r \in Runs : /\ job[r] \in Terminal
                                         /\ hist' = [hist EXCEPT ![r].told = @ \cup {job[r]}],
         now.at # "idle" => now.run \in Runs /\ job[now.run] # "none",
         todo # <<>> => now.at = "subscribed",
         now.at = "ended" => now.got = job[now.run] /\ job[now.run] \in Terminal,
         now.at = "subscribed" =>
            \A i \in DOMAIN todo : todo[i] \in Terminal => todo[i] = job[now.run]
  PROVE  ReviewRunInv'
<1>1. /\ hist' \in [Runs -> [acked : BOOLEAN, told : SUBSET Terminal, faulted : BOOLEAN]]
      /\ \A r \in Runs : /\ hist'[r].acked = hist[r].acked
                         /\ \/ hist'[r].told = hist[r].told
                            \/ /\ job[r] \in Terminal
                               /\ hist'[r].told = hist[r].told \cup {job[r]}
  <2>1. hist \in [Runs -> [acked : BOOLEAN, told : SUBSET Terminal, faulted : BOOLEAN]]
    BY DEF ReviewRunInv, TypeOK
  <2>2. ASSUME NEW r \in Runs, job[r] \in Terminal,
               hist' = [hist EXCEPT ![r].told = @ \cup {job[r]}]
        PROVE  /\ hist' \in [Runs -> [acked : BOOLEAN, told : SUBSET Terminal, faulted : BOOLEAN]]
               /\ hist'[r].acked = hist[r].acked /\ hist'[r].told = hist[r].told \cup {job[r]}
               /\ \A q \in Runs \ {r} : hist'[q] = hist[q]
    <3> DEFINE h == [hist[r] EXCEPT !.told = @ \cup {job[r]}]
    <3>1. /\ h \in [acked : BOOLEAN, told : SUBSET Terminal, faulted : BOOLEAN]
          /\ h.acked = hist[r].acked /\ h.told = hist[r].told \cup {job[r]}
      BY <2>1, <2>2
    <3>2. hist' = [hist EXCEPT ![r] = h]
      BY <2>2
    <3> HIDE DEF h
    <3> QED BY <2>1, <3>1, <3>2
  <2>3. CASE hist' = hist
    BY <2>1, <2>3
  <2>4. ASSUME NEW r \in Runs, job[r] \in Terminal,
               hist' = [hist EXCEPT ![r].told = @ \cup {job[r]}],
               NEW q \in Runs
        PROVE  /\ hist'[q].acked = hist[q].acked
               /\ \/ hist'[q].told = hist[q].told
                  \/ job[q] \in Terminal /\ hist'[q].told = hist[q].told \cup {job[q]}
    BY <2>2, <2>4
  <2> QED BY <2>2, <2>3, <2>4
<1>2. TypeOK'
  BY <1>1 DEF ReviewRunInv, TypeOK
<1>3. RunsOK'
  <2> SUFFICES ASSUME NEW r \in Runs
               PROVE  RunOK(r)'
    BY DEF RunsOK
  <2>1. RunOK(r)
    BY DEF ReviewRunInv, RunsOK
  <2>2. TaskAgreesWithRecord(r)' /\ FilesFollowTask(r)'
    BY <2>1 DEF RunOK, TaskAgreesWithRecord, FilesFollowTask
  <2>3. /\ PersistedStatus(r)' = PersistedStatus(r) /\ dir' = dir /\ up' = up /\ job' = job
        /\ CompletedIsOnDisk(r)
    BY <2>1 DEF PersistedStatus, HasReports, RunOK
  <2>4. "completed" \in hist'[r].told => "completed" \in hist[r].told \/ job[r] = "completed"
    BY <1>1
  <2>5. CompletedIsOnDisk(r)'
    BY <1>1, <2>3, <2>4 DEF CompletedIsOnDisk
  <2> QED BY <2>2, <2>5 DEF RunOK
<1>4. ClientsOK'
  <2> SUFFICES ASSUME NEW d \in Clients
               PROVE  ClientOK(d)'
    BY DEF ClientsOK
  <2>1. CASE d = c
    <3>1. stream'[d] = now /\ queue'[d] = todo /\ job' = job
      BY <2>1 DEF ReviewRunInv, TypeOK
    <3> QED BY <3>1 DEF ClientOK
  <2>2. CASE d # c
    <3>1. stream'[d] = stream[d] /\ queue'[d] = queue[d] /\ job' = job /\ ClientOK(d)
      BY <2>2 DEF ReviewRunInv, TypeOK, ClientsOK
    <3> QED BY <3>1 DEF ClientOK
  <2> QED BY <2>1, <2>2
<1> QED BY <1>2, <1>3, <1>4 DEF ReviewRunInv

LEMMA StreamsKeepInv ==
  ASSUME ReviewRunInv, NEW c \in Clients,
         (\E r \in Runs : AskStream(c, r)) \/ BeginStream(c) \/ Deliver(c) \/ Disconnect(c)
  PROVE  ReviewRunInv'
<1> DEFINE Streams == [run : Runs \cup {NoRun}, at : {"idle", "asked", "subscribed", "ended"},
                       got : {"none"} \cup Terminal]
           was == stream[c]
<1>1. /\ was \in Streams /\ queue[c] \in Seq({"progress"} \cup Terminal)
      /\ queue \in [Clients -> Seq({"progress"} \cup Terminal)]
      /\ stream \in [Clients -> Streams] /\ ClientOK(c)
  BY DEF ReviewRunInv, TypeOK, ClientsOK
<1>2. queue = [queue EXCEPT ![c] = queue[c]]
  BY <1>1
<1>3. ASSUME NEW r \in Runs, AskStream(c, r)
      PROVE  ReviewRunInv'
  <2> DEFINE now == [run |-> r, at |-> "asked", got |-> "none"]
  <2>1. now \in Streams /\ now.at = "asked" /\ now.run = r
    OBVIOUS
  <2>2. /\ was.at = "idle" /\ job[r] # "none" /\ stream' = [stream EXCEPT ![c] = now]
        /\ UNCHANGED <<up, busy, dir, snap, report, job, pc, events, queue, hist, crashes, faults>>
    BY <1>3 DEF AskStream
  <2>3. queue[c] = <<>>
    BY <1>1, <2>2 DEF ClientOK
  <2> HIDE DEF now
  <2> QED BY <1>1, <1>2, <2>1, <2>2, <2>3, StreamMoves
<1>4. ASSUME BeginStream(c), job[was.run] \in Active
      PROVE  ReviewRunInv'
  <2> DEFINE now == [was EXCEPT !.at = "subscribed"]
  <2>1. now \in Streams /\ now.at = "subscribed" /\ now.run = was.run
    BY <1>1
  <2>2. /\ was.at = "asked" /\ stream' = [stream EXCEPT ![c] = now]
        /\ UNCHANGED <<up, busy, dir, snap, report, job, pc, events, queue, hist, crashes, faults>>
    BY <1>4 DEF BeginStream
  <2>3. queue[c] = <<>> /\ was.run \in Runs /\ job[was.run] # "none"
    BY <1>1, <2>2 DEF ClientOK
  <2>4. queue' = [queue EXCEPT ![c] = <<>>] /\ <<>> \in Seq({"progress"} \cup Terminal)
    BY <1>2, <2>2, <2>3
  <2>5. \A i \in DOMAIN <<>> : FALSE
    OBVIOUS
  <2> HIDE DEF now
  <2>6. hist' = hist /\ UNCHANGED <<up, busy, dir, snap, report, job, pc, events, crashes, faults>>
    BY <2>2
  <2>7. now \in Streams /\ now.at # "ended" /\ now.at = "subscribed"
        /\ now.run \in Runs /\ job[now.run] # "none" /\ stream' = [stream EXCEPT ![c] = now]
    BY <2>1, <2>2, <2>3
  <2> QED BY <2>4, <2>5, <2>6, <2>7, StreamMoves
<1>5. ASSUME BeginStream(c), job[was.run] \notin Active
      PROVE  ReviewRunInv'
  <2> DEFINE now == [[was EXCEPT !.at = "ended"] EXCEPT !.got = job[was.run]]
  <2>1. /\ was.at = "asked"
        /\ hist' = [hist EXCEPT ![was.run].told = @ \cup {job[was.run]}]
        /\ UNCHANGED <<up, busy, dir, snap, report, job, pc, events, queue, crashes, faults>>
    BY <1>5 DEF BeginStream
  <2>2. queue[c] = <<>> /\ was.run \in Runs /\ job[was.run] # "none"
    BY <1>1, <2>1 DEF ClientOK
  <2>3. job[was.run] \in Terminal
    BY <1>5, <2>2 DEF ReviewRunInv, TypeOK
  <2>4. now \in Streams /\ now.at = "ended" /\ now.run = was.run /\ now.got = job[was.run]
    BY <1>1, <2>3
  <2>5. stream' = [stream EXCEPT ![c] = now]
    BY <1>1, <1>5 DEF BeginStream
  <2>6. \E r \in Runs : /\ job[r] \in Terminal
                        /\ hist' = [hist EXCEPT ![r].told = @ \cup {job[r]}]
    BY <2>1, <2>2, <2>3
  <2>7. queue' = [queue EXCEPT ![c] = <<>>] /\ <<>> \in Seq({"progress"} \cup Terminal)
    BY <1>2, <2>1, <2>2
  <2>8. UNCHANGED <<up, busy, dir, snap, report, job, pc, events, crashes, faults>>
    BY <2>1
  <2>9. /\ now \in Streams /\ now.at = "ended" /\ now.at # "subscribed" /\ now.run \in Runs
        /\ job[now.run] # "none" /\ now.got = job[now.run] /\ job[now.run] \in Terminal
    BY <2>2, <2>3, <2>4
  <2> HIDE DEF now
  <2> QED BY <2>5, <2>6, <2>7, <2>8, <2>9, StreamMoves
<1>6. ASSUME Deliver(c), Head(queue[c]) \in Terminal
      PROVE  ReviewRunInv'
  <2> DEFINE now == [[was EXCEPT !.at = "ended"] EXCEPT !.got = Head(queue[c])]
  <2>1. /\ was.at = "subscribed" /\ queue[c] # <<>> /\ queue' = [queue EXCEPT ![c] = <<>>]
        /\ UNCHANGED <<up, busy, dir, snap, report, job, pc, events, hist, crashes, faults>>
    BY <1>6 DEF Deliver
  <2>2. was.run \in Runs /\ job[was.run] # "none" /\ Head(queue[c]) = job[was.run]
    <3>1. 1 \in DOMAIN queue[c] /\ queue[c][1] = Head(queue[c])
      BY <1>1, <2>1
    <3> QED BY <1>1, <1>6, <2>1, <3>1 DEF ClientOK
  <2>3. now \in Streams /\ now.at = "ended" /\ now.run = was.run /\ now.got = Head(queue[c])
    BY <1>1, <1>6
  <2>4. <<>> \in Seq({"progress"} \cup Terminal)
    OBVIOUS
  <2>5. stream' = [stream EXCEPT ![c].at = "ended", ![c].got = Head(queue[c])]
    BY <1>6, Zenon DEF Deliver
  <2>6. stream' = [stream EXCEPT ![c] = now]
    BY <1>1, <2>5
  <2> HIDE DEF now
  <2> QED BY <1>6, <2>1, <2>2, <2>3, <2>4, <2>6, StreamMoves
<1>7. ASSUME Deliver(c), Head(queue[c]) \notin Terminal
      PROVE  ReviewRunInv'
  <2>1. /\ was.at = "subscribed" /\ queue[c] # <<>> /\ queue' = [queue EXCEPT ![c] = Tail(@)]
        /\ stream' = stream
        /\ UNCHANGED <<up, busy, dir, snap, report, job, pc, events, hist, crashes, faults>>
    BY <1>7 DEF Deliver
  <2>2. was.run \in Runs /\ job[was.run] # "none"
    BY <1>1, <2>1 DEF ClientOK
  <2>3. /\ Tail(queue[c]) \in Seq({"progress"} \cup Terminal)
        /\ \A i \in DOMAIN Tail(queue[c]) :
              i + 1 \in DOMAIN queue[c] /\ Tail(queue[c])[i] = queue[c][i + 1]
    BY <1>1, <2>1
  <2>4. \A i \in DOMAIN Tail(queue[c]) :
          Tail(queue[c])[i] \in Terminal => Tail(queue[c])[i] = job[was.run]
    BY <1>1, <2>1, <2>3 DEF ClientOK
  <2>5. stream' = [stream EXCEPT ![c] = was]
    BY <1>1, <2>1
  <2> QED BY <1>1, <2>1, <2>2, <2>3, <2>4, <2>5, StreamMoves
<1>8. ASSUME Disconnect(c)
      PROVE  ReviewRunInv'
  <2>1. /\ stream' = [stream EXCEPT ![c] = Idle] /\ queue' = [queue EXCEPT ![c] = <<>>]
        /\ UNCHANGED <<up, busy, dir, snap, report, job, pc, events, hist, crashes, faults>>
    BY <1>8 DEF Disconnect
  <2>2. Idle \in Streams /\ Idle.at = "idle" /\ <<>> \in Seq({"progress"} \cup Terminal)
    BY DEF Idle
  <2> QED BY <2>1, <2>2, StreamMoves
<1> QED BY <1>3, <1>4, <1>5, <1>6, <1>7, <1>8

(* What a crash loses is in memory; what it tears is the snapshot of a run  *)
(* that was not finished.                                                   *)
LEMMA CrashKeepsInv ==
  ASSUME ReviewRunInv, Crash
  PROVE  ReviewRunInv'
<1>1. PICK torn \in SUBSET {r \in Runs : snap[r] \in Active \/ pc[r] = "allocated"} :
        snap' = [r \in Runs |-> IF r \in torn THEN "torn" ELSE snap[r]]
  BY DEF Crash
<1>2. Idle \in [run : Runs \cup {NoRun}, at : {"idle", "asked", "subscribed", "ended"},
                got : {"none"} \cup Terminal]
  BY DEF Idle
<1>3. TypeOK'
  <2>1. /\ up' \in BOOLEAN /\ busy' \in Runs \cup {NoRun} /\ dir' \subseteq Runs
        /\ snap' \in [Runs -> {"absent", "torn"} \cup Active \cup Terminal]
        /\ report' \in [Runs -> [md : FileStates, json : FileStates]]
    BY <1>1 DEF ReviewRunInv, TypeOK, Crash
  <2>2. /\ job' \in [Runs -> {"none"} \cup Active \cup Terminal]
        /\ pc' \in [Runs -> {"none", "allocated", "created", "graph", "md_open", "md_done",
                             "json_open", "json_done", "done"}]
        /\ queue' \in [Clients -> Seq({"progress"} \cup Terminal)]
        /\ crashes' \in Nat
    BY DEF ReviewRunInv, TypeOK, Crash
  <2>3. stream' \in [Clients -> [run : Runs \cup {NoRun},
                                 at : {"idle", "asked", "subscribed", "ended"},
                                 got : {"none"} \cup Terminal]]
    BY <1>2 DEF Crash
  <2> QED BY <2>1, <2>2, <2>3 DEF ReviewRunInv, TypeOK, Crash
<1>4. ASSUME NEW r \in Runs
      PROVE  RunOK(r)'
  <2>1. RunOK(r) /\ up /\ ~up' /\ job'[r] = "none" /\ pc'[r] = "none"
    BY DEF ReviewRunInv, RunsOK, Crash
  <2>2. TaskAgreesWithRecord(r)' /\ FilesFollowTask(r)'
    BY <2>1 DEF TaskAgreesWithRecord, FilesFollowTask, Writing
  <2>3. "completed" \in hist[r].told =>
          /\ r \in dir /\ PersistedStatus(r) = "completed"
          /\ pc[r] \in {"none", "done"}
    BY <2>1 DEF ReviewRunInv, TypeOK, RunOK, CompletedIsOnDisk, TaskAgreesWithRecord, Writing
  <2>4. "completed" \in hist[r].told => PersistedStatus(r)' = "completed"
    BY <1>1, <2>3 DEF PersistedStatus, HasReports, Crash, Active
  <2>5. CompletedIsOnDisk(r)'
    BY <2>1, <2>3, <2>4 DEF RunOK, CompletedIsOnDisk, Crash
  <2> QED BY <2>2, <2>5 DEF RunOK
<1>5. ClientsOK'
  BY DEF ClientsOK, ClientOK, Crash, Idle
<1> QED BY <1>3, <1>4, <1>5 DEF ReviewRunInv, RunsOK

LEMMA RecoverKeepsInv ==
  ASSUME ReviewRunInv, Recover
  PROVE  ReviewRunInv'
<1>1. \A r \in Runs : PersistedStatus(r) \in Terminal
  BY DEF PersistedStatus, Terminal
<1>2. TypeOK'
  BY <1>1 DEF ReviewRunInv, TypeOK, Recover
<1>3. ASSUME NEW r \in Runs
      PROVE  RunOK(r)'
  <2>1. /\ RunOK(r) /\ ~up /\ up' /\ pc'[r] = pc[r] /\ pc[r] = "none" /\ hist'[r] = hist[r]
        /\ dir' = dir /\ report' = report
        /\ job'[r] = IF r \in dir THEN PersistedStatus(r) ELSE "none"
        /\ snap'[r] = IF r \in dir THEN PersistedStatus(r) ELSE snap[r]
    BY DEF ReviewRunInv, RunsOK, RunOK, TaskAgreesWithRecord, Recover
  <2>2. TaskAgreesWithRecord(r)' /\ FilesFollowTask(r)'
    BY <1>1, <2>1 DEF TaskAgreesWithRecord, FilesFollowTask, Writing
  <2>3. PersistedStatus(r) = "completed" => PersistedStatus(r)' = "completed"
    BY <2>1 DEF PersistedStatus, HasReports
  <2>4. CompletedIsOnDisk(r)'
    BY <1>1, <2>1, <2>3 DEF RunOK, CompletedIsOnDisk, Terminal
  <2> QED BY <2>2, <2>4 DEF RunOK
<1>4. ClientsOK'
  <2>1. \A c \in Clients : stream'[c] = stream[c] /\ queue'[c] = queue[c]
                           /\ stream[c].at = "idle" /\ queue[c] = <<>>
    BY DEF ReviewRunInv, ClientsOK, ClientOK, RunsOK, RunOK, TaskAgreesWithRecord, Recover
  <2> QED BY <2>1 DEF ClientsOK, ClientOK
<1> QED BY <1>2, <1>3, <1>4 DEF ReviewRunInv, RunsOK

LEMMA ReviewRunInvHolds == Spec => []ReviewRunInv
<1>1. Init => ReviewRunInv
  <2> SUFFICES ASSUME Init
               PROVE  ReviewRunInv
    OBVIOUS
  <2>1. TypeOK
    BY DEF Init, TypeOK, Idle, FileStates
  <2>2. RunsOK
    BY DEF Init, RunsOK, RunOK, TaskAgreesWithRecord, FilesFollowTask, CompletedIsOnDisk, Writing
  <2>3. ClientsOK
    BY DEF Init, ClientsOK, ClientOK, Idle
  <2> QED BY <2>1, <2>2, <2>3 DEF ReviewRunInv
<1>2. ReviewRunInv /\ [Next]_vars => ReviewRunInv'
  <2> SUFFICES ASSUME ReviewRunInv, [Next]_vars
               PROVE  ReviewRunInv'
    OBVIOUS
  <2>1. CASE UNCHANGED vars
    <3>1. TypeOK' /\ RunsOK' /\ ClientsOK'
      BY <2>1 DEF vars, ReviewRunInv, TypeOK, RunsOK, RunOK, TaskAgreesWithRecord,
                  FilesFollowTask, CompletedIsOnDisk, PersistedStatus, HasReports, ClientsOK,
                  ClientOK
    <3> QED BY <3>1 DEF ReviewRunInv
  <2>2. ASSUME NEW r \in Runs, Allocate(r) \/ RunStep(r) \/ PersistFails(r)
        PROVE  ReviewRunInv'
    BY <2>2, AllocateKeepsInv, RegisterKeepsInv, StartKeepsInv, ProgressKeepsInv,
       WriteReportsKeepsInv, FinishKeepsInv, PersistFailsKeepsInv DEF RunStep
  <2>3. CASE \E c \in Clients : \/ \E r \in Runs : AskStream(c, r)
                                \/ BeginStream(c) \/ Deliver(c) \/ Disconnect(c)
    BY <2>3, StreamsKeepInv
  <2>4. CASE Next
    BY <2>2, <2>3, <2>4, CrashKeepsInv, RecoverKeepsInv DEF Next
  <2> QED BY <2>1, <2>4
<1> QED BY <1>1, <1>2, PTL DEF Spec

(* Records, tasks, files and streams keep their types through every crash. *)
THEOREM TypeCorrect == Spec => []TypeOK
BY ReviewRunInvHolds, PTL DEF ReviewRunInv

(* Every stream that ends tells its client what the record shows, and goes  *)
(* on showing: no client is told of a status its run does not have.         *)
THEOREM StreamsAgree == Spec => []StreamAgreesWithRecord
<1>1. ReviewRunInv => StreamAgreesWithRecord
  BY DEF ReviewRunInv, ClientsOK, ClientOK, StreamAgreesWithRecord
<1> QED BY <1>1, ReviewRunInvHolds, PTL

(* A run that a client was once told is completed is completed in every     *)
(* later state of the server, through every crash and restart.              *)
THEOREM CompletionIsFinal == Spec => []CompletedIsFinal
<1>1. ReviewRunInv => CompletedIsFinal
  BY DEF ReviewRunInv, RunsOK, RunOK, CompletedIsOnDisk, CompletedIsFinal
<1> QED BY <1>1, ReviewRunInvHolds, PTL

(* A run that was accepted is never lost: a server that is up has a record  *)
(* of it, whatever crashes came between.                                    *)
AcceptedIsKept == \A r \in Runs : up /\ hist[r].acked => job[r] # "none"

THEOREM AcceptedRunsAreKept == Spec => []AcceptedIsKept
<1>1. ReviewRunInv => AcceptedIsKept
  BY DEF ReviewRunInv, RunsOK, RunOK, CompletedIsOnDisk, AcceptedIsKept
<1> QED BY <1>1, ReviewRunInvHolds, PTL

=============================================================================
