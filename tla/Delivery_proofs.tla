-------------------------- MODULE Delivery_proofs --------------------------
(***************************************************************************)
(* What Delivery promises however many processes share a run's files, and  *)
(* however many of them die: a task handed out was approved, and the audit *)
(* files invent nothing.  The invariant follows each call from the read it *)
(* starts from to the writes it makes of it.                               *)
(***************************************************************************)
EXTENDS Delivery, SequenceTheorems, TLAPS

(* Someone approved bundle g. *)
Granted(g, events) == \E e \in events : e.of = g /\ e.to = "approved"

(* The status of a bundle was given by an event, unless it is a draft. *)
Given(b, events) ==
  b.status # "draft" => \E e \in events : e.of = b.generation /\ e.to = b.status

(* What a call carries, per kind. *)
GenerateJob(c) == c.op = "generate" => c.at = "bundle"

ApproveJob(c, events) == c.op = "approve" =>
  /\ c.at \in {"bundle", "old_records", "records", "snapshot"}
  /\ c.bundle \in Bundles /\ c.bundle.history # <<>>
  /\ c.at # "bundle" => Event(c.bundle) \in events
  /\ c.at = "records" => c.old \subseteq events

TodoJob(c) == c.at \in {"build", "place"} =>
  c.op \in {"handoff", "prepare"} /\ c.todo # <<>>

HandoffJob(c, events) == c.op = "handoff" =>
  /\ c.at \in {"build", "place", "tasks"}
  /\ c.tasks \in Tables /\ Granted(c.tasks.of, events)

PrepareJob(c) == c.op = "prepare" => c.at \in {"build", "place"}

UpdateJob(c, events, done) == c.op = "update" =>
  /\ c.at \in {"check", "tasks", "snapshot", "old_trace", "trace"}
  /\ c.tasks \in Tables /\ Granted(c.tasks.of, events)
  /\ c.move \in Moved
  /\ c.at # "check" => c.bundle \in Bundles /\ Given(c.bundle, events)
  /\ c.at \in {"snapshot", "old_trace", "trace"} => c.move \in done
  /\ c.at = "trace" => c.old \in Traces /\ c.old.updates \subseteq done

JobOK(c, events, done) ==
  /\ c \in Jobs
  /\ GenerateJob(c) /\ TodoJob(c) /\ PrepareJob(c)
  /\ ApproveJob(c, events)
  /\ HandoffJob(c, events)
  /\ UpdateJob(c, events, done)

JobsInv ==
  /\ job \in [Procs -> Maybe(Jobs)]
  /\ \A p \in Procs : Busy(p) => JobOK(job[p], told, moves)

BundleInv == bundle # Nothing => Given(bundle, told)

IInv == TypeOK /\ JobsInv /\ BundleInv /\ HandoffOfApproved /\ NothingInvented

-----------------------------------------------------------------------------
(* Where each step of a call leads. *)
LEMMA GenerateSteps ==
  ASSUME NEW p, NEW c, c.op = "generate", Advance(p, c)
  PROVE  c.at = "bundle" /\ job' = [job EXCEPT ![p] = Nothing]
<1> DEFINE s == <<"bundle">>
<1>1. Script(c.op) = s
  BY DEF Script
<1>2. PICK i \in DOMAIN s :
        s[i] = c.at /\ job' = [job EXCEPT ![p] = IF i = Len(s) THEN Nothing ELSE [c EXCEPT !.at = s[i + 1]]]
  BY <1>1, Zenon DEF Advance
<1>3. Len(s) = 1 /\ s[1] = "bundle"
  OBVIOUS
<1>4. i = 1
  BY <1>2
<1> HIDE DEF s
<1> QED BY <1>2, <1>3, <1>4

(* The steps of an approval, in their order. *)
LEMMA ApproveSteps ==
  ASSUME NEW p, NEW c, c.op = "approve", Advance(p, c)
  PROVE  \/ c.at = "bundle" /\ job' = [job EXCEPT ![p] = [c EXCEPT !.at = "old_records"]]
         \/ c.at = "old_records" /\ job' = [job EXCEPT ![p] = [c EXCEPT !.at = "records"]]
         \/ c.at = "records" /\ job' = [job EXCEPT ![p] = [c EXCEPT !.at = "snapshot"]]
         \/ c.at = "snapshot" /\ job' = [job EXCEPT ![p] = Nothing]
<1> DEFINE s == <<"bundle", "old_records", "records", "snapshot">>
<1>1. Script(c.op) = s
  BY DEF Script
<1>2. PICK i \in DOMAIN s :
        s[i] = c.at /\ job' = [job EXCEPT ![p] = IF i = Len(s) THEN Nothing ELSE [c EXCEPT !.at = s[i + 1]]]
  BY <1>1, Zenon DEF Advance
<1>3. DOMAIN s = 1..4 /\ Len(s) = 4 /\ s[1] = "bundle" /\ s[2] = "old_records" /\ s[3] = "records" /\ s[4] = "snapshot"
  OBVIOUS
<1>4. i \in 1..4
  BY <1>2, <1>3
<1> HIDE DEF s
<1>5. CASE i = 1
  <2>1. i # Len(s) /\ s[i + 1] = "old_records"
    BY <1>3, <1>5
  <2> QED BY <1>2, <1>3, <1>5, <2>1
<1>6. CASE i = 2
  <2>1. i # Len(s) /\ s[i + 1] = "records"
    BY <1>3, <1>6
  <2> QED BY <1>2, <1>3, <1>6, <2>1
<1>7. CASE i = 3
  <2>1. i # Len(s) /\ s[i + 1] = "snapshot"
    BY <1>3, <1>7
  <2> QED BY <1>2, <1>3, <1>7, <2>1
<1>8. CASE i = 4
  BY <1>2, <1>3, <1>8
<1> QED BY <1>4, <1>5, <1>6, <1>7, <1>8

(* The steps of a handoff. *)
LEMMA HandoffSteps ==
  ASSUME NEW p, NEW c, c.op = "handoff", Advance(p, c)
  PROVE  \/ c.at = "build" /\ job' = [job EXCEPT ![p] = [c EXCEPT !.at = "place"]]
         \/ c.at = "place" /\ job' = [job EXCEPT ![p] = [c EXCEPT !.at = "tasks"]]
         \/ c.at = "tasks" /\ job' = [job EXCEPT ![p] = Nothing]
<1> DEFINE s == <<"build", "place", "tasks">>
<1>1. Script(c.op) = s
  BY DEF Script
<1>2. PICK i \in DOMAIN s :
        s[i] = c.at /\ job' = [job EXCEPT ![p] = IF i = Len(s) THEN Nothing ELSE [c EXCEPT !.at = s[i + 1]]]
  BY <1>1, Zenon DEF Advance
<1>3. DOMAIN s = 1..3 /\ Len(s) = 3 /\ s[1] = "build" /\ s[2] = "place" /\ s[3] = "tasks"
  OBVIOUS
<1>4. i \in 1..3
  BY <1>2, <1>3
<1> HIDE DEF s
<1>5. CASE i = 1
  <2>1. i # Len(s) /\ s[i + 1] = "place"
    BY <1>3, <1>5
  <2> QED BY <1>2, <1>3, <1>5, <2>1
<1>6. CASE i = 2
  <2>1. i # Len(s) /\ s[i + 1] = "tasks"
    BY <1>3, <1>6
  <2> QED BY <1>2, <1>3, <1>6, <2>1
<1>7. CASE i = 3
  BY <1>2, <1>3, <1>7
<1> QED BY <1>4, <1>5, <1>6, <1>7

(* The steps of a preview. *)
LEMMA PrepareSteps ==
  ASSUME NEW p, NEW c, c.op = "prepare", Advance(p, c)
  PROVE  \/ c.at = "build" /\ job' = [job EXCEPT ![p] = [c EXCEPT !.at = "place"]]
         \/ c.at = "place" /\ job' = [job EXCEPT ![p] = Nothing]
<1> DEFINE s == <<"build", "place">>
<1>1. Script(c.op) = s
  BY DEF Script
<1>2. PICK i \in DOMAIN s :
        s[i] = c.at /\ job' = [job EXCEPT ![p] = IF i = Len(s) THEN Nothing ELSE [c EXCEPT !.at = s[i + 1]]]
  BY <1>1, Zenon DEF Advance
<1>3. DOMAIN s = 1..2 /\ Len(s) = 2 /\ s[1] = "build" /\ s[2] = "place"
  OBVIOUS
<1>4. i \in 1..2
  BY <1>2, <1>3
<1> HIDE DEF s
<1>5. CASE i = 1
  <2>1. i # Len(s) /\ s[i + 1] = "place"
    BY <1>3, <1>5
  <2> QED BY <1>2, <1>3, <1>5, <2>1
<1>6. CASE i = 2
  BY <1>2, <1>3, <1>6
<1> QED BY <1>4, <1>5, <1>6

(* The steps of an update. *)
LEMMA UpdateSteps ==
  ASSUME NEW p, NEW c, c.op = "update", Advance(p, c)
  PROVE  \/ c.at = "check" /\ job' = [job EXCEPT ![p] = [c EXCEPT !.at = "tasks"]]
         \/ c.at = "tasks" /\ job' = [job EXCEPT ![p] = [c EXCEPT !.at = "snapshot"]]
         \/ c.at = "snapshot" /\ job' = [job EXCEPT ![p] = [c EXCEPT !.at = "old_trace"]]
         \/ c.at = "old_trace" /\ job' = [job EXCEPT ![p] = [c EXCEPT !.at = "trace"]]
         \/ c.at = "trace" /\ job' = [job EXCEPT ![p] = Nothing]
<1> DEFINE s == <<"check", "tasks", "snapshot", "old_trace", "trace">>
<1>1. Script(c.op) = s
  BY DEF Script
<1>2. PICK i \in DOMAIN s :
        s[i] = c.at /\ job' = [job EXCEPT ![p] = IF i = Len(s) THEN Nothing ELSE [c EXCEPT !.at = s[i + 1]]]
  BY <1>1, Zenon DEF Advance
<1>3. DOMAIN s = 1..5 /\ Len(s) = 5 /\ s[1] = "check" /\ s[2] = "tasks" /\ s[3] = "snapshot" /\ s[4] = "old_trace" /\ s[5] = "trace"
  OBVIOUS
<1>4. i \in 1..5
  BY <1>2, <1>3
<1> HIDE DEF s
<1>5. CASE i = 1
  <2>1. i # Len(s) /\ s[i + 1] = "tasks"
    BY <1>3, <1>5
  <2> QED BY <1>2, <1>3, <1>5, <2>1
<1>6. CASE i = 2
  <2>1. i # Len(s) /\ s[i + 1] = "snapshot"
    BY <1>3, <1>6
  <2> QED BY <1>2, <1>3, <1>6, <2>1
<1>7. CASE i = 3
  <2>1. i # Len(s) /\ s[i + 1] = "old_trace"
    BY <1>3, <1>7
  <2> QED BY <1>2, <1>3, <1>7, <2>1
<1>8. CASE i = 4
  <2>1. i # Len(s) /\ s[i + 1] = "trace"
    BY <1>3, <1>8
  <2> QED BY <1>2, <1>3, <1>8, <2>1
<1>9. CASE i = 5
  BY <1>2, <1>3, <1>9
<1> QED BY <1>4, <1>5, <1>6, <1>7, <1>8, <1>9

-----------------------------------------------------------------------------
(* Facts already established stay so: both histories only grow. *)
LEMMA Grows ==
  ASSUME NEW c, NEW e1, NEW e2, NEW d1, NEW d2, e1 \subseteq e2, d1 \subseteq d2,
         JobOK(c, e1, d1)
  PROVE  JobOK(c, e2, d2)
BY DEF JobOK, ApproveJob, HandoffJob, UpdateJob, Granted, Given

(* One process moves on, the others keep what they hold. *)
LEMMA OneMoves ==
  ASSUME NEW p \in Procs, NEW c, JobsInv, told \subseteq told', moves \subseteq moves',
         c = Nothing \/ JobOK(c, told', moves'), job' = [job EXCEPT ![p] = c]
  PROVE  JobsInv'
<1>1. job' \in [Procs -> Maybe(Jobs)]
  BY DEF JobsInv, JobOK, Maybe
<1>2. ASSUME NEW q \in Procs, Busy(q)' PROVE JobOK(job'[q], told', moves')
  <2>1. CASE q = p
    BY <1>2, <2>1 DEF Busy, JobsInv
  <2>2. CASE q # p
    <3>1. job'[q] = job[q] /\ Busy(q)
      BY <1>2, <2>2 DEF Busy, JobsInv
    <3> QED BY <3>1, Grows DEF JobsInv
  <2> QED BY <2>1, <2>2
<1> QED BY <1>1, <1>2 DEF JobsInv

(* A step of a call that leaves every file alone. *)
LEMMA OnlyJob ==
  ASSUME IInv, JobsInv', UNCHANGED <<files, generation, history, crashes>>,
         calls' \in 0..MaxCalls
  PROVE  IInv'
<1>1. TypeOK'
  BY DEF IInv, TypeOK, files, history, Maybe
<1>2. BundleInv'
  BY DEF IInv, BundleInv, files, history
<1>3. HandoffOfApproved'
  BY DEF IInv, HandoffOfApproved, files, history
<1>4. NothingInvented'
  BY DEF IInv, NothingInvented, files, history
<1> QED BY <1>1, <1>2, <1>3, <1>4 DEF IInv

(* A read finds the content, or nothing. *)
LEMMA Found ==
  ASSUME NEW p, NEW file, NEW content, NEW x \in Read(p, file, content)
  PROVE  x = content \/ x = Nothing
BY DEF Read

(* A call that may start leaves the invariant. *)
LEMMA Begins ==
  ASSUME IInv, NEW p \in Procs, NEW c, JobOK(c, told, moves), Begin(p, c)
  PROVE  IInv'
<1>1. JobsInv'
  <2>1. ASSUME NEW q \in Procs
        PROVE  job'[q] \in Maybe(Jobs) /\ (Busy(q)' => JobOK(job'[q], told', moves'))
    <3>1. told' = told /\ moves' = moves
      BY DEF Begin
    <3>2. CASE q = p
      BY <3>1, <3>2 DEF Begin, Busy, JobOK, Maybe
    <3>3. CASE q # p /\ Busy(q)
      <4>1. job'[q] = [job[q] EXCEPT !.alone = FALSE]
        BY <3>3 DEF Begin
      <4>2. JobOK(job[q], told, moves)
        BY <3>3 DEF IInv, JobsInv
      <4>3. job'[q] \in Jobs
        BY <4>1, <4>2 DEF JobOK, Jobs
      <4>4. JobOK(job'[q], told, moves)
        BY <4>1, <4>2, <4>3 DEF JobOK, Jobs, GenerateJob, TodoJob, PrepareJob,
                               ApproveJob, HandoffJob, UpdateJob
      <4> QED BY <3>1, <4>3, <4>4 DEF Maybe
    <3>4. CASE q # p /\ ~Busy(q)
      BY <3>4 DEF Begin, Busy, Maybe
    <3> QED BY <3>2, <3>3, <3>4
  <2>2. job' = [q \in Procs |-> job'[q]]
    BY DEF Begin
  <2> QED BY <2>1, <2>2 DEF JobsInv
<1>2. c.alone \in BOOLEAN
  BY DEF JobOK, Jobs
<1>3. calm' \in BOOLEAN /\ calls' \in 0..MaxCalls
  BY <1>2, DeliveryAssumption DEF Begin, IInv, TypeOK
<1>4. TypeOK'
  BY <1>3 DEF IInv, TypeOK, Begin, files, Maybe
<1>5. BundleInv' /\ HandoffOfApproved' /\ NothingInvented'
  BY DEF IInv, BundleInv, HandoffOfApproved, NothingInvented, Begin, files
<1> QED BY <1>1, <1>4, <1>5 DEF IInv

(* Where a call of each kind starts. *)
LEMMA FreshCalls ==
  /\ \A op : Fresh(op).op = op
  /\ Fresh("generate").at = "bundle" /\ Fresh("approve").at = "bundle"
  /\ Fresh("handoff").at = "build" /\ Fresh("prepare").at = "build"
  /\ Fresh("update").at = "check"
BY DEF Fresh, Script

(* A new call is a call. *)
LEMMA FreshTyped ==
  ASSUME NEW op \in {"generate", "approve", "handoff", "prepare", "update"}
  PROVE  Fresh(op) \in Jobs
<1>1. Script(op)[1] \in Steps
  BY FreshCalls DEF Fresh, Steps
<1>2. <<>> \in Seq(TaskIds)
  OBVIOUS
<1> QED BY <1>1, <1>2 DEF Fresh, Jobs, Maybe

(* A generation may start. *)
LEMMA GenerateStarts ==
  ASSUME IInv, NEW p \in Procs, Generate(p)
  PROVE  IInv'
<1>1. JobOK(Fresh("generate"), told, moves)
  BY FreshCalls, FreshTyped DEF JobOK, GenerateJob, TodoJob, PrepareJob, ApproveJob, HandoffJob, UpdateJob
<1> QED BY <1>1, Begins DEF Generate

(* An approval that may start carries a bundle with one more entry in its history. *)
LEMMA ApproveStarts ==
  ASSUME IInv, NEW p \in Procs, NEW action \in DOMAIN ApprovalActions, ApproveLoad(p, action)
  PROVE  IInv'
<1> DEFINE to == ApprovalActions[action]
           given(b) == [b EXCEPT !.status = to, !.history = Append(@, to)]
           c(b) == [Fresh("approve") EXCEPT !.bundle = given(b)]
<1>1. PICK b \in Read(p, "bundle", bundle) : b # Nothing /\ Begin(p, c(b))
  BY DEF ApproveLoad
<1>2. b \in Bundles
  BY <1>1, Found DEF IInv, TypeOK, Maybe
<1>3. to \in BundleStatuses
  BY DEF ApprovalActions, BundleStatuses
<1>4. Append(b.history, to) \in Seq(BundleStatuses) /\ Append(b.history, to) # <<>>
  BY <1>2, <1>3 DEF Bundles
<1>5. given(b) \in Bundles /\ given(b).history # <<>>
  BY <1>2, <1>3, <1>4 DEF Bundles
<1>6. /\ c(b) \in Jobs /\ c(b).op = "approve" /\ c(b).at = "bundle"
      /\ c(b).bundle \in Bundles /\ c(b).bundle.history # <<>>
  <2> HIDE DEF given
  <2>1. Fresh("approve") \in Jobs
    BY FreshTyped
  <2> QED BY <1>5, <2>1, FreshCalls DEF Jobs, Maybe
<1>7. JobOK(c(b), told, moves)
  <2> HIDE DEF c
  <2> QED BY <1>6 DEF JobOK, GenerateJob, TodoJob, PrepareJob, ApproveJob, HandoffJob, UpdateJob
<1> QED BY <1>1, <1>7, Begins

(* The mode a task ends up with is a mode. *)
LEMMA ModeResolved ==
  ASSUME NEW mode \in ExecutionModes
  PROVE  ResolveMode(mode) \in ExecutionModes
BY DEF ResolveMode, ExecutionModes

(* A handoff that may start carries tasks of an approved bundle. *)
LEMMA HandoffStarts ==
  ASSUME IInv, NEW p \in Procs, NEW mode \in Modes, HandoffLoad(p, mode)
  PROVE  IInv'
<1> DEFINE c(b) == [Fresh("handoff") EXCEPT !.tasks = Route(b, mode), !.todo = DEFAULT_PACK_SPECS]
<1>1. PICK b \in Read(p, "bundle", bundle) : b # Nothing /\ Routable(b) /\ Begin(p, c(b))
  BY DEF HandoffLoad
<1>2. b = bundle /\ b \in Bundles
  BY <1>1, Found DEF IInv, TypeOK, Maybe
<1>3. Granted(b.generation, told)
  BY <1>1, <1>2 DEF IInv, BundleInv, Given, Routable, Granted
<1>4. Route(b, mode) \in Tables /\ Route(b, mode).of = b.generation
  <2>1. ResolveMode(mode) \in ExecutionModes
    BY ModeResolved, DeliveryAssumption
  <2>2. [pack \in Packs |-> "pending"] \in [Packs -> TaskStatuses]
    BY DEF TaskStatuses
  <2> QED BY <1>2, <2>1, <2>2 DEF Route, Tables, Bundles
<1>5. DEFAULT_PACK_SPECS \in Seq(TaskIds) /\ DEFAULT_PACK_SPECS # <<>>
  <2>1. Routed("implementation_pack") \in TaskIds /\ Routed("test_pack") \in TaskIds
    BY DEF TaskIds, Packs
  <2> QED BY <2>1 DEF DEFAULT_PACK_SPECS
<1>6. /\ c(b) \in Jobs /\ c(b).op = "handoff" /\ c(b).at = "build"
      /\ c(b).tasks = Route(b, mode) /\ c(b).todo = DEFAULT_PACK_SPECS
  <2>1. Fresh("handoff") \in Jobs
    BY FreshTyped
  <2> QED BY <1>4, <1>5, <2>1, FreshCalls DEF Jobs, Maybe
<1>7. JobOK(c(b), told, moves)
  <2> HIDE DEF c
  <2> QED BY <1>3, <1>4, <1>5, <1>6
          DEF JobOK, GenerateJob, TodoJob, PrepareJob, ApproveJob, HandoffJob, UpdateJob
<1> QED BY <1>1, <1>7, Begins

(* A preview starts with one task per selected agent. *)
LEMMA PrepareStarts ==
  ASSUME IInv, NEW p \in Procs, NEW selection \in Selections, PrepareLoad(p, selection)
  PROVE  IInv'
<1> DEFINE agents == SelectedAgents(selection)
           todo == [i \in DOMAIN agents |-> Prepared(agents[i])]
           c == [Fresh("prepare") EXCEPT !.agents = ToSet(agents), !.todo = todo]
<1>1. Begin(p, c)
  BY DEF PrepareLoad
<1>2. agents \in Seq(Agents) /\ agents # <<>>
  <2>1. CASE selection = "all"
    BY <2>1 DEF SelectedAgents, Agents
  <2>2. CASE selection # "all"
    <3>1. selection \in Agents
      BY <2>2, DeliveryAssumption
    <3> QED BY <2>2, <3>1 DEF SelectedAgents
  <2> QED BY <2>1, <2>2
<1>3. ToSet(agents) \subseteq Agents
  BY <1>2 DEF ToSet
<1>4. todo \in Seq(TaskIds) /\ todo # <<>>
  <2> HIDE DEF agents
  <2>1. \A i \in DOMAIN agents : Prepared(agents[i]) \in TaskIds
    BY <1>2 DEF TaskIds
  <2>2. DOMAIN agents = 1..Len(agents) /\ Len(agents) \in Nat /\ Len(agents) # 0
    BY <1>2
  <2>3. todo \in Seq(TaskIds)
    BY <2>1, <2>2
  <2>4. 1 \in DOMAIN todo
    BY <2>2
  <2> HIDE DEF todo
  <2> QED BY <2>3, <2>4
<1>5. c \in Jobs /\ c.op = "prepare" /\ c.at = "build" /\ c.todo = todo
  <2> HIDE DEF todo, agents
  <2>1. Fresh("prepare") \in Jobs
    BY FreshTyped
  <2> QED BY <1>3, <1>4, <2>1, FreshCalls DEF Jobs, Maybe
<1>6. JobOK(c, told, moves)
  <2> HIDE DEF c
  <2> QED BY <1>4, <1>5
          DEF JobOK, GenerateJob, TodoJob, PrepareJob, ApproveJob, HandoffJob, UpdateJob
<1> QED BY <1>1, <1>6, Begins

(* An update carries the tasks it read, hence tasks of an approved bundle. *)
LEMMA UpdateStarts ==
  ASSUME IInv, NEW p \in Procs, NEW pack \in Packs, NEW to \in Resolved, UpdateLoad(p, pack, to)
  PROVE  IInv'
<1> DEFINE moved(t) == [t EXCEPT !.rows[pack] = to]
           move(t) == [pack |-> pack, from |-> t.rows[pack], to |-> to]
           c(t) == [Fresh("update") EXCEPT !.tasks = moved(t), !.move = move(t)]
<1>1. PICK t \in Read(p, "tasks", tasks) : t # Nothing /\ Begin(p, c(t))
  BY DEF UpdateLoad
<1>2. t = tasks /\ t \in Tables
  BY <1>1, Found DEF IInv, TypeOK, Maybe
<1>3. Granted(t.of, told)
  BY <1>1, <1>2 DEF IInv, HandoffOfApproved, Granted
<1>4. moved(t) \in Tables /\ moved(t).of = t.of
  <2>1. [t.rows EXCEPT ![pack] = to] \in [Packs -> TaskStatuses]
    BY <1>2 DEF Tables, Resolved
  <2> QED BY <1>2, <2>1 DEF Tables
<1>5. move(t) \in Moved
  BY <1>2 DEF Tables, Moved, Resolved
<1>6. /\ c(t) \in Jobs /\ c(t).op = "update" /\ c(t).at = "check"
      /\ c(t).tasks = moved(t) /\ c(t).move = move(t)
  <2> HIDE DEF moved, move
  <2>1. Fresh("update") \in Jobs
    BY FreshTyped
  <2> QED BY <1>4, <1>5, <2>1, FreshCalls DEF Jobs, Maybe
<1>7. JobOK(c(t), told, moves)
  <2> HIDE DEF c, moved, move
  <2> QED BY <1>3, <1>4, <1>5, <1>6
          DEF JobOK, GenerateJob, TodoJob, PrepareJob, ApproveJob, HandoffJob, UpdateJob
<1> QED BY <1>1, <1>7, Begins

-----------------------------------------------------------------------------
(* The steps that write a file or read the next one. *)
LEMMA GenerateBundleKeeps ==
  ASSUME IInv, NEW p \in Procs, GenerateBundle(p)
  PROVE  IInv'
<1>1. job' = [job EXCEPT ![p] = Nothing]
  BY GenerateSteps DEF GenerateBundle, At
<1>2. told' = told /\ moves' = moves
  BY DEF GenerateBundle, history
<1>3. JobsInv'
  BY <1>1, <1>2, OneMoves DEF IInv
<1>4. generation + 1 \in Nat \ {0}
  BY DEF IInv, TypeOK
<1>5. Draft(generation + 1) \in Bundles /\ Draft(generation + 1).status = "draft"
  BY <1>4 DEF Draft, Bundles, BundleStatuses
<1>6. TypeOK'
  BY <1>4, <1>5 DEF IInv, TypeOK, GenerateBundle, history, Maybe
<1>7. BundleInv'
  BY <1>5 DEF BundleInv, Given, GenerateBundle
<1>8. HandoffOfApproved' /\ NothingInvented'
  BY DEF IInv, HandoffOfApproved, NothingInvented, GenerateBundle, history
<1> QED BY <1>3, <1>6, <1>7, <1>8 DEF IInv

(* An event of a bundle with a history is an approval event. *)
LEMMA EventTyped ==
  ASSUME NEW b \in Bundles, b.history # <<>>
  PROVE  /\ Event(b) \in Told
         /\ Event(b).of = b.generation /\ Event(b).to = b.status
<1>1. Len(b.history) \in Nat \ {0}
  BY EmptySeq DEF Bundles
<1> QED BY <1>1 DEF Event, Told, Bundles

(* The event is recorded in the history as the bundle is written. *)
LEMMA ApproveBundleKeeps ==
  ASSUME IInv, NEW p \in Procs, ApproveBundle(p)
  PROVE  IInv'
<1> DEFINE c == job[p]
<1>1. JobOK(c, told, moves) /\ c.op = "approve" /\ c.at = "bundle"
  BY DEF IInv, JobsInv, ApproveBundle, At
<1>2. c.bundle \in Bundles /\ c.bundle.history # <<>>
  BY <1>1 DEF JobOK, ApproveJob
<1>3. Event(c.bundle) \in Told /\ Given(c.bundle, told')
  BY <1>2, EventTyped DEF ApproveBundle, Given
<1>4. job' = [job EXCEPT ![p] = [c EXCEPT !.at = "old_records"]]
  BY <1>1, ApproveSteps DEF ApproveBundle
<1>5. /\ told' = told \cup {Event(c.bundle)} /\ moves' = moves /\ bundle' = c.bundle
      /\ UNCHANGED <<records, snapshot, tasks, trace, requests, contexts, temp,
                     generation, calm, calls, crashes>>
  BY DEF ApproveBundle
<1> DEFINE d == [c EXCEPT !.at = "old_records"]
<1>6. d \in Jobs /\ d.op = "approve" /\ d.at = "old_records" /\ d.bundle = c.bundle
  BY <1>1 DEF JobOK, Jobs, Steps
<1>7. JobOK(d, told', moves')
  <2> HIDE DEF d, c
  <2> QED BY <1>2, <1>5, <1>6 DEF JobOK, GenerateJob, TodoJob, PrepareJob, ApproveJob, HandoffJob, UpdateJob
<1>8. JobsInv'
  BY <1>4, <1>5, <1>7, OneMoves DEF IInv
<1> HIDE DEF d, c
<1>9. TypeOK'
  BY <1>2, <1>3, <1>5 DEF IInv, TypeOK, Maybe
<1>10. BundleInv'
  BY <1>3, <1>5 DEF BundleInv
<1>11. HandoffOfApproved'
  BY <1>5 DEF IInv, HandoffOfApproved
<1>12. NothingInvented'
  BY <1>5 DEF IInv, NothingInvented
<1> QED BY <1>8, <1>9, <1>10, <1>11, <1>12 DEF IInv

(* The records read back tell of events that happened. *)
LEMMA ApproveOldRecordsKeeps ==
  ASSUME IInv, NEW p \in Procs, ApproveOldRecords(p)
  PROVE  IInv'
<1>1. PICK r \in Read(p, "records", records) :
        Advance(p, [job[p] EXCEPT !.old = IF r = Nothing THEN {} ELSE r.events])
  BY DEF ApproveOldRecords
<1> DEFINE old == IF r = Nothing THEN {} ELSE r.events
           c == [job[p] EXCEPT !.old = old]
           d == [c EXCEPT !.at = "records"]
<1>2. JobOK(job[p], told, moves) /\ job[p].op = "approve" /\ job[p].at = "old_records"
  BY DEF IInv, JobsInv, ApproveOldRecords, At
<1>3. old \subseteq told /\ old \in SUBSET Told
  <2>1. records # Nothing => records \in Records /\ records.events \subseteq told
    BY DEF IInv, TypeOK, NothingInvented, Maybe
  <2>2. r = records \/ r = Nothing
    BY <1>1, Found
  <2> QED BY <2>1, <2>2 DEF Records
<1>4. c.op = "approve" /\ c.at = "old_records" /\ c.bundle = job[p].bundle /\ c.old = old /\ c \in Jobs
  <2> HIDE DEF old
  <2> QED BY <1>2, <1>3 DEF JobOK, Jobs
<1>5. job' = [job EXCEPT ![p] = d]
  <2> HIDE DEF c
  <2> QED BY <1>1, <1>4, ApproveSteps DEF c
<1>6. d \in Jobs /\ d.op = "approve" /\ d.at = "records" /\ d.bundle = job[p].bundle /\ d.old = old
  <2> HIDE DEF c, old
  <2> QED BY <1>4 DEF Jobs, Steps
<1>7. told' = told /\ moves' = moves /\ UNCHANGED <<files, generation, history, crashes, calls>>
  BY DEF ApproveOldRecords, history
<1>8. JobOK(d, told', moves')
  <2> HIDE DEF d, c, old
  <2> QED BY <1>2, <1>3, <1>6, <1>7
          DEF JobOK, GenerateJob, TodoJob, PrepareJob, ApproveJob, HandoffJob, UpdateJob
<1> HIDE DEF d
<1>9. JobsInv'
  BY <1>5, <1>7, <1>8, OneMoves DEF IInv
<1> QED BY <1>7, <1>9, OnlyJob DEF IInv, TypeOK

(* The record added is of the event written before. *)
LEMMA ApproveRecordsKeeps ==
  ASSUME IInv, NEW p \in Procs, ApproveRecords(p)
  PROVE  IInv'
<1> DEFINE c == job[p]
           d == [c EXCEPT !.at = "snapshot"]
<1>1. JobOK(c, told, moves) /\ c.op = "approve" /\ c.at = "records"
  BY DEF IInv, JobsInv, ApproveRecords, At
<1>2. /\ c.bundle \in Bundles /\ c.bundle.history # <<>>
      /\ Event(c.bundle) \in told /\ c.old \subseteq told
  BY <1>1 DEF JobOK, ApproveJob
<1>3. job' = [job EXCEPT ![p] = d]
  BY <1>1, ApproveSteps DEF ApproveRecords
<1>4. /\ told' = told /\ moves' = moves /\ records' = [events |-> c.old \cup {Event(c.bundle)}]
      /\ UNCHANGED <<bundle, snapshot, tasks, trace, requests, contexts, temp,
                     generation, calm, calls, crashes>>
  BY DEF ApproveRecords, WithRecord, history
<1>5. d \in Jobs /\ d.op = "approve" /\ d.at = "snapshot" /\ d.bundle = c.bundle
  BY <1>1 DEF JobOK, Jobs, Steps
<1>6. JobOK(d, told', moves')
  <2> HIDE DEF d, c
  <2> QED BY <1>2, <1>4, <1>5 DEF JobOK, GenerateJob, TodoJob, PrepareJob, ApproveJob, HandoffJob, UpdateJob
<1> HIDE DEF d, c
<1>7. JobsInv'
  BY <1>3, <1>4, <1>6, OneMoves DEF IInv
<1>8. records'.events \subseteq told /\ records' \in Records
  BY <1>2, <1>4 DEF IInv, TypeOK, Records
<1>9. TypeOK'
  BY <1>4, <1>8 DEF IInv, TypeOK, Maybe
<1>10. BundleInv' /\ HandoffOfApproved'
  BY <1>4 DEF IInv, BundleInv, HandoffOfApproved
<1>11. NothingInvented'
  BY <1>4, <1>8 DEF IInv, NothingInvented
<1> QED BY <1>7, <1>9, <1>10, <1>11 DEF IInv

(* The snapshot shows the status of the event written before. *)
LEMMA ApproveSnapshotKeeps ==
  ASSUME IInv, NEW p \in Procs, ApproveSnapshot(p)
  PROVE  IInv'
<1> DEFINE c == job[p]
<1>1. JobOK(c, told, moves) /\ c.op = "approve" /\ c.at = "snapshot"
  BY DEF IInv, JobsInv, ApproveSnapshot, At
<1>2. c.bundle \in Bundles /\ c.bundle.history # <<>> /\ Event(c.bundle) \in told
  BY <1>1 DEF JobOK, ApproveJob
<1>3. c.bundle.status \in BundleStatuses /\ Event(c.bundle).to = c.bundle.status
  BY <1>2, EventTyped DEF Bundles
<1>4. job' = [job EXCEPT ![p] = Nothing]
  BY <1>1, ApproveSteps DEF ApproveSnapshot
<1>5. /\ told' = told /\ moves' = moves
      /\ snapshot' = [status |-> c.bundle.status, execution |-> Nothing]
      /\ UNCHANGED <<bundle, records, tasks, trace, requests, contexts, temp,
                     generation, calm, calls, crashes>>
  BY DEF ApproveSnapshot, history
<1>6. JobsInv'
  BY <1>4, <1>5, OneMoves DEF IInv
<1> HIDE DEF c
<1>7. snapshot' \in [status : BundleStatuses, execution : Maybe([Packs -> TaskStatuses])]
  BY <1>3, <1>5 DEF Maybe
<1>8. TypeOK'
  BY <1>5, <1>7 DEF IInv, TypeOK, Maybe
<1>9. BundleInv' /\ HandoffOfApproved'
  BY <1>5 DEF IInv, BundleInv, HandoffOfApproved
<1>10. NothingInvented'
  BY <1>2, <1>3, <1>5 DEF IInv, NothingInvented
<1> QED BY <1>6, <1>8, <1>9, <1>10 DEF IInv

-----------------------------------------------------------------------------
(* The steps over the agents' requests. *)
LEMMA TaskAgent ==
  ASSUME NEW t \in TaskIds
  PROVE  t.agent \in Agents
BY DEF TaskIds, Routed, Prepared, Executor, Agents, Packs

(* A call that builds or places a request is a handoff or a preview with a task to do. *)
LEMMA Todo ==
  ASSUME IInv, NEW p \in Procs, Busy(p), job[p].at \in {"build", "place"}
  PROVE  /\ JobOK(job[p], told, moves) /\ job[p].op \in {"handoff", "prepare"}
         /\ job[p].todo # <<>> /\ Head(job[p].todo) \in TaskIds
         /\ Tail(job[p].todo) \in Seq(TaskIds)
<1>1. JobOK(job[p], told, moves)
  BY DEF IInv, JobsInv
<1>2. job[p].todo \in Seq(TaskIds)
  BY <1>1 DEF JobOK, Jobs
<1>3. job[p].op \in {"handoff", "prepare"} /\ job[p].todo # <<>>
  BY <1>1 DEF JobOK, TodoJob
<1>4. Head(job[p].todo) \in TaskIds /\ Tail(job[p].todo) \in Seq(TaskIds)
  BY <1>2, <1>3
<1> QED BY <1>1, <1>3, <1>4

(* Where a handoff or a preview is in its work changes nothing it carries. *)
LEMMA WorkGoesOn ==
  ASSUME NEW c, NEW events, NEW done, JobOK(c, events, done), c.op \in {"handoff", "prepare"},
         NEW at \in {"build", "place", "tasks"}, at = "tasks" => c.op = "handoff",
         NEW todo \in Seq(TaskIds), at # "tasks" => todo # <<>>
  PROVE  JobOK([c EXCEPT !.at = at, !.todo = todo], events, done)
<1> DEFINE d == [c EXCEPT !.at = at, !.todo = todo]
<1>1. /\ d \in Jobs /\ d.op = c.op /\ d.at = at /\ d.todo = todo
      /\ d.tasks = c.tasks
  BY DEF JobOK, Jobs, Steps
<1> HIDE DEF d
<1>2. JobOK(d, events, done)
  BY <1>1 DEF JobOK, GenerateJob, TodoJob, PrepareJob, ApproveJob, HandoffJob, UpdateJob
<1> QED BY <1>2 DEF d

(* A step that touches requests, contexts and the shared temporary file only. *)
LEMMA OnlyRequests ==
  ASSUME IInv, JobsInv',
         UNCHANGED <<bundle, records, snapshot, tasks, trace, generation, history, calls, crashes>>,
         requests' \in [Agents -> [task : Maybe(TaskIds), final : BOOLEAN]],
         contexts' \in [TaskIds -> Maybe(TaskIds)], temp' \in Maybe(TaskIds)
  PROVE  IInv'
<1>1. TypeOK'
  BY DEF IInv, TypeOK, history
<1>2. BundleInv' /\ HandoffOfApproved' /\ NothingInvented'
  BY DEF IInv, BundleInv, HandoffOfApproved, NothingInvented, history
<1> QED BY <1>1, <1>2 DEF IInv

(* Building a request. *)
LEMMA BuildKeeps ==
  ASSUME IInv, NEW p \in Procs, Build(p)
  PROVE  IInv'
<1> DEFINE c == job[p]
           t == Head(c.todo)
           d == [c EXCEPT !.at = "place"]
<1>1. Busy(p) /\ c.at = "build" /\ Advance(p, c)
  BY DEF Build
<1>2. /\ JobOK(c, told, moves) /\ c.op \in {"handoff", "prepare"}
      /\ c.todo # <<>> /\ t \in TaskIds /\ c.todo \in Seq(TaskIds)
  BY <1>1, Todo DEF JobOK, Jobs
<1>3. job' = [job EXCEPT ![p] = d]
  <2>1. CASE c.op = "handoff"
    BY <1>1, <2>1, HandoffSteps
  <2>2. CASE c.op = "prepare"
    BY <1>1, <2>2, PrepareSteps
  <2> QED BY <1>2, <2>1, <2>2
<1>4. /\ UNCHANGED <<bundle, records, snapshot, tasks, trace, generation, history, calls, crashes>>
      /\ contexts' = contexts /\ temp' = t /\ told' = told /\ moves' = moves
      /\ requests' = [requests EXCEPT ![t.agent] = [task |-> t, final |-> FALSE]]
  BY DEF Build, history
<1>5. JobOK(d, told', moves')
  <2> DEFINE w == [c EXCEPT !.at = "place", !.todo = c.todo]
  <2>1. w = d
    BY <1>2 DEF JobOK, Jobs
  <2>2. JobOK(w, told, moves)
    <3> HIDE DEF c
    <3> QED BY <1>2, WorkGoesOn
  <2> HIDE DEF w, d, c
  <2> QED BY <1>4, <2>1, <2>2
<1> HIDE DEF d
<1>6. JobsInv'
  BY <1>3, <1>4, <1>5, OneMoves DEF IInv
<1> HIDE DEF t, c
<1>7. requests' \in [Agents -> [task : Maybe(TaskIds), final : BOOLEAN]]
  <2>1. [task |-> t, final |-> FALSE] \in [task : Maybe(TaskIds), final : BOOLEAN]
    BY <1>2 DEF Maybe
  <2>2. requests \in [Agents -> [task : Maybe(TaskIds), final : BOOLEAN]]
    BY DEF IInv, TypeOK
  <2> QED BY <1>4, <2>1, <2>2
<1>8. contexts' \in [TaskIds -> Maybe(TaskIds)] /\ temp' \in Maybe(TaskIds)
  BY <1>2, <1>4 DEF IInv, TypeOK, Maybe
<1> QED BY <1>4, <1>6, <1>7, <1>8, OnlyRequests

(* Placing a request: the next one, the tasks, or the answer. *)
LEMMA PlaceKeeps ==
  ASSUME IInv, NEW p \in Procs, Place(p)
  PROVE  IInv'
<1> DEFINE c == job[p]
           t == Head(c.todo)
           rest == [c EXCEPT !.todo = Tail(c.todo)]
<1>1. Busy(p) /\ c.at = "place"
  BY DEF Place
<1>2. /\ JobOK(c, told, moves) /\ c.op \in {"handoff", "prepare"}
      /\ t \in TaskIds /\ Tail(c.todo) \in Seq(TaskIds)
  BY <1>1, Todo
<1>3. /\ UNCHANGED <<bundle, records, snapshot, tasks, trace, generation, history, calls, crashes>>
      /\ told' = told /\ moves' = moves /\ temp' = Nothing
      /\ contexts' = IF temp = Nothing THEN contexts ELSE [contexts EXCEPT ![t] = temp]
      /\ requests' = [requests EXCEPT ![t.agent] = [task |-> t, final |-> TRUE]]
  BY DEF Place, history
<1>4. IF rest.todo = <<>> THEN Advance(p, rest)
      ELSE job' = [job EXCEPT ![p] = [rest EXCEPT !.at = "build"]]
  BY DEF Place
<1>5. /\ rest.todo = Tail(c.todo) /\ rest.op = c.op /\ rest.at = "place"
      /\ \A at : [rest EXCEPT !.at = at] = [c EXCEPT !.at = at, !.todo = Tail(c.todo)]
  BY <1>1, <1>2 DEF JobOK, Jobs
<1>6. JobsInv'
  <2>1. CASE Tail(c.todo) # <<>>
    <3> DEFINE d == [c EXCEPT !.at = "build", !.todo = Tail(c.todo)]
    <3>1. job' = [job EXCEPT ![p] = d]
      BY <1>4, <1>5, <2>1
    <3>2. JobOK(d, told', moves')
      <4> HIDE DEF c
      <4> QED BY <1>2, <1>3, <2>1, WorkGoesOn
    <3> HIDE DEF d
    <3> QED BY <1>3, <3>1, <3>2, OneMoves DEF IInv
  <2>2. CASE Tail(c.todo) = <<>> /\ c.op = "handoff"
    <3> DEFINE d == [c EXCEPT !.at = "tasks", !.todo = Tail(c.todo)]
    <3>1. job' = [job EXCEPT ![p] = d]
      <4>1. Advance(p, rest)
        BY <1>4, <1>5, <2>2
      <4>2. job' = [job EXCEPT ![p] = [rest EXCEPT !.at = "tasks"]]
        <5> HIDE DEF rest
        <5> QED BY <1>5, <2>2, <4>1, HandoffSteps
      <4> QED BY <1>5, <4>2
    <3>2. JobOK(d, told', moves')
      <4> HIDE DEF c
      <4> QED BY <1>2, <1>3, <2>2, WorkGoesOn
    <3> HIDE DEF d
    <3> QED BY <1>3, <3>1, <3>2, OneMoves DEF IInv
  <2>3. CASE Tail(c.todo) = <<>> /\ c.op = "prepare"
    <3>1. Advance(p, rest)
      BY <1>4, <1>5, <2>3
    <3>2. job' = [job EXCEPT ![p] = Nothing]
      <4> HIDE DEF rest
      <4> QED BY <1>5, <2>3, <3>1, PrepareSteps
    <3> QED BY <1>3, <3>2, OneMoves DEF IInv
  <2> QED BY <1>2, <2>1, <2>2, <2>3
<1> HIDE DEF t, c, rest
<1>7. requests' \in [Agents -> [task : Maybe(TaskIds), final : BOOLEAN]]
  <2>1. [task |-> t, final |-> TRUE] \in [task : Maybe(TaskIds), final : BOOLEAN]
    BY <1>2 DEF Maybe
  <2>2. requests \in [Agents -> [task : Maybe(TaskIds), final : BOOLEAN]]
    BY DEF IInv, TypeOK
  <2> QED BY <1>3, <2>1, <2>2
<1>8. contexts' \in [TaskIds -> Maybe(TaskIds)] /\ temp' \in Maybe(TaskIds)
  BY <1>2, <1>3 DEF IInv, TypeOK, Maybe
<1> QED BY <1>3, <1>6, <1>7, <1>8, OnlyRequests

(* The tasks written are of the bundle the handoff was routed from. *)
LEMMA HandoffTasksKeeps ==
  ASSUME IInv, NEW p \in Procs, HandoffTasks(p)
  PROVE  IInv'
<1> DEFINE c == job[p]
<1>1. JobOK(c, told, moves) /\ c.op = "handoff" /\ c.at = "tasks"
  BY DEF IInv, JobsInv, HandoffTasks, At
<1>2. c.tasks \in Tables /\ Granted(c.tasks.of, told)
  BY <1>1 DEF JobOK, HandoffJob
<1>3. job' = [job EXCEPT ![p] = Nothing]
  BY <1>1, HandoffSteps DEF HandoffTasks
<1>4. /\ told' = told /\ moves' = moves /\ tasks' = c.tasks
      /\ UNCHANGED <<bundle, records, snapshot, trace, requests, contexts, temp,
                     generation, calm, calls, crashes>>
  BY DEF HandoffTasks, history
<1>5. JobsInv'
  BY <1>3, <1>4, OneMoves DEF IInv
<1> HIDE DEF c
<1>6. TypeOK'
  BY <1>2, <1>4 DEF IInv, TypeOK, Maybe
<1>7. BundleInv' /\ NothingInvented'
  BY <1>4 DEF IInv, BundleInv, NothingInvented
<1>8. HandoffOfApproved'
  BY <1>2, <1>4 DEF HandoffOfApproved, Granted
<1> QED BY <1>5, <1>6, <1>7, <1>8 DEF IInv

-----------------------------------------------------------------------------
(* The steps of an update. *)
LEMMA UpdateCheckKeeps ==
  ASSUME IInv, NEW p \in Procs, UpdateCheck(p)
  PROVE  IInv'
<1>1. JobOK(job[p], told, moves) /\ job[p].op = "update" /\ job[p].at = "check"
  BY DEF IInv, JobsInv, UpdateCheck, At
<1>2. told' = told /\ moves' = moves /\ UNCHANGED <<files, generation, history, crashes, calls>>
  BY DEF UpdateCheck, history
<1>3. PICK b \in Read(p, "bundle", bundle) :
        IF b # Nothing THEN Advance(p, [job[p] EXCEPT !.bundle = b]) ELSE Refuse(p)
  BY DEF UpdateCheck
<1>4. CASE b = Nothing
  <2>1. JobsInv'
    BY <1>2, <1>3, <1>4, OneMoves DEF IInv, Refuse
  <2> QED BY <1>2, <2>1, OnlyJob DEF IInv, TypeOK
<1>5. CASE b # Nothing
  <2> DEFINE c == [job[p] EXCEPT !.bundle = b]
             d == [c EXCEPT !.at = "tasks"]
  <2>1. b \in Bundles /\ Given(b, told)
    BY <1>3, <1>5, Found DEF IInv, TypeOK, BundleInv, Maybe
  <2>2. /\ c \in Jobs /\ c.op = "update" /\ c.at = "check" /\ c.bundle = b
        /\ c.tasks = job[p].tasks /\ c.move = job[p].move
    BY <1>1, <2>1 DEF JobOK, Jobs, Maybe
  <2>3. job' = [job EXCEPT ![p] = d]
    <3> HIDE DEF c
    <3>1. Advance(p, c)
      BY <1>3, <1>5 DEF c
    <3> QED BY <2>2, <3>1, UpdateSteps
  <2>4. /\ d \in Jobs /\ d.op = "update" /\ d.at = "tasks" /\ d.bundle = b
        /\ d.tasks = job[p].tasks /\ d.move = job[p].move
    <3> HIDE DEF c
    <3> QED BY <2>2 DEF Jobs, Steps
  <2>5. JobOK(d, told', moves')
    <3> HIDE DEF c, d
    <3> QED BY <1>1, <1>2, <2>1, <2>4
            DEF JobOK, GenerateJob, TodoJob, PrepareJob, ApproveJob, HandoffJob, UpdateJob
  <2> HIDE DEF d
  <2>6. JobsInv'
    BY <1>2, <2>3, <2>5, OneMoves DEF IInv
  <2> QED BY <1>2, <2>6, OnlyJob DEF IInv, TypeOK
<1> QED BY <1>4, <1>5

(* The update enters the history as the tasks are written. *)
LEMMA UpdateTasksKeeps ==
  ASSUME IInv, NEW p \in Procs, UpdateTasks(p)
  PROVE  IInv'
<1> DEFINE c == job[p]
           d == [c EXCEPT !.at = "snapshot"]
<1>1. JobOK(c, told, moves) /\ c.op = "update" /\ c.at = "tasks"
  BY DEF IInv, JobsInv, UpdateTasks, At
<1>2. /\ c.tasks \in Tables /\ Granted(c.tasks.of, told) /\ c.move \in Moved
      /\ c.bundle \in Bundles /\ Given(c.bundle, told)
  BY <1>1 DEF JobOK, UpdateJob
<1>3. job' = [job EXCEPT ![p] = d]
  BY <1>1, UpdateSteps DEF UpdateTasks
<1>4. /\ told' = told /\ moves' = moves \cup {c.move} /\ tasks' = c.tasks
      /\ UNCHANGED <<bundle, records, snapshot, trace, requests, contexts, temp,
                     generation, calm, calls, crashes>>
  BY DEF UpdateTasks
<1>5. /\ d \in Jobs /\ d.op = "update" /\ d.at = "snapshot" /\ d.bundle = c.bundle
      /\ d.tasks = c.tasks /\ d.move = c.move
  BY <1>1 DEF JobOK, Jobs, Steps
<1>6. JobOK(d, told', moves')
  <2> HIDE DEF d, c
  <2> QED BY <1>2, <1>4, <1>5 DEF JobOK, GenerateJob, TodoJob, PrepareJob, ApproveJob, HandoffJob, UpdateJob
<1> HIDE DEF d, c
<1>7. JobsInv'
  BY <1>3, <1>4, <1>6, OneMoves DEF IInv
<1>8. TypeOK'
  BY <1>2, <1>4 DEF IInv, TypeOK, Maybe
<1>9. BundleInv'
  BY <1>4 DEF IInv, BundleInv
<1>10. HandoffOfApproved'
  BY <1>2, <1>4 DEF HandoffOfApproved, Granted
<1>11. NothingInvented'
  BY <1>4 DEF IInv, NothingInvented
<1> QED BY <1>7, <1>8, <1>9, <1>10, <1>11 DEF IInv

(* The snapshot shows the status of the bundle the update read. *)
LEMMA UpdateSnapshotKeeps ==
  ASSUME IInv, NEW p \in Procs, UpdateSnapshot(p)
  PROVE  IInv'
<1> DEFINE c == job[p]
           d == [c EXCEPT !.at = "old_trace"]
<1>1. JobOK(c, told, moves) /\ c.op = "update" /\ c.at = "snapshot"
  BY DEF IInv, JobsInv, UpdateSnapshot, At
<1>2. /\ c.tasks \in Tables /\ Granted(c.tasks.of, told) /\ c.move \in Moved
      /\ c.bundle \in Bundles /\ Given(c.bundle, told) /\ c.move \in moves
  BY <1>1 DEF JobOK, UpdateJob
<1>3. job' = [job EXCEPT ![p] = d]
  BY <1>1, UpdateSteps DEF UpdateSnapshot
<1>4. /\ told' = told /\ moves' = moves
      /\ snapshot' = [status |-> c.bundle.status, execution |-> c.tasks.rows]
      /\ UNCHANGED <<bundle, records, tasks, trace, requests, contexts, temp,
                     generation, calm, calls, crashes>>
  BY DEF UpdateSnapshot, SnapshotOf, history
<1>5. /\ d \in Jobs /\ d.op = "update" /\ d.at = "old_trace" /\ d.bundle = c.bundle
      /\ d.tasks = c.tasks /\ d.move = c.move
  BY <1>1 DEF JobOK, Jobs, Steps
<1>6. JobOK(d, told', moves')
  <2> HIDE DEF d, c
  <2> QED BY <1>2, <1>4, <1>5 DEF JobOK, GenerateJob, TodoJob, PrepareJob, ApproveJob, HandoffJob, UpdateJob
<1> HIDE DEF d, c
<1>7. JobsInv'
  BY <1>3, <1>4, <1>6, OneMoves DEF IInv
<1>8. snapshot' \in [status : BundleStatuses, execution : Maybe([Packs -> TaskStatuses])]
  BY <1>2, <1>4 DEF Bundles, Tables, Maybe
<1>9. TypeOK'
  BY <1>4, <1>8 DEF IInv, TypeOK, Maybe
<1>10. BundleInv' /\ HandoffOfApproved'
  BY <1>4 DEF IInv, BundleInv, HandoffOfApproved
<1>11. NothingInvented'
  BY <1>2, <1>4 DEF IInv, NothingInvented, Given
<1> QED BY <1>7, <1>9, <1>10, <1>11 DEF IInv

(* The trace read back tells of updates that happened. *)
LEMMA UpdateOldTraceKeeps ==
  ASSUME IInv, NEW p \in Procs, UpdateOldTrace(p)
  PROVE  IInv'
<1>1. PICK r \in Read(p, "trace", trace) :
        Advance(p, [job[p] EXCEPT !.old = IF r = Nothing THEN NoTrace ELSE r])
  BY DEF UpdateOldTrace
<1> DEFINE old == IF r = Nothing THEN NoTrace ELSE r
           c == [job[p] EXCEPT !.old = old]
           d == [c EXCEPT !.at = "trace"]
<1>2. JobOK(job[p], told, moves) /\ job[p].op = "update" /\ job[p].at = "old_trace"
  BY DEF IInv, JobsInv, UpdateOldTrace, At
<1>3. old \in Traces /\ old.updates \subseteq moves
  <2>1. NoTrace \in Traces /\ NoTrace.updates = {}
    BY DEF NoTrace, Traces
  <2>2. trace # Nothing => trace \in Traces /\ trace.updates \subseteq moves
    BY DEF IInv, TypeOK, NothingInvented, Maybe
  <2>3. r = trace \/ r = Nothing
    BY <1>1, Found
  <2> QED BY <2>1, <2>2, <2>3
<1>4. /\ c \in Jobs /\ c.op = "update" /\ c.at = "old_trace" /\ c.bundle = job[p].bundle
      /\ c.tasks = job[p].tasks /\ c.move = job[p].move /\ c.old = old
  <2> HIDE DEF old
  <2> QED BY <1>2, <1>3 DEF JobOK, Jobs
<1>5. job' = [job EXCEPT ![p] = d]
  <2> HIDE DEF c
  <2>1. Advance(p, c)
    BY <1>1 DEF c
  <2> QED BY <1>4, <2>1, UpdateSteps
<1>6. /\ d \in Jobs /\ d.op = "update" /\ d.at = "trace" /\ d.bundle = job[p].bundle
      /\ d.tasks = job[p].tasks /\ d.move = job[p].move /\ d.old = old
  <2> HIDE DEF c, old
  <2> QED BY <1>4 DEF Jobs, Steps
<1>7. told' = told /\ moves' = moves /\ UNCHANGED <<files, generation, history, crashes, calls>>
  BY DEF UpdateOldTrace, history
<1>8. JobOK(d, told', moves')
  <2> HIDE DEF d, c, old
  <2> QED BY <1>2, <1>3, <1>6, <1>7
          DEF JobOK, GenerateJob, TodoJob, PrepareJob, ApproveJob, HandoffJob, UpdateJob
<1> HIDE DEF d
<1>9. JobsInv'
  BY <1>5, <1>7, <1>8, OneMoves DEF IInv
<1> QED BY <1>7, <1>9, OnlyJob DEF IInv, TypeOK

(* The entry added is of the update written before. *)
LEMMA UpdateTraceKeeps ==
  ASSUME IInv, NEW p \in Procs, UpdateTrace(p)
  PROVE  IInv'
<1> DEFINE c == job[p]
<1>1. JobOK(c, told, moves) /\ c.op = "update" /\ c.at = "trace"
  BY DEF IInv, JobsInv, UpdateTrace, At
<1>2. c.move \in Moved /\ c.move \in moves /\ c.old \in Traces /\ c.old.updates \subseteq moves
  BY <1>1 DEF JobOK, UpdateJob
<1>3. job' = [job EXCEPT ![p] = Nothing]
  BY <1>1, UpdateSteps DEF UpdateTrace
<1>4. /\ told' = told /\ moves' = moves
      /\ trace' = [c.old EXCEPT !.updates = @ \cup {c.move}]
      /\ UNCHANGED <<bundle, records, snapshot, tasks, requests, contexts, temp,
                     generation, calm, calls, crashes>>
  BY DEF UpdateTrace, history
<1>5. JobsInv'
  BY <1>3, <1>4, OneMoves DEF IInv
<1> HIDE DEF c
<1>6. trace' \in Traces /\ trace'.updates \subseteq moves
  BY <1>2, <1>4 DEF Traces
<1>7. TypeOK'
  BY <1>4, <1>6 DEF IInv, TypeOK, Maybe
<1>8. BundleInv' /\ HandoffOfApproved'
  BY <1>4 DEF IInv, BundleInv, HandoffOfApproved
<1>9. NothingInvented'
  BY <1>4, <1>6 DEF IInv, NothingInvented
<1> QED BY <1>5, <1>7, <1>8, <1>9 DEF IInv

(* A crash leaves each file as it was, or empty. *)
LEMMA CrashKeeps ==
  ASSUME IInv, NEW p \in Procs, Crash(p)
  PROVE  IInv'
<1>1. /\ bundle' = bundle \/ bundle' = Nothing
      /\ records' = records \/ records' = Nothing
      /\ snapshot' = snapshot \/ snapshot' = Nothing
      /\ tasks' = tasks \/ tasks' = Nothing
      /\ trace' = trace \/ trace' = Nothing
  BY DEF Crash, Torn
<1>2. /\ job' = [job EXCEPT ![p] = Nothing] /\ crashes' = crashes + 1 /\ crashes < MaxCrashes
      /\ calm' = FALSE
      /\ UNCHANGED <<requests, contexts, temp, generation, told, moves, calls>>
  BY DEF Crash, Refuse
<1>3. JobsInv'
  BY <1>2, OneMoves DEF IInv
<1>4. crashes' \in 0..MaxCrashes
  BY <1>2, DeliveryAssumption DEF IInv, TypeOK
<1>5. /\ bundle' \in Maybe(Bundles) /\ tasks' \in Maybe(Tables) /\ trace' \in Maybe(Traces)
      /\ records' \in Maybe(Records)
      /\ snapshot' \in Maybe([status : BundleStatuses, execution : Maybe([Packs -> TaskStatuses])])
  BY <1>1 DEF IInv, TypeOK, Maybe
<1>6. TypeOK'
  BY <1>2, <1>4, <1>5 DEF IInv, TypeOK
<1>7. BundleInv'
  BY <1>1, <1>2 DEF IInv, BundleInv
<1>8. HandoffOfApproved'
  BY <1>1, <1>2 DEF IInv, HandoffOfApproved
<1>9. NothingInvented'
  BY <1>1, <1>2 DEF IInv, NothingInvented
<1> QED BY <1>3, <1>6, <1>7, <1>8, <1>9 DEF IInv

-----------------------------------------------------------------------------
(* A run whose bundle has just been built. *)
LEMMA Initially == Init => IInv
<1> SUFFICES ASSUME Init PROVE IInv
  OBVIOUS
<1>1. Draft(1) \in Bundles /\ Draft(1).status = "draft"
  BY DEF Draft, Bundles, BundleStatuses
<1>2. JobsInv
  BY DEF Init, JobsInv, Maybe, Busy
<1>3. trace \in Maybe(Traces)
  BY DEF Init, Traces, Maybe
<1>4. requests \in [Agents -> [task : Maybe(TaskIds), final : BOOLEAN]]
  BY DEF Init, NoRequest, Maybe
<1>5. TypeOK
  BY <1>1, <1>3, <1>4, DeliveryAssumption DEF Init, TypeOK, Maybe
<1>6. BundleInv
  BY <1>1 DEF Init, BundleInv, Given
<1>7. HandoffOfApproved
  BY DEF Init, HandoffOfApproved
<1>8. NothingInvented
  BY DEF Init, NothingInvented
<1> QED BY <1>2, <1>5, <1>6, <1>7, <1>8 DEF IInv

(* Every step of every process keeps the invariant. *)
LEMMA Invariance == IInv /\ [Next]_vars => IInv'
<1> SUFFICES ASSUME IInv, [Next]_vars PROVE IInv'
  OBVIOUS
<1>1. CASE UNCHANGED vars
  <2>1. UNCHANGED <<files, generation, history, crashes>> /\ calls' = calls /\ job' = job
    BY <1>1 DEF vars
  <2>2. told' = told /\ moves' = moves
    BY <2>1 DEF history
  <2>3. JobsInv'
    BY <2>1, <2>2 DEF IInv, JobsInv, Busy
  <2> QED BY <2>1, <2>3, OnlyJob DEF IInv, TypeOK
<1>2. CASE Next
  <2>1. PICK p \in Procs :
          \/ Generate(p) \/ GenerateBundle(p)
          \/ Approve(p) \/ Handoff(p) \/ Update(p)
          \/ Crash(p)
    BY <1>2, Zenon DEF Next
  <2>2. CASE Generate(p)
    BY <2>2, GenerateStarts
  <2>3. CASE GenerateBundle(p)
    BY <2>3, GenerateBundleKeeps
  <2>4. CASE Approve(p)
    BY <2>4, ApproveStarts, ApproveBundleKeeps, ApproveOldRecordsKeeps, ApproveRecordsKeeps,
       ApproveSnapshotKeeps, Zenon DEF Approve
  <2>5. CASE Handoff(p)
    BY <2>5, HandoffStarts, PrepareStarts, BuildKeeps, PlaceKeeps, HandoffTasksKeeps, Zenon DEF Handoff
  <2>6. CASE Update(p)
    BY <2>6, UpdateStarts, UpdateCheckKeeps, UpdateTasksKeeps, UpdateSnapshotKeeps,
       UpdateOldTraceKeeps, UpdateTraceKeeps, Zenon DEF Update
  <2>7. CASE Crash(p)
    BY <2>7, CrashKeeps
  <2> QED BY <2>1, <2>2, <2>3, <2>4, <2>5, <2>6, <2>7
<1> QED BY <1>1, <1>2

(* The invariant holds in every state, for any processes, calls and crashes. *)
THEOREM Inductive == Spec => []IInv
BY Initially, Invariance, PTL DEF Spec

(* Every file read back has its type, however calls interleave and crash. *)
THEOREM TypeCorrect == Spec => []TypeOK
<1>1. IInv => TypeOK
  BY DEF IInv
<1> QED BY <1>1, Inductive, PTL

(* Tasks are handed to executors for approved bundles only (routing's check *)
(* in execution/router.py, kept by every later rewrite of the tasks).       *)
THEOREM TasksWereApproved == Spec => []HandoffOfApproved
<1>1. IInv => HandoffOfApproved
  BY DEF IInv
<1> QED BY <1>1, Inductive, PTL

(* Records, trace and snapshot tell of writes that happened: the order of   *)
(* the writes in approve_handoff and update_execution_task is the right one. *)
THEOREM AuditInventsNothing == Spec => []NothingInvented
<1>1. IInv => NothingInvented
  BY DEF IInv
<1> QED BY <1>1, Inductive, PTL

-----------------------------------------------------------------------------
(* What holds of a call that no other overlaps, up to the step it is at.   *)
Lone(p) == Busy(p) /\ job[p].alone

(* A lone call is the only one; while all is calm, every call is lone. *)
LoneInv ==
  /\ \A p, q \in Procs : Lone(p) /\ Busy(q) => q = p
  /\ calm => \A p \in Procs : Busy(p) => Lone(p)

Recorded == IF records = Nothing THEN {} ELSE records.events

(* What is still to be recorded, or traced, once a call has written what it does. *)
EventDue(c) == c.op = "approve" /\ c.at \in {"old_records", "records"}
MoveDue(c) == c.op = "update" /\ c.at \in {"snapshot", "old_trace", "trace"}

Settled ==
  /\ told = Recorded
  /\ trace = [review |-> TRUE, updates |-> moves]

RecordsOf(p) ==
  /\ ~EventDue(job[p]) => told = Recorded
  /\ EventDue(job[p]) => told = Recorded \cup {Event(job[p].bundle)}
  /\ EventDue(job[p]) /\ job[p].at = "records" => job[p].old = Recorded

TraceOf(p) ==
  /\ trace \in Traces /\ trace.review
  /\ ~MoveDue(job[p]) => moves = trace.updates
  /\ MoveDue(job[p]) => moves = trace.updates \cup {job[p].move}
  /\ MoveDue(job[p]) /\ job[p].at = "trace" => job[p].old = trace

AuditOf(p) == RecordsOf(p) /\ TraceOf(p)

AuditInv == calm =>
  /\ (\A p \in Procs : ~Busy(p)) => Settled
  /\ \A p \in Procs : Busy(p) => AuditOf(p)

(* A task is done with and its agent's turn is over, or it is still to come. *)
Placed(t, todo) ==
  \/ Served(t) /\ \A i \in DOMAIN todo : todo[i].agent # t.agent
  \/ \E i \in DOMAIN todo : todo[i] = t

Distinct(todo) == \A i, j \in DOMAIN todo : todo[i].agent = todo[j].agent => i = j

Work(c) == CASE c.op = "handoff" -> {Routed(pack) : pack \in Packs}
             [] c.op = "prepare" -> {Prepared(a) : a \in c.agents}
             [] OTHER -> {}

ApprovedSoFar(p) == job[p].op = "approve" =>
  /\ job[p].at # "bundle" => bundle = job[p].bundle
  /\ job[p].at = "snapshot" => Event(job[p].bundle) \in records.events

UpdatedSoFar(p) == job[p].op = "update" =>
  /\ job[p].tasks.rows[job[p].move.pack] = job[p].move.to
  /\ job[p].at # "check" => bundle = job[p].bundle
  /\ job[p].at \in {"snapshot", "old_trace", "trace"} => tasks = job[p].tasks
  /\ job[p].at \in {"old_trace", "trace"} => snapshot = SnapshotOf(job[p])

HandedSoFar(p) == job[p].op \in {"handoff", "prepare"} =>
  /\ job[p].op = "handoff" => job[p].tasks.rows = [pack \in Packs |-> "pending"]
  /\ \A t \in Work(job[p]) : Placed(t, job[p].todo)
  /\ Distinct(job[p].todo)
  /\ job[p].at = "place" => temp = Head(job[p].todo)
  /\ job[p].at = "tasks" => job[p].todo = <<>>

SoFar(p) == ApprovedSoFar(p) /\ UpdatedSoFar(p) /\ HandedSoFar(p)

TellsInv == \A p \in Procs : Lone(p) => SoFar(p)

Whole == LoneInv /\ AuditInv /\ TellsInv

(* Process p makes a step of its call, and no other process makes one. *)
Moves(p) ==
  /\ Busy(p) /\ calm' \in {calm, FALSE}
  /\ \A q \in Procs : q # p => job'[q] = job[q]
  /\ Busy(p)' => job'[p].alone = job[p].alone

(* A process that is the only one reads what is there. *)
LEMMA OnlyReader ==
  ASSUME NEW p \in Procs, \A q \in Procs : Busy(q) => q = p,
         NEW file, NEW content, NEW x \in Read(p, file, content)
  PROVE  x = content
BY DEF Read

LEMMA LoneReads ==
  ASSUME Whole, NEW p \in Procs, Lone(p),
         NEW file, NEW content, NEW x \in Read(p, file, content)
  PROVE  x = content
<1>1. \A q \in Procs : Busy(q) => q = p
  BY DEF Whole, LoneInv
<1> QED BY <1>1, OnlyReader

(* One step of one call keeps the rest, when it leaves that call's part in order. *)
LEMMA CallGoesOn ==
  ASSUME Whole, NEW p \in Procs, Moves(p),
         calm' /\ Lone(p) /\ AuditOf(p) => IF Busy(p)' THEN AuditOf(p)' ELSE Settled',
         Busy(p)' /\ Lone(p) /\ SoFar(p) => SoFar(p)'
  PROVE  Whole'
<1>1. ASSUME NEW q \in Procs, q # p PROVE job'[q] = job[q] /\ (Busy(q)' <=> Busy(q)) /\ (Lone(q)' <=> Lone(q))
  BY <1>1 DEF Moves, Busy, Lone
<1>2. Busy(p) /\ (Lone(p)' => Lone(p)) /\ (Lone(p) /\ Busy(p)' => Lone(p)')
  BY DEF Moves, Lone
<1>3. LoneInv'
  <2>1. ASSUME NEW q \in Procs, NEW o \in Procs, Lone(q)', Busy(o)' PROVE o = q
    <3>1. Lone(q) /\ Busy(o)
      BY <1>1, <1>2, <2>1
    <3> QED BY <3>1 DEF Whole, LoneInv
  <2>2. ASSUME calm', NEW q \in Procs, Busy(q)' PROVE Lone(q)'
    <3>1. calm /\ Busy(q)
      BY <1>1, <1>2, <2>2 DEF Moves
    <3>2. Lone(q)
      BY <3>1 DEF Whole, LoneInv
    <3> QED BY <1>1, <1>2, <2>2, <3>2
  <2> QED BY <2>1, <2>2 DEF LoneInv
<1>4. AuditInv'
  <2> SUFFICES ASSUME calm'
               PROVE  /\ (\A q \in Procs : ~Busy(q)') => Settled'
                      /\ \A q \in Procs : Busy(q)' => AuditOf(q)'
    BY DEF AuditInv
  <2>1. calm
    BY DEF Moves
  <2>2. Lone(p) /\ AuditOf(p)
    BY <1>2, <2>1 DEF Whole, LoneInv, AuditInv
  <2>3. \A q \in Procs : Busy(q)' => q = p
    BY <1>1, <2>2 DEF Whole, LoneInv
  <2> QED BY <2>2, <2>3
<1>5. TellsInv'
  <2>1. ASSUME NEW q \in Procs, Lone(q)' PROVE SoFar(q)'
    <3>1. q = p
      BY <1>1, <1>2, <2>1 DEF Whole, LoneInv
    <3>2. Lone(p) /\ SoFar(p) /\ Busy(p)'
      BY <1>2, <2>1, <3>1 DEF Whole, TellsInv, Lone
    <3> QED BY <3>1, <3>2
  <2> QED BY <2>1 DEF TellsInv
<1> QED BY <1>3, <1>4, <1>5 DEF Whole

(* A call goes to a later step, or it ends. *)
LEMMA NextStep ==
  ASSUME IInv, NEW p \in Procs, Busy(p), NEW at \in Steps, calm' = calm,
         job' = [job EXCEPT ![p] = [job[p] EXCEPT !.at = at]]
  PROVE  /\ Moves(p) /\ Busy(p)' /\ job'[p].at = at /\ job'[p].op = job[p].op
         /\ job'[p].bundle = job[p].bundle /\ job'[p].tasks = job[p].tasks
         /\ job'[p].old = job[p].old /\ job'[p].move = job[p].move
         /\ job'[p].todo = job[p].todo /\ job'[p].agents = job[p].agents
<1>1. job[p] \in Jobs /\ job \in [Procs -> Maybe(Jobs)]
  BY DEF IInv, JobsInv, JobOK
<1>2. job'[p] = [job[p] EXCEPT !.at = at] /\ \A q \in Procs : q # p => job'[q] = job[q]
  BY <1>1
<1>3. job'[p] \in Jobs
  BY <1>1, <1>2 DEF Jobs
<1>4. Busy(p)'
  BY <1>3, NothingAssumption DEF Busy
<1> QED BY <1>1, <1>2, <1>4 DEF Jobs, Moves

LEMMA LastStep ==
  ASSUME IInv, NEW p \in Procs, Busy(p), calm' \in {calm, FALSE}, job' = [job EXCEPT ![p] = Nothing]
  PROVE  Moves(p) /\ ~Busy(p)'
BY DEF IInv, JobsInv, Moves, Busy

-----------------------------------------------------------------------------
(* Generating writes no audit file, and its call needs none of the others. *)
LEMMA GenerateBundleTells ==
  ASSUME IInv, Whole, NEW p \in Procs, GenerateBundle(p)
  PROVE  Whole'
<1>1. Moves(p) /\ ~Busy(p)' /\ job[p].op = "generate"
  BY GenerateSteps, LastStep DEF GenerateBundle, At, history
<1>2. UNCHANGED <<told, records, moves, trace>>
  BY DEF GenerateBundle, history
<1>3. AuditOf(p) => Settled'
  BY <1>1, <1>2 DEF AuditOf, RecordsOf, TraceOf, EventDue, MoveDue, Settled, Recorded, Traces
<1> QED BY <1>1, <1>3, CallGoesOn

(* The event is due to the records from the write of the bundle on. *)
LEMMA ApproveBundleTells ==
  ASSUME IInv, Whole, NEW p \in Procs, ApproveBundle(p)
  PROVE  Whole'
<1>1. Busy(p) /\ job[p].op = "approve" /\ job[p].at = "bundle"
  BY DEF ApproveBundle, At
<1>2. job' = [job EXCEPT ![p] = [job[p] EXCEPT !.at = "old_records"]]
  BY <1>1, ApproveSteps DEF ApproveBundle
<1>3. /\ bundle' = job[p].bundle /\ told' = told \cup {Event(job[p].bundle)}
      /\ UNCHANGED <<records, moves, trace, calm>>
  BY DEF ApproveBundle
<1>4. /\ Moves(p) /\ Busy(p)' /\ job'[p].at = "old_records" /\ job'[p].op = "approve"
      /\ job'[p].bundle = job[p].bundle
  BY <1>1, <1>2, <1>3, NextStep DEF Steps
<1>5. AuditOf(p) => AuditOf(p)'
  BY <1>1, <1>3, <1>4 DEF AuditOf, RecordsOf, TraceOf, EventDue, MoveDue, Recorded
<1>6. SoFar(p)'
  BY <1>3, <1>4 DEF SoFar, ApprovedSoFar, UpdatedSoFar, HandedSoFar
<1> QED BY <1>4, <1>5, <1>6, CallGoesOn

(* The records are read as they are. *)
LEMMA ApproveOldRecordsTells ==
  ASSUME IInv, Whole, NEW p \in Procs, ApproveOldRecords(p)
  PROVE  Whole'
<1>1. PICK r \in Read(p, "records", records) :
        Advance(p, [job[p] EXCEPT !.old = IF r = Nothing THEN {} ELSE r.events])
  BY DEF ApproveOldRecords
<1> DEFINE old == IF r = Nothing THEN {} ELSE r.events
           c == [job[p] EXCEPT !.old = old]
           d == [c EXCEPT !.at = "records"]
<1>2. JobOK(job[p], told, moves) /\ Busy(p) /\ job[p].op = "approve" /\ job[p].at = "old_records"
  BY DEF IInv, JobsInv, ApproveOldRecords, At
<1>3. old \in SUBSET Told
  <2>1. records # Nothing => records \in Records
    BY DEF IInv, TypeOK, Maybe
  <2>2. r = records \/ r = Nothing
    BY <1>1, Found
  <2> QED BY <2>1, <2>2 DEF Records
<1>4. /\ c \in Jobs /\ c.op = "approve" /\ c.at = "old_records" /\ c.bundle = job[p].bundle
      /\ c.old = old /\ c.alone = job[p].alone
  <2> HIDE DEF old
  <2> QED BY <1>2, <1>3 DEF JobOK, Jobs
<1>5. job' = [job EXCEPT ![p] = d]
  <2> HIDE DEF c
  <2> QED BY <1>1, <1>4, ApproveSteps DEF c
<1>6. /\ d \in Jobs /\ d.op = "approve" /\ d.at = "records" /\ d.bundle = job[p].bundle
      /\ d.old = old /\ d.alone = job[p].alone
  <2> HIDE DEF c, old
  <2> QED BY <1>4 DEF Jobs, Steps
<1> HIDE DEF c, d
<1>7. UNCHANGED <<told, moves, bundle, records, trace, calm>>
  BY DEF ApproveOldRecords, files, history
<1>8. job'[p] = d /\ Busy(p)' /\ Moves(p)
  <2>1. job \in [Procs -> Maybe(Jobs)]
    BY DEF IInv, JobsInv
  <2> QED BY <1>2, <1>5, <1>6, <1>7, <2>1, NothingAssumption DEF Moves, Busy
<1>9. Lone(p) => old = Recorded
  <2>1. Lone(p) => r = records
    BY <1>1, LoneReads
  <2> QED BY <2>1 DEF Recorded
<1> HIDE DEF old
<1>10. Lone(p) /\ AuditOf(p) => AuditOf(p)'
  BY <1>2, <1>6, <1>7, <1>8, <1>9 DEF AuditOf, RecordsOf, TraceOf, EventDue, MoveDue, Recorded
<1>11. SoFar(p) => SoFar(p)'
  BY <1>2, <1>6, <1>7, <1>8 DEF SoFar, ApprovedSoFar, UpdatedSoFar, HandedSoFar
<1> QED BY <1>8, <1>10, <1>11, CallGoesOn

(* With the new record the records are complete again. *)
LEMMA ApproveRecordsTells ==
  ASSUME IInv, Whole, NEW p \in Procs, ApproveRecords(p)
  PROVE  Whole'
<1>1. Busy(p) /\ JobOK(job[p], told, moves) /\ job[p].op = "approve" /\ job[p].at = "records"
  BY DEF IInv, JobsInv, ApproveRecords, At
<1>2. job' = [job EXCEPT ![p] = [job[p] EXCEPT !.at = "snapshot"]]
  BY <1>1, ApproveSteps DEF ApproveRecords
<1>3. /\ records' = [events |-> job[p].old \cup {Event(job[p].bundle)}]
      /\ UNCHANGED <<bundle, told, moves, trace, calm>>
  BY DEF ApproveRecords, WithRecord, history
<1>4. /\ Moves(p) /\ Busy(p)' /\ job'[p].at = "snapshot" /\ job'[p].op = "approve"
      /\ job'[p].bundle = job[p].bundle
  BY <1>1, <1>2, <1>3, NextStep DEF Steps
<1>5. records'.events = job[p].old \cup {Event(job[p].bundle)} /\ records' # Nothing
  <2>1. job[p].old \subseteq told /\ Event(job[p].bundle) \in told /\ told \subseteq Told
    BY <1>1 DEF JobOK, ApproveJob, IInv, TypeOK
  <2>2. records' \in Records
    BY <1>3, <2>1 DEF Records
  <2> QED BY <1>3, <2>2, NothingAssumption
<1>6. Recorded' = job[p].old \cup {Event(job[p].bundle)}
  BY <1>5 DEF Recorded
<1>7. AuditOf(p) => AuditOf(p)'
  BY <1>1, <1>3, <1>4, <1>6 DEF AuditOf, RecordsOf, TraceOf, EventDue, MoveDue
<1>8. SoFar(p) => SoFar(p)'
  BY <1>1, <1>3, <1>4, <1>5 DEF SoFar, ApprovedSoFar, UpdatedSoFar, HandedSoFar
<1> QED BY <1>4, <1>7, <1>8, CallGoesOn

(* The answer to an approval writes the snapshot only. *)
LEMMA ApproveSnapshotTells ==
  ASSUME IInv, Whole, NEW p \in Procs, ApproveSnapshot(p)
  PROVE  Whole'
<1>1. Busy(p) /\ job[p].op = "approve" /\ job[p].at = "snapshot"
  BY DEF ApproveSnapshot, At
<1>2. UNCHANGED <<told, records, moves, trace, calm>>
  BY DEF ApproveSnapshot, history
<1>3. Moves(p) /\ ~Busy(p)'
  BY <1>1, <1>2, ApproveSteps, LastStep DEF ApproveSnapshot
<1>4. AuditOf(p) => Settled'
  BY <1>1, <1>2 DEF AuditOf, RecordsOf, TraceOf, EventDue, MoveDue, Settled, Recorded, Traces
<1> QED BY <1>3, <1>4, CallGoesOn

-----------------------------------------------------------------------------
(* A call that starts is lone when nobody else is busy, and nobody is lone beside it. *)
LEMMA CallStarts ==
  ASSUME IInv, Whole, NEW p \in Procs, NEW c \in Jobs, Begin(p, c),
         c.alone = \A q \in Procs : ~Busy(q), ~EventDue(c), ~MoveDue(c),
         c.alone => SoFar(p)'
  PROVE  Whole'
<1>1. job'[p] = c /\ ~Busy(p) /\ calm' = (calm /\ c.alone)
  BY DEF Begin
<1>2. ASSUME NEW q \in Procs, q # p PROVE ~Lone(q)' /\ (Busy(q)' => Busy(q))
  <2>1. CASE Busy(q)
    <3>1. job'[q] = [job[q] EXCEPT !.alone = FALSE] /\ job[q] \in Jobs
      BY <1>2, <2>1 DEF Begin, IInv, JobsInv, JobOK
    <3>2. ~job'[q].alone
      BY <3>1 DEF Jobs
    <3> QED BY <2>1, <3>2 DEF Lone
  <2>2. CASE ~Busy(q)
    BY <1>2, <2>2 DEF Begin, Busy, Lone
  <2> QED BY <2>1, <2>2
<1>3. Busy(p)' /\ (Lone(p)' <=> c.alone)
  <2>1. Busy(p)'
    BY <1>1, NothingAssumption DEF Busy
  <2> QED BY <1>1, <2>1, Zenon DEF Lone
<1>4. LoneInv'
  <2>1. ASSUME NEW q \in Procs, NEW o \in Procs, Lone(q)', Busy(o)' PROVE o = q
    BY <1>2, <1>3, <2>1
  <2>2. ASSUME calm', NEW q \in Procs, Busy(q)' PROVE Lone(q)'
    BY <1>1, <1>2, <1>3, <2>2
  <2> QED BY <2>1, <2>2 DEF LoneInv
<1>5. AuditInv'
  <2> SUFFICES ASSUME calm' PROVE \A q \in Procs : Busy(q)' => AuditOf(q)'
    BY <1>3 DEF AuditInv
  <2>1. calm /\ c.alone /\ \A q \in Procs : ~Busy(q)
    BY <1>1
  <2>2. Settled /\ \A q \in Procs : Busy(q)' => q = p
    BY <1>2, <2>1 DEF Whole, AuditInv
  <2>3. UNCHANGED <<records, trace, told, moves>>
    BY DEF Begin, files
  <2>4. trace \in Traces /\ trace.review /\ trace.updates = moves
    BY <2>2 DEF Settled, IInv, TypeOK, Traces
  <2>5. AuditOf(p)'
    BY <1>1, <2>2, <2>3, <2>4 DEF AuditOf, RecordsOf, TraceOf, Settled, Recorded, EventDue, MoveDue
  <2> QED BY <2>2, <2>5
<1>6. TellsInv'
  BY <1>2, <1>3 DEF TellsInv
<1> QED BY <1>4, <1>5, <1>6 DEF Whole

(* What a call knows at its start. *)
LEMMA GenerateBegins ==
  ASSUME IInv, Whole, NEW p \in Procs, Generate(p)
  PROVE  Whole'
<1> DEFINE c == Fresh("generate")
<1>1. c \in Jobs /\ c.op = "generate" /\ c.alone = \A q \in Procs : ~Busy(q)
  BY FreshTyped DEF Fresh
<1>2. Begin(p, c)
  BY DEF Generate
<1> HIDE DEF c
<1>3. SoFar(p)'
  BY <1>1, <1>2 DEF Begin, SoFar, ApprovedSoFar, UpdatedSoFar, HandedSoFar
<1> QED BY <1>1, <1>2, <1>3, CallStarts DEF EventDue, MoveDue

LEMMA ApproveBegins ==
  ASSUME IInv, Whole, NEW p \in Procs, NEW action \in DOMAIN ApprovalActions, ApproveLoad(p, action)
  PROVE  Whole'
<1> DEFINE to == ApprovalActions[action]
           given(b) == [b EXCEPT !.status = to, !.history = Append(@, to)]
           c(b) == [Fresh("approve") EXCEPT !.bundle = given(b)]
<1>1. PICK b \in Read(p, "bundle", bundle) : b # Nothing /\ Begin(p, c(b))
  BY DEF ApproveLoad
<1>2. b \in Bundles
  BY <1>1, Found DEF IInv, TypeOK, Maybe
<1>3. to \in BundleStatuses
  BY DEF ApprovalActions, BundleStatuses
<1>4. Append(b.history, to) \in Seq(BundleStatuses)
  BY <1>2, <1>3 DEF Bundles
<1>5. given(b) \in Bundles
  BY <1>2, <1>3, <1>4 DEF Bundles
<1>6. /\ c(b) \in Jobs /\ c(b).op = "approve" /\ c(b).at = "bundle"
      /\ c(b).alone = \A q \in Procs : ~Busy(q)
  <2> HIDE DEF given
  <2>1. Fresh("approve") \in Jobs /\ Fresh("approve").alone = \A q \in Procs : ~Busy(q)
    BY FreshTyped DEF Fresh
  <2> QED BY <1>5, <2>1, FreshCalls DEF Jobs, Maybe
<1> HIDE DEF c
<1>7. SoFar(p)'
  BY <1>1, <1>6 DEF Begin, SoFar, ApprovedSoFar, UpdatedSoFar, HandedSoFar
<1> QED BY <1>1, <1>6, <1>7, CallStarts DEF EventDue, MoveDue

LEMMA HandoffBegins ==
  ASSUME IInv, Whole, NEW p \in Procs, NEW mode \in Modes, HandoffLoad(p, mode)
  PROVE  Whole'
<1> DEFINE c(b) == [Fresh("handoff") EXCEPT !.tasks = Route(b, mode), !.todo = DEFAULT_PACK_SPECS]
<1>1. PICK b \in Read(p, "bundle", bundle) : b # Nothing /\ Routable(b) /\ Begin(p, c(b))
  BY DEF HandoffLoad
<1>2. b \in Bundles
  BY <1>1, Found DEF IInv, TypeOK, Maybe
<1>3. Route(b, mode) \in Tables /\ Route(b, mode).rows = [pack \in Packs |-> "pending"]
  <2>1. ResolveMode(mode) \in ExecutionModes
    BY ModeResolved, DeliveryAssumption
  <2>2. [pack \in Packs |-> "pending"] \in [Packs -> TaskStatuses]
    BY DEF TaskStatuses
  <2> QED BY <1>2, <2>1, <2>2 DEF Route, Tables, Bundles
<1>4. DEFAULT_PACK_SPECS \in Seq(TaskIds)
  <2>1. Routed("implementation_pack") \in TaskIds /\ Routed("test_pack") \in TaskIds
    BY DEF TaskIds, Packs
  <2> QED BY <2>1 DEF DEFAULT_PACK_SPECS
<1>5. /\ c(b) \in Jobs /\ c(b).op = "handoff" /\ c(b).at = "build"
      /\ c(b).tasks = Route(b, mode) /\ c(b).todo = DEFAULT_PACK_SPECS
      /\ c(b).alone = \A q \in Procs : ~Busy(q)
  <2>1. Fresh("handoff") \in Jobs /\ Fresh("handoff").alone = \A q \in Procs : ~Busy(q)
    BY FreshTyped DEF Fresh
  <2> QED BY <1>3, <1>4, <2>1, FreshCalls DEF Jobs, Maybe
<1> HIDE DEF c
<1>6. /\ DOMAIN DEFAULT_PACK_SPECS = {1, 2}
      /\ DEFAULT_PACK_SPECS[1] = Routed("implementation_pack")
      /\ DEFAULT_PACK_SPECS[2] = Routed("test_pack")
  BY DEF DEFAULT_PACK_SPECS
<1>7. Distinct(DEFAULT_PACK_SPECS)
  BY <1>6 DEF Distinct, Routed, Executor
<1>8. \A pack \in Packs : \E i \in DOMAIN DEFAULT_PACK_SPECS : DEFAULT_PACK_SPECS[i] = Routed(pack)
  BY <1>6 DEF Packs
<1>9. job'[p] = c(b)
  BY <1>1 DEF Begin
<1>10. HandedSoFar(p)'
  <2>1. Work(job'[p]) = {Routed(pack) : pack \in Packs}
    BY <1>5, <1>9 DEF Work
  <2>2. \A t \in Work(job'[p]) : \E i \in DOMAIN job'[p].todo : job'[p].todo[i] = t
    BY <1>5, <1>8, <1>9, <2>1
  <2> QED BY <1>3, <1>5, <1>7, <1>9, <2>2 DEF HandedSoFar, Placed
<1>11. SoFar(p)'
  BY <1>5, <1>9, <1>10 DEF SoFar, ApprovedSoFar, UpdatedSoFar
<1> QED BY <1>1, <1>5, <1>11, CallStarts DEF EventDue, MoveDue

LEMMA PrepareBegins ==
  ASSUME IInv, Whole, NEW p \in Procs, NEW selection \in Selections, PrepareLoad(p, selection)
  PROVE  Whole'
<1> DEFINE agents == SelectedAgents(selection)
           todo == [i \in DOMAIN agents |-> Prepared(agents[i])]
           c == [Fresh("prepare") EXCEPT !.agents = ToSet(agents), !.todo = todo]
<1>1. Begin(p, c)
  BY DEF PrepareLoad
<1>2. agents \in Seq(Agents) /\ \A i, j \in DOMAIN agents : agents[i] = agents[j] => i = j
  <2>1. CASE selection = "all"
    BY <2>1 DEF SelectedAgents, Agents
  <2>2. CASE selection # "all"
    <3>1. selection \in Agents
      BY <2>2, DeliveryAssumption
    <3> QED BY <2>2, <3>1 DEF SelectedAgents
  <2> QED BY <2>1, <2>2
<1>3. ToSet(agents) \subseteq Agents
  BY <1>2 DEF ToSet
<1>4. todo \in Seq(TaskIds)
  <2> HIDE DEF agents
  <2>1. \A i \in DOMAIN agents : Prepared(agents[i]) \in TaskIds
    BY <1>2 DEF TaskIds
  <2>2. DOMAIN agents = 1..Len(agents) /\ Len(agents) \in Nat
    BY <1>2
  <2> QED BY <2>1, <2>2
<1>5. /\ c \in Jobs /\ c.op = "prepare" /\ c.at = "build" /\ c.todo = todo
      /\ c.agents = ToSet(agents) /\ c.alone = \A q \in Procs : ~Busy(q)
  <2> HIDE DEF todo, agents
  <2>1. Fresh("prepare") \in Jobs /\ Fresh("prepare").alone = \A q \in Procs : ~Busy(q)
    BY FreshTyped DEF Fresh
  <2> QED BY <1>3, <1>4, <2>1, FreshCalls DEF Jobs, Maybe
<1> HIDE DEF c
<1>6. DOMAIN todo = DOMAIN agents /\ \A i \in DOMAIN agents : todo[i] = Prepared(agents[i])
  OBVIOUS
<1>7. Distinct(todo)
  <2> HIDE DEF todo, agents
  <2> QED BY <1>2, <1>6 DEF Distinct, Prepared
<1>8. \A a \in ToSet(agents) : \E i \in DOMAIN todo : todo[i] = Prepared(a)
  <2> HIDE DEF todo, agents
  <2> QED BY <1>6 DEF ToSet
<1>9. job'[p] = c
  BY <1>1 DEF Begin
<1> HIDE DEF todo, agents
<1>10. HandedSoFar(p)'
  <2>1. Work(job'[p]) = {Prepared(a) : a \in ToSet(agents)}
    BY <1>5, <1>9 DEF Work
  <2>2. \A t \in Work(job'[p]) : \E i \in DOMAIN job'[p].todo : job'[p].todo[i] = t
    BY <1>5, <1>8, <1>9, <2>1
  <2> QED BY <1>5, <1>7, <1>9, <2>2 DEF HandedSoFar, Placed
<1>11. SoFar(p)'
  BY <1>5, <1>9, <1>10 DEF SoFar, ApprovedSoFar, UpdatedSoFar
<1> QED BY <1>1, <1>5, <1>11, CallStarts DEF EventDue, MoveDue

LEMMA UpdateBegins ==
  ASSUME IInv, Whole, NEW p \in Procs, NEW pack \in Packs, NEW to \in Resolved, UpdateLoad(p, pack, to)
  PROVE  Whole'
<1> DEFINE moved(t) == [t EXCEPT !.rows[pack] = to]
           move(t) == [pack |-> pack, from |-> t.rows[pack], to |-> to]
           c(t) == [Fresh("update") EXCEPT !.tasks = moved(t), !.move = move(t)]
<1>1. PICK t \in Read(p, "tasks", tasks) : t # Nothing /\ Begin(p, c(t))
  BY DEF UpdateLoad
<1>2. t \in Tables
  BY <1>1, Found DEF IInv, TypeOK, Maybe
<1>3. moved(t) \in Tables /\ moved(t).rows[pack] = to
  <2>1. [t.rows EXCEPT ![pack] = to] \in [Packs -> TaskStatuses]
    BY <1>2 DEF Tables, Resolved
  <2>2. [t.rows EXCEPT ![pack] = to][pack] = to
    BY <1>2 DEF Tables
  <2> QED BY <1>2, <2>1, <2>2 DEF Tables
<1>4. move(t) \in Moved /\ move(t).pack = pack /\ move(t).to = to
  BY <1>2 DEF Tables, Moved, Resolved
<1>5. /\ c(t) \in Jobs /\ c(t).op = "update" /\ c(t).at = "check"
      /\ c(t).tasks = moved(t) /\ c(t).move = move(t)
      /\ c(t).alone = \A q \in Procs : ~Busy(q)
  <2> HIDE DEF moved, move
  <2>1. Fresh("update") \in Jobs /\ Fresh("update").alone = \A q \in Procs : ~Busy(q)
    BY FreshTyped DEF Fresh
  <2> QED BY <1>3, <1>4, <2>1, FreshCalls DEF Jobs, Maybe
<1> HIDE DEF c, moved, move
<1>6. job'[p] = c(t)
  BY <1>1 DEF Begin
<1>7. SoFar(p)'
  BY <1>3, <1>4, <1>5, <1>6 DEF SoFar, ApprovedSoFar, UpdatedSoFar, HandedSoFar
<1> QED BY <1>1, <1>5, <1>7, CallStarts DEF EventDue, MoveDue

-----------------------------------------------------------------------------
(* The requests: each is built, and placed, once. *)
LEMMA Untouched ==
  ASSUME NEW p \in Procs, Busy(p), UNCHANGED <<told, records, moves, trace>>,
         job[p].op \in {"generate", "handoff", "prepare"},
         Busy(p)' => job'[p].op = job[p].op, AuditOf(p)
  PROVE  IF Busy(p)' THEN AuditOf(p)' ELSE Settled'
BY DEF AuditOf, RecordsOf, TraceOf, EventDue, MoveDue, Settled, Recorded, Traces

LEMMA BuildTells ==
  ASSUME IInv, Whole, NEW p \in Procs, Build(p)
  PROVE  Whole'
<1> DEFINE t == Head(job[p].todo)
<1>1. Busy(p) /\ job[p].at = "build" /\ Advance(p, job[p])
  BY DEF Build
<1>2. /\ JobOK(job[p], told, moves) /\ job[p].op \in {"handoff", "prepare"}
      /\ job[p].todo # <<>> /\ job[p].todo \in Seq(TaskIds)
  BY <1>1, Todo DEF JobOK, Jobs
<1>3. job' = [job EXCEPT ![p] = [job[p] EXCEPT !.at = "place"]]
  <2>1. CASE job[p].op = "handoff"
    BY <1>1, <2>1, HandoffSteps
  <2>2. CASE job[p].op = "prepare"
    BY <1>1, <2>2, PrepareSteps
  <2> QED BY <1>2, <2>1, <2>2
<1>4. /\ UNCHANGED <<told, records, moves, trace, calm, contexts>>
      /\ temp' = t /\ requests' = [requests EXCEPT ![t.agent] = [task |-> t, final |-> FALSE]]
  BY DEF Build, history
<1>5. /\ Moves(p) /\ Busy(p)' /\ job'[p].at = "place" /\ job'[p].op = job[p].op
      /\ job'[p].tasks = job[p].tasks /\ job'[p].todo = job[p].todo /\ job'[p].agents = job[p].agents
  BY <1>1, <1>3, <1>4, NextStep DEF Steps
<1>6. AuditOf(p) => AuditOf(p)'
  BY <1>1, <1>2, <1>4, <1>5, Untouched
<1>7. 1 \in DOMAIN job[p].todo /\ job[p].todo[1] = t
  BY <1>2
<1> HIDE DEF t
<1>8. requests \in [Agents -> [task : Maybe(TaskIds), final : BOOLEAN]]
  BY DEF IInv, TypeOK
<1>9. ASSUME NEW w, Placed(w, job[p].todo) PROVE Placed(w, job[p].todo)'
  <2>1. CASE Served(w) /\ \A i \in DOMAIN job[p].todo : job[p].todo[i].agent # w.agent
    <3>1. w.agent # t.agent
      BY <1>7, <2>1
    <3>2. requests'[w.agent] = requests[w.agent]
      BY <1>4, <1>8, <3>1
    <3> QED BY <1>4, <1>5, <2>1, <3>2 DEF Placed, Served
  <2>2. CASE \E i \in DOMAIN job[p].todo : job[p].todo[i] = w
    BY <1>5, <2>2 DEF Placed
  <2> QED BY <1>9, <2>1, <2>2 DEF Placed
<1>10. Work(job[p])' = Work(job[p])
  BY <1>5 DEF Work
<1>11. HandedSoFar(p) => HandedSoFar(p)'
  <2> SUFFICES ASSUME HandedSoFar(p) PROVE HandedSoFar(p)'
    OBVIOUS
  <2>1. \A w \in Work(job[p])' : Placed(w, job[p].todo)'
    BY <1>2, <1>9, <1>10 DEF HandedSoFar
  <2>2. Distinct(job[p].todo)'
    BY <1>2, <1>5 DEF HandedSoFar
  <2>3. temp' = Head(job'[p].todo)
    BY <1>4, <1>5 DEF t
  <2> QED BY <1>2, <1>5, <2>1, <2>2, <2>3 DEF HandedSoFar
<1>12. SoFar(p) => SoFar(p)'
  BY <1>2, <1>5, <1>11 DEF SoFar, ApprovedSoFar, UpdatedSoFar
<1> QED BY <1>5, <1>6, <1>12, CallGoesOn

(* What placing the first task does to the tasks of a call. *)
LEMMA Tails ==
  ASSUME NEW s \in Seq(TaskIds), s # <<>>
  PROVE  /\ 1 \in DOMAIN s /\ s[1] = Head(s)
         /\ \A i \in DOMAIN s : i # 1 => i - 1 \in DOMAIN Tail(s) /\ Tail(s)[i - 1] = s[i]
         /\ \A i \in DOMAIN Tail(s) : i + 1 \in DOMAIN s /\ i + 1 # 1 /\ Tail(s)[i] = s[i + 1]
<1>1. Tail(s) \in Seq(TaskIds) /\ Len(Tail(s)) = Len(s) - 1
  OBVIOUS
<1> QED BY <1>1

LEMMA PlaceServes ==
  ASSUME IInv, NEW p \in Procs, Place(p), Busy(p), job[p].todo \in Seq(TaskIds), job[p].todo # <<>>,
         Distinct(job[p].todo), temp = Head(job[p].todo), NEW w \in TaskIds, Placed(w, job[p].todo)
  PROVE  \/ Served(w)' /\ \A i \in DOMAIN Tail(job[p].todo) : Tail(job[p].todo)[i].agent # w.agent
         \/ \E i \in DOMAIN Tail(job[p].todo) : Tail(job[p].todo)[i] = w
<1> DEFINE s == job[p].todo
           t == Head(job[p].todo)
<1>1. t \in TaskIds /\ t.agent \in Agents
  BY TaskAgent
<1>2. /\ contexts' = [contexts EXCEPT ![t] = t]
      /\ requests' = [requests EXCEPT ![t.agent] = [task |-> t, final |-> TRUE]]
  BY <1>1, NothingAssumption DEF Place
<1>3. requests \in [Agents -> [task : Maybe(TaskIds), final : BOOLEAN]] /\ contexts \in [TaskIds -> Maybe(TaskIds)]
  BY DEF IInv, TypeOK
<1>4. /\ 1 \in DOMAIN s /\ s[1] = t
      /\ \A i \in DOMAIN s : i # 1 => i - 1 \in DOMAIN Tail(s) /\ Tail(s)[i - 1] = s[i]
      /\ \A i \in DOMAIN Tail(s) : i + 1 \in DOMAIN s /\ i + 1 # 1 /\ Tail(s)[i] = s[i + 1]
  BY Tails
<1> HIDE DEF s, t
<1>5. CASE Served(w) /\ \A i \in DOMAIN s : s[i].agent # w.agent
  <2>1. w.agent # t.agent /\ w # t
    BY <1>4, <1>5
  <2>2. requests'[w.agent] = requests[w.agent] /\ contexts'[w] = contexts[w]
    BY <1>2, <1>3, <2>1
  <2>3. Served(w)'
    BY <1>5, <2>2 DEF Served
  <2>4. \A i \in DOMAIN Tail(s) : Tail(s)[i].agent # w.agent
    BY <1>4, <1>5
  <2> QED BY <2>3, <2>4 DEF s
<1>6. CASE \E i \in DOMAIN s : s[i] = w
  <2>1. PICK i \in DOMAIN s : s[i] = w
    BY <1>6
  <2>2. CASE i = 1
    <3>1. w = t
      BY <1>4, <2>1, <2>2
    <3>2. Served(w)'
      BY <1>1, <1>2, <1>3, <3>1 DEF Served
    <3>3. \A j \in DOMAIN Tail(s) : Tail(s)[j].agent # w.agent
      <4>1. ASSUME NEW j \in DOMAIN Tail(s), Tail(s)[j].agent = w.agent PROVE FALSE
        <5>1. j + 1 \in DOMAIN s /\ j + 1 # 1 /\ s[j + 1].agent = s[1].agent
          BY <1>4, <3>1, <4>1
        <5>2. \A m, n \in DOMAIN s : s[m].agent = s[n].agent => m = n
          BY DEF Distinct, s
        <5> QED BY <1>4, <5>1, <5>2
      <4> QED BY <4>1
    <3> QED BY <3>1, <3>2, <3>3 DEF s
  <2>3. CASE i # 1
    BY <1>4, <2>1, <2>3 DEF s
  <2> QED BY <2>2, <2>3
<1> QED BY <1>5, <1>6 DEF Placed, s

(* The work of a call is tasks. *)
LEMMA WorkTyped ==
  ASSUME NEW c \in Jobs
  PROVE  Work(c) \subseteq TaskIds
BY DEF Work, TaskIds, Jobs

LEMMA PlaceTells ==
  ASSUME IInv, Whole, NEW p \in Procs, Place(p)
  PROVE  Whole'
<1> DEFINE c == job[p]
           rest == [c EXCEPT !.todo = Tail(c.todo)]
<1>1. Busy(p) /\ c.at = "place"
  BY DEF Place
<1>2. /\ JobOK(c, told, moves) /\ c \in Jobs /\ c.op \in {"handoff", "prepare"}
      /\ c.todo \in Seq(TaskIds) /\ c.todo # <<>> /\ Tail(c.todo) \in Seq(TaskIds)
  BY <1>1, Todo DEF JobOK, Jobs
<1>3. UNCHANGED <<told, records, moves, trace, calm>>
  BY DEF Place, history
<1>4. IF rest.todo = <<>> THEN Advance(p, rest)
      ELSE job' = [job EXCEPT ![p] = [rest EXCEPT !.at = "build"]]
  BY DEF Place
<1>5. /\ rest \in Jobs /\ rest.todo = Tail(c.todo) /\ rest.op = c.op /\ rest.at = "place"
      /\ rest.alone = c.alone /\ rest.tasks = c.tasks /\ rest.agents = c.agents
  BY <1>1, <1>2 DEF Jobs
<1> HIDE DEF c, rest
<1>6. \/ job' = [job EXCEPT ![p] = Nothing]
      \/ job' = [job EXCEPT ![p] = [rest EXCEPT !.at = "build"]]
      \/ rest.todo = <<>> /\ job' = [job EXCEPT ![p] = [rest EXCEPT !.at = "tasks"]]
  <2>1. CASE rest.todo = <<>> /\ c.op = "handoff"
    BY <1>4, <1>5, <2>1, HandoffSteps
  <2>2. CASE rest.todo = <<>> /\ c.op = "prepare"
    BY <1>4, <1>5, <2>2, PrepareSteps
  <2> QED BY <1>2, <1>4, <2>1, <2>2
<1>7. CASE job' = [job EXCEPT ![p] = Nothing]
  <2>1. Moves(p) /\ ~Busy(p)'
    BY <1>1, <1>3, <1>7, LastStep
  <2>2. AuditOf(p) => Settled'
    BY <1>1, <1>2, <1>3, <2>1, Untouched DEF c
  <2> QED BY <2>1, <2>2, CallGoesOn
<1>8. CASE job' # [job EXCEPT ![p] = Nothing]
  <2>2. PICK at \in {"build", "tasks"} :
          /\ at = "tasks" => rest.todo = <<>>
          /\ job' = [job EXCEPT ![p] = [rest EXCEPT !.at = at]]
    BY <1>6, <1>8
  <2> DEFINE d == [rest EXCEPT !.at = at]
  <2>3. /\ d \in Jobs /\ d.op = c.op /\ d.at = at /\ d.todo = Tail(c.todo)
        /\ d.alone = c.alone /\ d.tasks = c.tasks /\ d.agents = c.agents
    BY <1>5 DEF Jobs, Steps
  <2>4. job' = [job EXCEPT ![p] = d]
    BY <2>2
  <2> HIDE DEF d
  <2>5. job'[p] = d /\ Busy(p)' /\ Moves(p)
    <3>1. job \in [Procs -> Maybe(Jobs)]
      BY DEF IInv, JobsInv
    <3> QED BY <1>1, <1>3, <2>3, <2>4, <3>1, NothingAssumption DEF Moves, Busy, c
  <2>6. AuditOf(p) => AuditOf(p)'
    BY <1>1, <1>2, <1>3, <2>3, <2>5, Untouched DEF c
  <2>7. HandedSoFar(p) => HandedSoFar(p)'
    <3> SUFFICES ASSUME HandedSoFar(p) PROVE HandedSoFar(p)'
      OBVIOUS
    <3>1. /\ Distinct(c.todo) /\ temp = Head(c.todo) /\ \A w \in Work(c) : Placed(w, c.todo)
          /\ c.op = "handoff" => c.tasks.rows = [pack \in Packs |-> "pending"]
      BY <1>1, <1>2 DEF HandedSoFar, c
    <3>2. Work(d) = Work(c) /\ Work(c) \subseteq TaskIds
      BY <1>2, <2>3, WorkTyped DEF Work
    <3>3. ASSUME NEW w \in Work(job'[p]) PROVE Placed(w, job[p].todo)'
      <4>1. w \in TaskIds /\ Placed(w, c.todo)
        BY <2>5, <3>1, <3>2, <3>3
      <4>2. \/ Served(w)' /\ \A i \in DOMAIN Tail(c.todo) : Tail(c.todo)[i].agent # w.agent
            \/ \E i \in DOMAIN Tail(c.todo) : Tail(c.todo)[i] = w
        BY <1>1, <1>2, <3>1, <4>1, PlaceServes DEF c
      <4> QED BY <2>3, <2>5, <4>2 DEF Placed
    <3>4. Distinct(Tail(c.todo))
      BY <1>2, <3>1, Tails DEF Distinct
    <3>5. d.at # "place" /\ (d.at = "tasks" => d.todo = <<>>)
      BY <1>5, <2>2, <2>3
    <3> QED BY <2>3, <2>5, <3>1, <3>3, <3>4, <3>5 DEF HandedSoFar
  <2>8. SoFar(p) => SoFar(p)'
    BY <1>2, <2>3, <2>5, <2>7 DEF SoFar, ApprovedSoFar, UpdatedSoFar
  <2> QED BY <2>5, <2>6, <2>8, CallGoesOn
<1> QED BY <1>7, <1>8

LEMMA HandoffTasksTells ==
  ASSUME IInv, Whole, NEW p \in Procs, HandoffTasks(p)
  PROVE  Whole'
<1>1. Busy(p) /\ job[p].op = "handoff" /\ job[p].at = "tasks"
  BY DEF HandoffTasks, At
<1>2. UNCHANGED <<told, records, moves, trace, calm>>
  BY DEF HandoffTasks, history
<1>3. Moves(p) /\ ~Busy(p)'
  BY <1>1, <1>2, HandoffSteps, LastStep DEF HandoffTasks
<1>4. AuditOf(p) => Settled'
  BY <1>1, <1>2, <1>3, Untouched
<1> QED BY <1>3, <1>4, CallGoesOn

-----------------------------------------------------------------------------
(* The update's bundle is read as it is, or the call is refused. *)
LEMMA UpdateCheckTells ==
  ASSUME IInv, Whole, NEW p \in Procs, UpdateCheck(p)
  PROVE  Whole'
<1>1. JobOK(job[p], told, moves) /\ Busy(p) /\ job[p].op = "update" /\ job[p].at = "check"
  BY DEF IInv, JobsInv, UpdateCheck, At
<1>2. UNCHANGED <<told, moves, records, trace, bundle, calm>>
  BY DEF UpdateCheck, files, history
<1>3. PICK b \in Read(p, "bundle", bundle) :
        IF b # Nothing THEN Advance(p, [job[p] EXCEPT !.bundle = b]) ELSE Refuse(p)
  BY DEF UpdateCheck
<1>4. CASE b = Nothing
  <2>1. Moves(p) /\ ~Busy(p)'
    BY <1>1, <1>2, <1>3, <1>4, LastStep DEF Refuse
  <2>2. AuditOf(p) => Settled'
    BY <1>1, <1>2 DEF AuditOf, RecordsOf, TraceOf, EventDue, MoveDue, Settled, Recorded, Traces
  <2> QED BY <2>1, <2>2, CallGoesOn
<1>5. CASE b # Nothing
  <2> DEFINE c == [job[p] EXCEPT !.bundle = b]
             d == [c EXCEPT !.at = "tasks"]
  <2>1. b \in Bundles
    BY <1>3, <1>5, Found DEF IInv, TypeOK, Maybe
  <2>2. /\ c \in Jobs /\ c.op = "update" /\ c.at = "check" /\ c.bundle = b
        /\ c.tasks = job[p].tasks /\ c.move = job[p].move /\ c.alone = job[p].alone
    BY <1>1, <2>1 DEF JobOK, Jobs, Maybe
  <2>3. job' = [job EXCEPT ![p] = d]
    <3> HIDE DEF c
    <3>1. Advance(p, c)
      BY <1>3, <1>5 DEF c
    <3> QED BY <2>2, <3>1, UpdateSteps
  <2>4. /\ d \in Jobs /\ d.op = "update" /\ d.at = "tasks" /\ d.bundle = b
        /\ d.tasks = job[p].tasks /\ d.move = job[p].move /\ d.alone = job[p].alone
    <3> HIDE DEF c
    <3> QED BY <2>2 DEF Jobs, Steps
  <2> HIDE DEF c, d
  <2>5. job'[p] = d /\ Busy(p)' /\ Moves(p)
    <3>1. job \in [Procs -> Maybe(Jobs)]
      BY DEF IInv, JobsInv
    <3> QED BY <1>1, <1>2, <2>3, <2>4, <3>1, NothingAssumption DEF Moves, Busy
  <2>6. AuditOf(p) => AuditOf(p)'
    BY <1>1, <1>2, <2>4, <2>5 DEF AuditOf, RecordsOf, TraceOf, EventDue, MoveDue, Recorded
  <2>7. Lone(p) => b = bundle
    BY <1>3, LoneReads
  <2>8. Lone(p) /\ SoFar(p) => SoFar(p)'
    BY <1>1, <1>2, <2>4, <2>5, <2>7 DEF SoFar, ApprovedSoFar, UpdatedSoFar, HandedSoFar
  <2> QED BY <2>5, <2>6, <2>8, CallGoesOn
<1> QED BY <1>4, <1>5

(* The update is due to the trace from the write of the tasks on. *)
LEMMA UpdateTasksTells ==
  ASSUME IInv, Whole, NEW p \in Procs, UpdateTasks(p)
  PROVE  Whole'
<1>1. Busy(p) /\ job[p].op = "update" /\ job[p].at = "tasks"
  BY DEF UpdateTasks, At
<1>2. job' = [job EXCEPT ![p] = [job[p] EXCEPT !.at = "snapshot"]]
  BY <1>1, UpdateSteps DEF UpdateTasks
<1>3. /\ tasks' = job[p].tasks /\ moves' = moves \cup {job[p].move}
      /\ UNCHANGED <<bundle, records, told, trace, calm>>
  BY DEF UpdateTasks
<1>4. /\ Moves(p) /\ Busy(p)' /\ job'[p].at = "snapshot" /\ job'[p].op = "update"
      /\ job'[p].bundle = job[p].bundle /\ job'[p].tasks = job[p].tasks /\ job'[p].move = job[p].move
  BY <1>1, <1>2, <1>3, NextStep DEF Steps
<1>5. AuditOf(p) => AuditOf(p)'
  BY <1>1, <1>3, <1>4 DEF AuditOf, RecordsOf, TraceOf, EventDue, MoveDue, Recorded
<1>6. SoFar(p) => SoFar(p)'
  BY <1>1, <1>3, <1>4 DEF SoFar, ApprovedSoFar, UpdatedSoFar, HandedSoFar
<1> QED BY <1>4, <1>5, <1>6, CallGoesOn

LEMMA UpdateSnapshotTells ==
  ASSUME IInv, Whole, NEW p \in Procs, UpdateSnapshot(p)
  PROVE  Whole'
<1>1. Busy(p) /\ job[p].op = "update" /\ job[p].at = "snapshot"
  BY DEF UpdateSnapshot, At
<1>2. job' = [job EXCEPT ![p] = [job[p] EXCEPT !.at = "old_trace"]]
  BY <1>1, UpdateSteps DEF UpdateSnapshot
<1>3. snapshot' = SnapshotOf(job[p]) /\ UNCHANGED <<bundle, records, tasks, told, moves, trace, calm>>
  BY DEF UpdateSnapshot, history
<1>4. /\ Moves(p) /\ Busy(p)' /\ job'[p].at = "old_trace" /\ job'[p].op = "update"
      /\ job'[p].bundle = job[p].bundle /\ job'[p].tasks = job[p].tasks /\ job'[p].move = job[p].move
  BY <1>1, <1>2, <1>3, NextStep DEF Steps
<1>5. AuditOf(p) => AuditOf(p)'
  BY <1>1, <1>3, <1>4 DEF AuditOf, RecordsOf, TraceOf, EventDue, MoveDue, Recorded
<1>6. SoFar(p) => SoFar(p)'
  BY <1>1, <1>3, <1>4 DEF SoFar, ApprovedSoFar, UpdatedSoFar, HandedSoFar, SnapshotOf
<1> QED BY <1>4, <1>5, <1>6, CallGoesOn

(* The trace is read as it is. *)
LEMMA UpdateOldTraceTells ==
  ASSUME IInv, Whole, NEW p \in Procs, UpdateOldTrace(p)
  PROVE  Whole'
<1>1. PICK r \in Read(p, "trace", trace) :
        Advance(p, [job[p] EXCEPT !.old = IF r = Nothing THEN NoTrace ELSE r])
  BY DEF UpdateOldTrace
<1> DEFINE old == IF r = Nothing THEN NoTrace ELSE r
           c == [job[p] EXCEPT !.old = old]
           d == [c EXCEPT !.at = "trace"]
<1>2. JobOK(job[p], told, moves) /\ Busy(p) /\ job[p].op = "update" /\ job[p].at = "old_trace"
  BY DEF IInv, JobsInv, UpdateOldTrace, At
<1>3. old \in Traces
  <2>1. NoTrace \in Traces
    BY DEF NoTrace, Traces
  <2>2. r = trace \/ r = Nothing
    BY <1>1, Found
  <2> QED BY <2>1, <2>2 DEF IInv, TypeOK, Maybe
<1>4. /\ c \in Jobs /\ c.op = "update" /\ c.at = "old_trace" /\ c.bundle = job[p].bundle
      /\ c.tasks = job[p].tasks /\ c.move = job[p].move /\ c.old = old /\ c.alone = job[p].alone
  <2> HIDE DEF old
  <2> QED BY <1>2, <1>3 DEF JobOK, Jobs
<1>5. job' = [job EXCEPT ![p] = d]
  <2> HIDE DEF c
  <2>1. Advance(p, c)
    BY <1>1 DEF c
  <2> QED BY <1>4, <2>1, UpdateSteps
<1>6. /\ d \in Jobs /\ d.op = "update" /\ d.at = "trace" /\ d.bundle = job[p].bundle
      /\ d.tasks = job[p].tasks /\ d.move = job[p].move /\ d.old = old /\ d.alone = job[p].alone
  <2> HIDE DEF c, old
  <2> QED BY <1>4 DEF Jobs, Steps
<1> HIDE DEF c, d
<1>7. UNCHANGED <<told, moves, bundle, records, tasks, snapshot, trace, calm>>
  BY DEF UpdateOldTrace, files, history
<1>8. job'[p] = d /\ Busy(p)' /\ Moves(p)
  <2>1. job \in [Procs -> Maybe(Jobs)]
    BY DEF IInv, JobsInv
  <2> QED BY <1>2, <1>5, <1>6, <1>7, <2>1, NothingAssumption DEF Moves, Busy
<1>9. Lone(p) /\ AuditOf(p) => old = trace
  <2>1. Lone(p) => r = trace
    BY <1>1, LoneReads
  <2>2. AuditOf(p) => trace # Nothing
    BY NothingAssumption DEF AuditOf, TraceOf
  <2> QED BY <2>1, <2>2
<1> HIDE DEF old
<1>10. Lone(p) /\ AuditOf(p) => AuditOf(p)'
  BY <1>2, <1>6, <1>7, <1>8, <1>9 DEF AuditOf, RecordsOf, TraceOf, EventDue, MoveDue, Recorded
<1>11. SoFar(p) => SoFar(p)'
  BY <1>2, <1>6, <1>7, <1>8 DEF SoFar, ApprovedSoFar, UpdatedSoFar, HandedSoFar, SnapshotOf
<1> QED BY <1>8, <1>10, <1>11, CallGoesOn

(* With the new entry the trace is complete again. *)
LEMMA UpdateTraceTells ==
  ASSUME IInv, Whole, NEW p \in Procs, UpdateTrace(p)
  PROVE  Whole'
<1>1. Busy(p) /\ job[p].op = "update" /\ job[p].at = "trace"
  BY DEF UpdateTrace, At
<1>2. /\ trace' = [job[p].old EXCEPT !.updates = @ \cup {job[p].move}]
      /\ UNCHANGED <<told, records, moves, calm>>
  BY DEF UpdateTrace, history
<1>3. Moves(p) /\ ~Busy(p)'
  BY <1>1, <1>2, UpdateSteps, LastStep DEF UpdateTrace
<1>4. AuditOf(p) => Settled'
  <2> SUFFICES ASSUME AuditOf(p) PROVE Settled'
    OBVIOUS
  <2>1. /\ job[p].old = trace /\ trace \in Traces /\ trace.review
        /\ moves = trace.updates \cup {job[p].move} /\ told = Recorded
    BY <1>1 DEF AuditOf, RecordsOf, TraceOf, EventDue, MoveDue
  <2>2. trace' = [review |-> TRUE, updates |-> moves]
    <3>1. trace.review = TRUE
      BY <2>1 DEF Traces
    <3> QED BY <1>2, <2>1, <3>1 DEF Traces
  <2> QED BY <1>2, <2>1, <2>2 DEF Settled, Recorded
<1> QED BY <1>3, <1>4, CallGoesOn

(* After a crash nothing is calm, and the call that died answers nobody. *)
LEMMA CrashTells ==
  ASSUME IInv, Whole, NEW p \in Procs, Crash(p)
  PROVE  Whole'
<1>1. Moves(p) /\ ~Busy(p)' /\ ~calm'
  BY LastStep DEF Crash, Refuse
<1> QED BY <1>1, CallGoesOn

-----------------------------------------------------------------------------
LEMMA WholeAtFirst == Init => Whole
<1> SUFFICES ASSUME Init PROVE Whole
  OBVIOUS
<1>1. \A p \in Procs : ~Busy(p) /\ ~Lone(p)
  BY DEF Init, Busy, Lone
<1>2. LoneInv /\ TellsInv
  BY <1>1 DEF LoneInv, TellsInv
<1>3. AuditInv
  BY <1>1 DEF AuditInv, Settled, Recorded, Init
<1> QED BY <1>2, <1>3 DEF Whole

LEMMA WholeKept == IInv /\ Whole /\ [Next]_vars => Whole'
<1> SUFFICES ASSUME IInv, Whole, [Next]_vars PROVE Whole'
  OBVIOUS
<1>1. CASE UNCHANGED vars
  <2>1. UNCHANGED <<job, calm, told, moves, bundle, records, snapshot, tasks, trace, requests, contexts, temp>>
    BY <1>1 DEF vars, files, history
  <2>2. \A p \in Procs : (Busy(p)' <=> Busy(p)) /\ (Lone(p)' <=> Lone(p))
    BY <2>1 DEF Busy, Lone
  <2>3. \A p \in Procs : AuditOf(p)' <=> AuditOf(p)
    BY <2>1 DEF AuditOf, RecordsOf, TraceOf, EventDue, MoveDue, Recorded
  <2>4. Settled' <=> Settled
    BY <2>1 DEF Settled, Recorded
  <2>5. \A p \in Procs : SoFar(p)' <=> SoFar(p)
    <3>1. ASSUME NEW p \in Procs PROVE HandedSoFar(p)' <=> HandedSoFar(p)
      BY <2>1 DEF HandedSoFar, Placed, Served, Work
    <3>2. ASSUME NEW p \in Procs
          PROVE  (ApprovedSoFar(p)' <=> ApprovedSoFar(p)) /\ (UpdatedSoFar(p)' <=> UpdatedSoFar(p))
      BY <2>1 DEF ApprovedSoFar, UpdatedSoFar
    <3> QED BY <3>1, <3>2 DEF SoFar
  <2> QED BY <2>1, <2>2, <2>3, <2>4, <2>5 DEF Whole, LoneInv, AuditInv, TellsInv
<1>2. CASE Next
  <2>1. PICK p \in Procs :
          \/ Generate(p) \/ GenerateBundle(p)
          \/ Approve(p) \/ Handoff(p) \/ Update(p)
          \/ Crash(p)
    BY <1>2, Zenon DEF Next
  <2>2. CASE Generate(p)
    BY <2>2, GenerateBegins
  <2>3. CASE GenerateBundle(p)
    BY <2>3, GenerateBundleTells
  <2>4. CASE Approve(p)
    BY <2>4, ApproveBegins, ApproveBundleTells, ApproveOldRecordsTells, ApproveRecordsTells,
       ApproveSnapshotTells, Zenon DEF Approve
  <2>5. CASE Handoff(p)
    BY <2>5, HandoffBegins, PrepareBegins, BuildTells, PlaceTells, HandoffTasksTells, Zenon DEF Handoff
  <2>6. CASE Update(p)
    BY <2>6, UpdateBegins, UpdateCheckTells, UpdateTasksTells, UpdateSnapshotTells,
       UpdateOldTraceTells, UpdateTraceTells, Zenon DEF Update
  <2>7. CASE Crash(p)
    BY <2>7, CrashTells
  <2> QED BY <2>1, <2>2, <2>3, <2>4, <2>5, <2>6, <2>7
<1> QED BY <1>1, <1>2

(* The invariant of lone calls holds in every state. *)
THEOREM LoneCallsKeepWhole == Spec => []Whole
BY Inductive, WholeAtFirst, WholeKept, PTL DEF Spec

(* While calls come one at a time and none dies, the records and the trace   *)
(* miss nothing: the load, append and save of approval_records.json and of   *)
(* run_trace.json lose an entry only to an overlap or a crash.               *)
THEOREM AuditMissesNothing == Spec => []AuditComplete
<1>1. Whole => AuditComplete
  BY DEF Whole, AuditInv, AuditComplete, Settled, Recorded
<1> QED BY <1>1, LoneCallsKeepWhole, PTL

-----------------------------------------------------------------------------
(* Only a step of its own ends a call. *)
LEMMA OwnStep ==
  ASSUME IInv, NEW q \in Procs, NEW p \in Procs, p # q, Busy(p),
         \/ Generate(q) \/ GenerateBundle(q) \/ Approve(q) \/ Handoff(q) \/ Update(q) \/ Crash(q)
  PROVE  Busy(p)'
<1>1. job \in [Procs -> Maybe(Jobs)] /\ job[p] \in Jobs
  BY DEF IInv, JobsInv, JobOK
<1>2. ASSUME NEW c, Begin(q, c) PROVE Busy(p)'
  <2>1. job'[p] = [job[p] EXCEPT !.alone = FALSE]
    BY <1>2 DEF Begin
  <2>2. job'[p] \in Jobs
    BY <1>1, <2>1 DEF Jobs
  <2> QED BY <2>2, NothingAssumption DEF Busy
<1>3. ASSUME NEW c, Advance(q, c) PROVE job'[p] = job[p]
  BY <1>1, <1>3 DEF Advance
<1>4. Refuse(q) => job'[p] = job[p]
  BY <1>1 DEF Refuse
<1>5. CASE Generate(q) \/ GenerateBundle(q) \/ Crash(q)
  BY <1>2, <1>3, <1>4, <1>5 DEF Generate, GenerateBundle, Crash, Busy
<1>6. CASE Approve(q)
  BY <1>2, <1>3, <1>6 DEF Approve, ApproveLoad, ApproveBundle, ApproveOldRecords, ApproveRecords,
                          ApproveSnapshot, Busy
<1>7. CASE Handoff(q)
  <2>1. CASE Place(q)
    <3>1. job'[p] = job[p]
      BY <1>1, <1>3, <2>1 DEF Place
    <3> QED BY <3>1 DEF Busy
  <2>2. CASE ~Place(q)
    BY <1>2, <1>3, <1>7, <2>2 DEF Handoff, HandoffLoad, PrepareLoad, Build, HandoffTasks, Busy
  <2> QED BY <2>1, <2>2
<1>8. CASE Update(q)
  <2>1. CASE UpdateCheck(q)
    <3>1. job'[p] = job[p]
      BY <1>3, <1>4, <2>1 DEF UpdateCheck
    <3> QED BY <3>1 DEF Busy
  <2>2. CASE ~UpdateCheck(q)
    BY <1>2, <1>3, <1>8, <2>2 DEF Update, UpdateLoad, UpdateTasks, UpdateSnapshot,
                                  UpdateOldTrace, UpdateTrace, Busy
  <2> QED BY <2>1, <2>2
<1> QED BY <1>5, <1>6, <1>7, <1>8

(* A script ends with the step its call answers from. *)
LEMMA LastOfScript ==
  /\ Last(Script("generate")) = "bundle" /\ Last(Script("approve")) = "snapshot"
  /\ Last(Script("handoff")) = "tasks" /\ Last(Script("prepare")) = "place"
  /\ Last(Script("update")) = "trace"
BY DEF Last, Script

(* What a lone call's last step leaves behind, per kind. *)
LEMMA GenerateAnswers ==
  ASSUME NEW p \in Procs, GenerateBundle(p), NEW c, c = job[p]
  PROVE  Tells(c)'
<1>1. c.op = "generate" /\ bundle'.status = "draft"
  BY DEF GenerateBundle, At, Draft
<1> QED BY <1>1 DEF Tells

LEMMA ApproveAnswers ==
  ASSUME NEW p \in Procs, SoFar(p), ApproveSnapshot(p), NEW c, c = job[p]
  PROVE  Tells(c)'
<1>1. c.op = "approve" /\ bundle = c.bundle /\ Event(c.bundle) \in records.events
  BY DEF ApproveSnapshot, At, SoFar, ApprovedSoFar
<1>2. /\ bundle' = bundle /\ records' = records
      /\ snapshot' = [status |-> c.bundle.status, execution |-> Nothing]
  BY DEF ApproveSnapshot
<1>3. ServedStatus' = bundle'.status
  BY <1>1, <1>2 DEF ServedStatus
<1> QED BY <1>1, <1>2, <1>3 DEF Tells

LEMMA UpdateAnswers ==
  ASSUME NEW p \in Procs, IInv, SoFar(p), UpdateTrace(p), NEW c, c = job[p]
  PROVE  Tells(c)'
<1>1. /\ c.op = "update" /\ bundle = c.bundle /\ tasks = c.tasks /\ snapshot = SnapshotOf(c)
      /\ c.tasks.rows[c.move.pack] = c.move.to
  BY DEF UpdateTrace, At, SoFar, UpdatedSoFar
<1>2. /\ bundle' = bundle /\ tasks' = tasks /\ snapshot' = snapshot
      /\ trace' = [c.old EXCEPT !.updates = @ \cup {c.move}]
  BY DEF UpdateTrace
<1>3. c.old \in Traces
  BY DEF UpdateTrace, At, IInv, JobsInv, JobOK, UpdateJob
<1>4. c.move \in trace'.updates
  BY <1>2, <1>3 DEF Traces
<1>5. ServedStatus' = bundle'.status /\ snapshot'.execution = tasks'.rows
  BY <1>1, <1>2 DEF ServedStatus, SnapshotOf
<1> QED BY <1>1, <1>2, <1>4, <1>5 DEF Tells

LEMMA HandoffAnswers ==
  ASSUME NEW p \in Procs, SoFar(p), HandoffTasks(p), NEW c, c = job[p]
  PROVE  Tells(c)'
<1>1. /\ c.op = "handoff" /\ c.tasks.rows = [pack \in Packs |-> "pending"]
      /\ \A t \in Work(c) : Placed(t, c.todo)
      /\ c.todo = <<>>
  BY DEF HandoffTasks, At, SoFar, HandedSoFar
<1>2. tasks' = c.tasks /\ requests' = requests /\ contexts' = contexts
  BY DEF HandoffTasks
<1>3. ASSUME NEW pack \in Packs PROVE Served(Routed(pack))'
  <2>1. Routed(pack) \in Work(c)
    BY <1>1 DEF Work
  <2>2. Served(Routed(pack))
    BY <1>1, <2>1 DEF Placed
  <2> QED BY <1>2, <2>2 DEF Served, Routed
<1> QED BY <1>1, <1>2, <1>3 DEF Tells

LEMMA PrepareAnswers ==
  ASSUME NEW p \in Procs, IInv, SoFar(p), Place(p), job[p].op = "prepare", Len(job[p].todo) <= 1,
         NEW c, c = job[p]
  PROVE  Tells(c)'
<1>1. Busy(p) /\ c.at = "place" /\ c.op = "prepare" /\ Len(c.todo) <= 1
  BY DEF Place
<1>2. c \in Jobs /\ JobOK(c, told, moves) /\ c.todo # <<>> /\ c.todo \in Seq(TaskIds) /\ Tail(c.todo) = <<>>
  <2>1. c \in Jobs /\ JobOK(c, told, moves) /\ c.todo # <<>> /\ c.todo \in Seq(TaskIds)
    BY <1>1, Todo DEF JobOK, Jobs
  <2>2. Len(c.todo) \in Nat /\ Len(c.todo) # 0
    BY <2>1, EmptySeq
  <2>3. Len(c.todo) = 1
    <3>1. \A n \in Nat : n # 0 /\ n <= 1 => n = 1
      OBVIOUS
    <3> QED BY <1>1, <2>2, <3>1, Zenon
  <2>4. Len(Tail(c.todo)) = 0 /\ Tail(c.todo) \in Seq(TaskIds)
    BY <2>1, <2>3
  <2> QED BY <2>1, <2>4
<1>3. Distinct(c.todo) /\ temp = Head(c.todo) /\ \A t \in Work(c) : Placed(t, c.todo)
  BY <1>1 DEF SoFar, HandedSoFar
<1>4. ASSUME NEW a \in c.agents PROVE Served(Prepared(a))'
  <2>1. PICK t : t = Prepared(a)
    OBVIOUS
  <2>2. t \in Work(c)
    BY <1>1, <2>1 DEF Work
  <2>3. t \in TaskIds /\ Placed(t, c.todo)
    BY <1>2, <1>3, <2>2, WorkTyped
  <2>4. \/ Served(t)' /\ \A i \in DOMAIN Tail(c.todo) : Tail(c.todo)[i].agent # t.agent
        \/ \E i \in DOMAIN Tail(c.todo) : Tail(c.todo)[i] = t
    BY <1>1, <1>2, <1>3, <2>3, PlaceServes
  <2> QED BY <1>2, <2>1, <2>4
<1> QED BY <1>1, <1>4 DEF Tells

(* The step that answers a lone call leaves the files in agreement with it. *)
LEMMA AnswersTell ==
  ASSUME IInv, Whole, Next, NEW p \in Procs, Answers(p), NEW c, c = job[p], c.alone
  PROVE  Tells(c)'
<1>1. /\ Busy(p) /\ job'[p] = Nothing /\ crashes' = crashes
      /\ c.at = Last(Script(c.op)) /\ Len(c.todo) <= 1
  BY DEF Answers
<1>2. SoFar(p)
  BY <1>1 DEF Whole, TellsInv, Lone
<1>3. PICK q \in Procs :
        \/ Generate(q) \/ GenerateBundle(q) \/ Approve(q) \/ Handoff(q) \/ Update(q) \/ Crash(q)
  BY Zenon DEF Next
<1>4. q = p
  BY <1>1, <1>3, OwnStep DEF Busy
<1>5. c \in Jobs /\ crashes \in Nat
  BY <1>1, DeliveryAssumption DEF IInv, JobsInv, JobOK, TypeOK
<1>6. \A b : ~Begin(p, b)
  BY <1>1 DEF Begin
<1>7. ~Generate(p) /\ ~Crash(p)
  BY <1>1, <1>5, <1>6 DEF Generate, Crash
<1>8. CASE GenerateBundle(p)
  BY <1>8, GenerateAnswers
<1>9. CASE Approve(p)
  <2>1. ApproveSnapshot(p)
    BY <1>1, <1>6, <1>9, LastOfScript
       DEF Approve, ApproveLoad, ApproveBundle, ApproveOldRecords, ApproveRecords, At
  <2> QED BY <1>2, <2>1, ApproveAnswers
<1>10. CASE Handoff(p)
  <2>1. CASE HandoffTasks(p)
    BY <1>2, <2>1, HandoffAnswers
  <2>2. CASE Place(p)
    <3>1. c.op = "prepare"
      BY <1>1, <1>5, <2>2, LastOfScript DEF Place, Jobs
    <3> QED BY <1>1, <1>2, <2>2, <3>1, PrepareAnswers
  <2>3. ~Build(p)
    BY <1>1, <1>5, LastOfScript DEF Build, Jobs
  <2> QED BY <1>6, <1>10, <2>1, <2>2, <2>3 DEF Handoff, HandoffLoad, PrepareLoad
<1>11. CASE Update(p)
  <2>1. UpdateTrace(p)
    BY <1>1, <1>6, <1>11, LastOfScript
       DEF Update, UpdateLoad, UpdateCheck, UpdateTasks, UpdateSnapshot, UpdateOldTrace, At
  <2> QED BY <1>2, <2>1, UpdateAnswers
<1> QED BY <1>3, <1>4, <1>7, <1>8, <1>9, <1>10, <1>11

(* A call that no other overlapped, and that lived to answer, leaves bundle, *)
(* records, snapshot, tasks, trace and requests in agreement about what it   *)
(* did, whatever the calls before it left behind.                            *)
THEOREM LoneCallsTell == Spec => AloneTells
<1>1. ASSUME IInv, Whole, [Next]_vars
      PROVE  [\A p \in Procs : Answers(p) => \A c \in {job[p]} : c.alone => Tells(c)']_vars
  <2>1. CASE Next
    <3>1. ASSUME NEW p \in Procs, Answers(p), NEW c \in {job[p]}, c.alone PROVE Tells(c)'
      BY <1>1, <2>1, <3>1, AnswersTell
    <3> QED BY <3>1
  <2>2. CASE UNCHANGED vars
    BY <2>2
  <2> QED BY <1>1, <2>1, <2>2
<1> QED BY <1>1, Inductive, LoneCallsKeepWhole, PTL DEF Spec, AloneTells
=============================================================================
