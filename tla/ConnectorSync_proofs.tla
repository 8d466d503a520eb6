------------------------- MODULE ConnectorSync_proofs -------------------------
(***************************************************************************)
(* What the connector's queue promises for any pages, events, mappings and *)
(* faults: no event that was answered is lost, a task that is completed    *)
(* has brought its edit in, and no task is started more often than it may. *)
(* The invariant follows the one handler of the event loop and the one     *)
(* task of the worker, and says that neither acts on an event before the   *)
(* provider announced it.                                                  *)
(***************************************************************************)
EXTENDS ConnectorSync, TLAPS

Announced(e) == \E p \in Pages : noted[e][p] > 0
Working == Places \ {"idle", "next"}
Running == {"config", "fetch", "store", "touch", "complete"}

(* The rows: what each status says of the attempts. *)
RowRule(r) ==
  /\ r.status = "none" => r = NoTask
  /\ r.status = "pending" => r.attempts = 0
  /\ r.status \in {"running", "completed"} => r.attempts \in 1..MaxAttempts
  /\ r.status = "retry_scheduled" => r.attempts \in 1..(MaxAttempts - 1)
  /\ r.status = "failed" => r.attempts = MaxAttempts
RowsInv == \A k \in Keys : RowRule(tasks[k])

(* What the worker has claimed is as it was when it was claimed, but for the *)
(* one it runs, whose row follows the place the worker is at.                *)
BatchInv ==
  /\ \A k \in tick.pending : tasks[k].status = "pending"
  /\ \A k \in tick.retries : tasks[k].status = "retry_scheduled"
  /\ tick.at \in Working => tick.key \in Keys /\ tick.key \notin tick.pending \cup tick.retries
  /\ tick.at \in Running => tasks[tick.key].status = "running"
  /\ tick.at \in {"health", "event"} => tasks[tick.key].status = "completed"
  /\ tick.at = "fail" => tasks[tick.key].status \in {"running", "completed"}
  /\ tick.at \in {"failHealth", "failEvent"} => tasks[tick.key].status \in {"retry_scheduled", "failed"}

(* A row is left running only by a fault. *)
LeftInv == \A k \in Keys :
  tasks[k].status = "running" => (tick.at \in Working /\ tick.key = k) \/ faults > 0

(* A webhook's handler leaves no kept page behind. *)
HookInv ==
  loop.at = "hook" =>
    /\ loop.event \in Events /\ Announced(loop.event)
    /\ \A p \in (Touches[loop.event] \cap Kept) \ loop.todo : tasks[EventKey(loop.event, p)] # NoTask

(* There is no task of an event before the event. *)
AnnouncedInv == \A e \in Events, p \in Pages :
  tasks[EventKey(e, p)].status # "none" => Announced(e)

(* Nothing is announced or stored that the provider did not have, and the    *)
(* worker never stores an older content than the one held.                   *)
ContentInv ==
  /\ \A e \in Events, p \in Pages : noted[e][p] <= remote[p]
  /\ \A p \in Pages : held[p] <= remote[p]
StoreInv ==
  tick.at = "store" => /\ tick.page \in Pages
                       /\ held[tick.page] <= tick.got /\ tick.got <= remote[tick.page]

(* The task of an event on its way: its page has been fetched whatever its   *)
(* age, and is held when there is nothing left to fetch.                     *)
Caught(e, p) == held[p] >= noted[e][p]
WorkInv == \A e \in Events, p \in Pages : tick.key = EventKey(e, p) =>
  /\ tick.at = "fetch" => tick.todo \subseteq {p} /\ tick.since = Never /\ (tick.todo = {} => Caught(e, p))
  /\ tick.at = "store" => tick.page = p /\ tick.todo = {} /\ tick.since = Never /\ tick.got >= noted[e][p]
  /\ tick.at \in {"touch", "complete", "health", "event"} => Caught(e, p)

TouchInv == tick.at = "touch" => tick.maps \in Configs

SyncInv == /\ TypeOK /\ RowsInv /\ BatchInv /\ LeftInv /\ HookInv /\ AnnouncedInv
           /\ ContentInv /\ StoreInv /\ WorkInv /\ TouchInv
           /\ EventsNotLost /\ CompletedCarriesTheEdit

(* The type of the variables, one by one. *)
Rows == [Keys -> [status : Statuses, attempts : 0..MaxAttempts, due : BOOLEAN]]
Loops == [at : {"idle", "hook", "put"}, event : Events \cup {Manual},
          todo : SUBSET Pages, stamp : Nat \cup {Never}]
Ticks == [at : Places, pending : SUBSET Keys, retries : SUBSET Keys,
          key : Keys \cup {ManualKey(AllPages)}, todo : SUBSET Pages,
          page : Pages \cup {AllPages}, got : 0..MaxEdits,
          since : Nat \cup {Never}, maps : Configs \cup {{}}]

-----------------------------------------------------------------------------
(* Keys. *)

(* A key tells its event and its page, and no manual task has the key of an *)
(* event's.                                                                 *)
LEMMA KeysTell ==
  /\ \A e \in Events, p \in Pages :
       /\ EventKey(e, p) \in Keys /\ EventKey(e, p).from = e /\ EventKey(e, p).of = p
       /\ EventKey(e, p).of # AllPages /\ ~IsManual(EventKey(e, p))
       /\ \A f \in Events, q \in Pages : EventKey(e, p) = EventKey(f, q) => e = f /\ p = q
       /\ \A s : EventKey(e, p) # ManualKey(s)
  /\ \A s \in Scopes : ManualKey(s) \in Keys
  /\ \A k \in Keys : k.of \in Pages \cup {AllPages}
<1>1. \A e \in Events, p \in Pages : EventKey(e, p) \in Keys BY DEF Keys
<1>2. \A e, p : EventKey(e, p).from = e /\ EventKey(e, p).of = p BY DEF EventKey
<1>3. \A s : ManualKey(s).from = Manual /\ ManualKey(s).of = s BY DEF ManualKey
<1>4. \A s \in Scopes : ManualKey(s) \in Keys BY DEF Keys
<1>5. \A k \in Keys : k.of \in Pages \cup {AllPages}
  <2> TAKE k \in Keys
  <2>1. CASE \E e \in Events, p \in Pages : k = EventKey(e, p) BY <2>1, <1>2
  <2>2. CASE \E s \in Scopes : k = ManualKey(s) BY <2>2, <1>3, SyncAssumption
  <2> QED BY <2>1, <2>2 DEF Keys
<1>6. \A e \in Events, p \in Pages : EventKey(e, p).of # AllPages /\ ~IsManual(EventKey(e, p))
  BY <1>2, SyncAssumption DEF IsManual
<1>7. \A e \in Events, p \in Pages : \A s : EventKey(e, p) # ManualKey(s)
  BY <1>2, <1>3, SyncAssumption
<1>8. \A e, p, f, q : EventKey(e, p) = EventKey(f, q) => e = f /\ p = q BY <1>2
<1> QED BY <1>1, <1>2, <1>4, <1>5, <1>6, <1>7, <1>8

(* A page that is kept is mapped. *)
LEMMA KeptIsMapped == mapped \in Configs => Kept \subseteq mapped
BY DEF Kept

-----------------------------------------------------------------------------
(* The initial state. *)

LEMMA InitInv == Init => SyncInv
<1> SUFFICES ASSUME Init PROVE SyncInv OBVIOUS
<1> USE DEF Init
<1>1. TypeOK
  <2>1. LoopIdle \in Loops BY DEF LoopIdle, Loops, Never
  <2>2. TickIdle \in Ticks BY SyncAssumption DEF TickIdle, Ticks, Never, Places
  <2>3. tasks \in Rows BY SyncAssumption DEF Rows, NoTask, Statuses
  <2>4. created \in Seq(Keys) OBVIOUS
  <2>5. remote \in [Pages -> 1..MaxEdits] BY SyncAssumption
  <2> QED BY <2>5, <2>1, <2>2, <2>3, <2>4, SyncAssumption DEF TypeOK, Loops, Ticks, Rows, Never
<1>2. \A k \in Keys : tasks[k] = NoTask OBVIOUS
<1>3. RowsInv BY <1>2 DEF RowsInv, RowRule, NoTask
<1>4. BatchInv BY DEF BatchInv, TickIdle, Working, Running, Places, Tries
<1>5. LeftInv BY <1>2 DEF LeftInv, NoTask
<1>6. HookInv BY DEF HookInv, LoopIdle
<1>7. AnnouncedInv BY <1>2, KeysTell DEF AnnouncedInv, NoTask
<1>8. ContentInv /\ StoreInv BY DEF ContentInv, StoreInv, TickIdle
<1>9. WorkInv BY DEF WorkInv, TickIdle
<1>10. TouchInv BY DEF TouchInv, TickIdle
<1>11. EventsNotLost BY DEF EventsNotLost
<1>12. CompletedCarriesTheEdit BY <1>2, KeysTell DEF CompletedCarriesTheEdit, NoTask
<1> QED BY <1>1, <1>3, <1>4, <1>5, <1>6, <1>7, <1>8, <1>9, <1>10, <1>11, <1>12 DEF SyncInv

-----------------------------------------------------------------------------
(* What a step has to show. *)

(* The rows go on by the rules: no task is forgotten, and none is made for *)
(* an event.                                                               *)
RowsGoOn ==
  /\ tasks' \in Rows
  /\ \A k \in Keys : RowRule(tasks'[k])
  /\ \A k \in Keys : tasks[k].status # "none" <=> tasks'[k].status # "none"

LEMMA SameRows == ASSUME SyncInv, UNCHANGED tasks PROVE RowsGoOn
BY DEF RowsGoOn, SyncInv, TypeOK, Rows, RowsInv

(* The row of one task that exists is changed. *)
LEMMA OneRow ==
  ASSUME SyncInv, NEW k \in Keys, tasks[k].status # "none",
         NEW r \in [status : Statuses \ {"none"}, attempts : 0..MaxAttempts, due : BOOLEAN],
         RowRule(r), tasks' = [tasks EXCEPT ![k] = r]
  PROVE  RowsGoOn /\ tasks'[k] = r /\ \A l \in Keys \ {k} : tasks'[l] = tasks[l]
<1>1. tasks \in Rows BY DEF SyncInv, TypeOK, Rows
<1>2. tasks'[k] = r /\ \A l \in Keys \ {k} : tasks'[l] = tasks[l] BY <1>1 DEF Rows
<1>3. tasks' \in Rows BY <1>1 DEF Rows
<1>4. \A l \in Keys : RowRule(tasks'[l]) BY <1>2 DEF SyncInv, RowsInv
<1>5. r.status # "none" OBVIOUS
<1> QED BY <1>2, <1>3, <1>4, <1>5 DEF RowsGoOn

(* A task is none exactly when its status is. *)
LEMMA NoneIsNoTask ==
  ASSUME NEW r, RowRule(r) PROVE r = NoTask <=> r.status = "none"
BY DEF RowRule, NoTask

(* A step of the worker: it leaves the provider and the event loop alone, and *)
(* what it stores is no older than what was held.                             *)
LEMMA WorkerStep ==
  ASSUME SyncInv, RowsGoOn,
         UNCHANGED <<provider, processed, created, requests, loop>>,
         tick' \in Ticks, health' \in {"unknown", "healthy", "degraded", "error"},
         mapped' \in Configs, lastSynced' \in Nat \cup {Never},
         faults' \in 0..MaxFaults, held' \in [Pages -> 0..MaxEdits],
         \A p \in Pages : held[p] <= held'[p] /\ held'[p] <= remote[p],
         \A e \in Events, p \in Pages :
           tasks'[EventKey(e, p)].status = "completed" =>
             tasks[EventKey(e, p)].status = "completed" \/ Caught(e, p),
         BatchInv', LeftInv', StoreInv', WorkInv', TouchInv'
  PROVE  SyncInv'
<1> USE DEF SyncInv
<1>1. TypeOK' BY DEF TypeOK, Ticks, Rows, RowsGoOn, provider
<1>2. RowsInv' BY DEF RowsGoOn, RowsInv
<1>3. \A k \in Keys : tasks[k] # NoTask <=> tasks'[k] # NoTask
  BY NoneIsNoTask DEF RowsGoOn, RowsInv
<1>4. \A e \in Events, p \in Pages : EventKey(e, p) \in Keys BY KeysTell
<1>5. Kept \subseteq Pages BY DEF Kept
<1>6. HookInv'
  <2> SUFFICES ASSUME loop.at = "hook"
               PROVE  /\ loop.event \in Events /\ Announced(loop.event)
                      /\ \A p \in (Touches[loop.event] \cap Kept) \ loop.todo :
                           tasks'[EventKey(loop.event, p)] # NoTask
    BY DEF HookInv, Announced, provider
  <2> QED BY <1>3, <1>4, <1>5 DEF HookInv
<1>7. AnnouncedInv' BY <1>4 DEF AnnouncedInv, RowsGoOn, Announced, provider
<1>8. ContentInv' BY DEF ContentInv, provider
<1>9. EventsNotLost'
  <2>1. processed' = processed /\ processed \subseteq Events BY DEF TypeOK
  <2> QED BY <2>1, <1>3, <1>4, <1>5 DEF EventsNotLost
<1>10. CompletedCarriesTheEdit'
  <2> SUFFICES ASSUME NEW e \in Events, NEW p \in Pages,
                      tasks'[EventKey(e, p)].status = "completed"
               PROVE  held'[p] >= noted[e][p]
    BY DEF CompletedCarriesTheEdit, provider
  <2>1. held[p] \in Nat /\ held'[p] \in Nat /\ noted[e][p] \in Nat BY DEF TypeOK
  <2>2. held[p] >= noted[e][p] BY DEF CompletedCarriesTheEdit, Caught
  <2> QED BY <2>1, <2>2
<1> QED BY <1>1, <1>2, <1>6, <1>7, <1>8, <1>9, <1>10
(* The rows only gain tasks, and those of an event when it is announced. *)
RowsEnter ==
  /\ tasks' \in Rows
  /\ \A k \in Keys : tasks'[k] = tasks[k] \/ (tasks[k] = NoTask /\ tasks'[k] = Queued)
  /\ \A e \in Events, p \in Pages : tasks'[EventKey(e, p)] = tasks[EventKey(e, p)] \/ Announced(e)

(* enqueue_sync_task leaves a task of its key, and every other row. *)
LEMMA Enqueued ==
  ASSUME SyncInv, NEW k \in Keys, Enqueue(k),
         \A e \in Events, p \in Pages : k = EventKey(e, p) => Announced(e)
  PROVE  RowsEnter /\ created' \in Seq(Keys) /\ tasks'[k] # NoTask
<1>1. tasks \in Rows /\ created \in Seq(Keys) BY DEF SyncInv, TypeOK, Rows
<1>2. Queued \in [status : Statuses, attempts : 0..MaxAttempts, due : BOOLEAN] /\ Queued # NoTask
  BY SyncAssumption DEF Queued, NoTask, Statuses
<1>3. \A e \in Events, p \in Pages : EventKey(e, p) \in Keys BY KeysTell
<1>4. CASE tasks[k] # NoTask
  <2>1. UNCHANGED <<tasks, created>> BY <1>4 DEF Enqueue
  <2> QED BY <1>1, <1>4, <2>1 DEF RowsEnter
<1>5. CASE tasks[k] = NoTask
  <2>1. tasks' = [tasks EXCEPT ![k] = Queued] /\ created' = Append(created, k) BY <1>5 DEF Enqueue
  <2>2. tasks'[k] = Queued /\ \A l \in Keys \ {k} : tasks'[l] = tasks[l] BY <2>1, <1>1 DEF Rows
  <2>3. tasks' \in Rows BY <2>1, <1>1, <1>2 DEF Rows
  <2>4. created' \in Seq(Keys) BY <2>1, <1>1
  <2>5. \A e \in Events, p \in Pages :
          tasks'[EventKey(e, p)] = tasks[EventKey(e, p)] \/ Announced(e)
    BY <2>2, <1>3
  <2> QED BY <2>2, <2>3, <2>4, <2>5, <1>2, <1>5 DEF RowsEnter
<1> QED BY <1>4, <1>5

LEMMA NothingEntered == ASSUME SyncInv, UNCHANGED tasks PROVE RowsEnter
BY DEF SyncInv, TypeOK, Rows, RowsEnter

(* A step of the event loop: the provider, the materials and the worker are *)
(* left alone.                                                              *)
LEMMA LoopMove ==
  ASSUME SyncInv, RowsEnter,
         UNCHANGED <<provider, held, health, tick>>,
         loop' \in Loops, created' \in Seq(Keys), processed' \subseteq Events,
         mapped' \in Configs, lastSynced' \in Nat \cup {Never},
         requests' \in 0..MaxRequests, faults' \in 0..MaxFaults, faults' >= faults,
         HookInv', EventsNotLost'
  PROVE  SyncInv'
<1> USE DEF SyncInv
<1>1. TypeOK' BY DEF TypeOK, Loops, Rows, RowsEnter, provider
<1>2. /\ Queued.status = "pending" /\ Queued.attempts = 0 /\ NoTask.status = "none"
  BY DEF Queued, NoTask
<1>3. RowRule(Queued) BY <1>2 DEF RowRule
<1>4. RowsInv' BY <1>3 DEF RowsInv, RowsEnter
<1>5. \A k \in Keys : tasks[k].status # "none" => tasks'[k] = tasks[k] BY <1>2 DEF RowsEnter
<1>6. BatchInv'
  <2>1. /\ tick.pending \subseteq Keys /\ tick.retries \subseteq Keys
        /\ tick.at \in Working => tick.key \in Keys
    BY DEF TypeOK, BatchInv
  <2> QED BY <2>1, <1>5 DEF BatchInv, Running, Working, Places, Tries
<1>7. LeftInv'
  <2> SUFFICES ASSUME NEW k \in Keys, tasks'[k].status = "running"
               PROVE  (tick.at \in Working /\ tick.key = k) \/ faults' > 0
    BY DEF LeftInv
  <2>1. tasks[k].status = "running" BY <1>2 DEF RowsEnter
  <2>2. faults \in Nat /\ faults' \in Nat BY SyncAssumption DEF TypeOK
  <2> QED BY <2>1, <2>2 DEF LeftInv
<1>8. AnnouncedInv'
  <2> SUFFICES ASSUME NEW e \in Events, NEW p \in Pages, tasks'[EventKey(e, p)].status # "none"
               PROVE  Announced(e)
    BY DEF AnnouncedInv, Announced, provider
  <2> QED BY DEF RowsEnter, AnnouncedInv
<1>9. ContentInv' /\ StoreInv' /\ WorkInv' /\ TouchInv'
  BY DEF ContentInv, StoreInv, WorkInv, TouchInv, Caught, provider
<1>10. CompletedCarriesTheEdit'
  <2> SUFFICES ASSUME NEW e \in Events, NEW p \in Pages,
                      tasks'[EventKey(e, p)].status = "completed"
               PROVE  held[p] >= noted[e][p]
    BY DEF CompletedCarriesTheEdit, provider
  <2>1. tasks[EventKey(e, p)].status = "completed" BY <1>2, KeysTell DEF RowsEnter
  <2> QED BY <2>1 DEF CompletedCarriesTheEdit
<1> QED BY <1>1, <1>4, <1>6, <1>7, <1>8, <1>9, <1>10

-----------------------------------------------------------------------------
(* The event loop. *)

LEMMA LoopIdles == LoopIdle \in Loops /\ LoopIdle.at = "idle"
BY DEF LoopIdle, Loops, Never

(* A step that makes no task, takes none for processed, and leaves no handler *)
(* of a webhook inside.                                                       *)
LEMMA LoopEnds ==
  ASSUME SyncInv, UNCHANGED <<provider, tasks, created, requests, held, health, tick, processed>>,
         loop' \in Loops, loop'.at # "hook",
         mapped' \in Configs, lastSynced' \in Nat \cup {Never},
         faults' \in 0..MaxFaults, faults' >= faults
  PROVE  SyncInv'
<1>1. RowsEnter BY NothingEntered
<1>2. HookInv' BY DEF HookInv
<1>3. EventsNotLost' BY DEF EventsNotLost, SyncInv
<1>4. created' \in Seq(Keys) /\ processed' \subseteq Events /\ requests' \in 0..MaxRequests
  BY DEF SyncInv, TypeOK
<1> QED BY <1>1, <1>2, <1>3, <1>4, LoopMove

LEMMA FaultsCount == SyncInv => faults \in Nat /\ faults >= faults /\ faults + 1 >= faults
BY SyncAssumption DEF SyncInv, TypeOK

LEMMA HookCheckKeeps == ASSUME SyncInv, NEW e \in Events, HookCheck(e) PROVE SyncInv'
<1> USE DEF HookCheck
<1>1. /\ loop'.at = "hook" /\ loop'.event = e /\ loop'.todo = Touches[e] \cap mapped
      /\ loop' \in Loops
  <2>1. Touches[e] \cap mapped \subseteq Pages BY SyncAssumption
  <2> QED BY <2>1 DEF LoopIdle, Loops, Never
<1>2. Kept \subseteq mapped BY KeptIsMapped DEF SyncInv, TypeOK
<1>3. HookInv'
  <2>1. Announced(e) BY DEF Announced
  <2>2. (Touches[e] \cap Kept) \ loop'.todo = {} BY <1>1, <1>2
  <2>3. \E q \in Pages : noted'[loop'.event][q] > 0 BY <2>1, <1>1 DEF Announced, provider
  <2>4. loop'.event \in Events BY <1>1
  <2> QED BY <1>1, <2>2, <2>3, <2>4 DEF HookInv, Announced
<1>4. RowsEnter BY NothingEntered DEF queue
<1>5. EventsNotLost' BY DEF EventsNotLost, SyncInv, queue
<1> QED BY <1>1, <1>3, <1>4, <1>5, LoopMove, FaultsCount DEF SyncInv, TypeOK, queue, config

LEMMA HookEnqueueKeeps == ASSUME SyncInv, NEW p \in Pages, HookEnqueue(p) PROVE SyncInv'
<1> USE DEF HookEnqueue
<1> DEFINE e == loop.event
<1>1. /\ e \in Events /\ Announced(e)
      /\ \A q \in (Touches[e] \cap Kept) \ loop.todo : tasks[EventKey(e, q)] # NoTask
  BY DEF SyncInv, HookInv
<1>2. EventKey(e, p) \in Keys BY <1>1, KeysTell
<1>3. \A f \in Events, q \in Pages : EventKey(e, p) = EventKey(f, q) => Announced(f)
  BY <1>1, KeysTell
<1>4. RowsEnter /\ created' \in Seq(Keys) /\ tasks'[EventKey(e, p)] # NoTask
  BY <1>2, <1>3, Enqueued
<1>5. loop \in Loops BY DEF SyncInv, TypeOK, Loops
<1>6. loop' \in Loops /\ loop'.event = e /\ loop'.todo = loop.todo \ {p} /\ loop'.at = "hook"
  BY <1>5 DEF Loops
<1>7. Queued # NoTask BY DEF Queued, NoTask
<1>8. \A k \in Keys : tasks[k] # NoTask => tasks'[k] # NoTask BY <1>4, <1>7 DEF RowsEnter
<1>9. \A f \in Events, q \in Pages : EventKey(f, q) \in Keys BY KeysTell
<1>10. Kept \subseteq Pages BY DEF Kept
<1>11. HookInv'
  <2>1. \A q \in (Touches[e] \cap Kept) \ loop'.todo : tasks'[EventKey(e, q)] # NoTask
    BY <1>1, <1>4, <1>6, <1>8, <1>9, <1>10
  <2>2. \A f : Announced(f)' <=> Announced(f) BY DEF Announced, provider
  <2> HIDE DEF e
  <2> QED BY <1>1, <1>6, <2>1, <2>2 DEF HookInv
<1>12. EventsNotLost'
  <2>1. processed' = processed /\ processed \subseteq Events BY DEF SyncInv, TypeOK
  <2> QED BY <2>1, <1>8, <1>9, <1>10 DEF EventsNotLost, SyncInv
<1> QED BY <1>4, <1>6, <1>11, <1>12, LoopMove, FaultsCount DEF SyncInv, TypeOK, config

LEMMA HookMarkKeeps == ASSUME SyncInv, HookMark PROVE SyncInv'
<1> USE DEF HookMark
<1>1. /\ loop.event \in Events
      /\ \A q \in Touches[loop.event] \cap Kept : tasks[EventKey(loop.event, q)] # NoTask
  BY DEF SyncInv, HookInv
<1>2. EventsNotLost' BY <1>1 DEF EventsNotLost, SyncInv
<1>3. HookInv' BY LoopIdles DEF HookInv
<1>4. RowsEnter BY NothingEntered
<1>5. processed' \subseteq Events BY <1>1 DEF SyncInv, TypeOK
<1> QED BY <1>2, <1>3, <1>4, <1>5, LoopIdles, LoopMove, FaultsCount DEF SyncInv, TypeOK, config

LEMMA ManualSyncKeeps == ASSUME SyncInv, NEW s \in Scopes, ManualSync(s) PROVE SyncInv'
<1> USE DEF ManualSync
<1>1. ManualKey(s) \in Keys BY KeysTell
<1>2. \A e \in Events, p \in Pages : ManualKey(s) = EventKey(e, p) => Announced(e) BY KeysTell
<1>3. RowsEnter /\ created' \in Seq(Keys) BY <1>1, <1>2, Enqueued
<1>4. loop'.at = "idle" BY LoopIdles
<1>5. HookInv' BY <1>4 DEF HookInv
<1>6. Queued # NoTask BY DEF Queued, NoTask
<1>7. \A k \in Keys : tasks[k] # NoTask => tasks'[k] # NoTask BY <1>3, <1>6 DEF RowsEnter
<1>8. EventsNotLost'
  <2>1. processed' = processed /\ processed \subseteq Events BY DEF SyncInv, TypeOK
  <2>2. Kept \subseteq Pages BY DEF Kept
  <2>3. \A f \in Events, q \in Pages : EventKey(f, q) \in Keys BY KeysTell
  <2> QED BY <2>1, <2>2, <2>3, <1>7 DEF EventsNotLost, SyncInv
<1>9. requests' \in 0..MaxRequests BY SyncAssumption DEF SyncInv, TypeOK
<1> QED BY <1>3, <1>5, <1>8, <1>9, LoopIdles, LoopMove, FaultsCount DEF SyncInv, TypeOK, config

LEMMA PutReadKeeps == ASSUME SyncInv, PutRead PROVE SyncInv'
<1>1. loop' \in Loops /\ loop'.at = "put"
  BY DEF PutRead, LoopIdle, Loops, SyncInv, TypeOK
<1> QED BY <1>1, LoopEnds, FaultsCount DEF PutRead, SyncInv, TypeOK, queue, config

LEMMA PutWriteKeeps == ASSUME SyncInv, NEW S \in Configs, PutWrite(S) PROVE SyncInv'
<1>1. mapped' \in Configs /\ lastSynced' \in Nat \cup {Never}
  BY DEF PutWrite, SyncInv, TypeOK
<1> QED BY <1>1, LoopIdles, LoopEnds, FaultsCount DEF PutWrite, SyncInv, TypeOK, queue

LEMMA LoopFaultKeeps == ASSUME SyncInv, LoopFault PROVE SyncInv'
<1>1. faults' \in 0..MaxFaults BY SyncAssumption DEF LoopFault, SyncInv, TypeOK
<1> QED BY <1>1, LoopIdles, LoopEnds, FaultsCount DEF LoopFault, SyncInv, TypeOK, queue, config
-----------------------------------------------------------------------------
(* The provider. *)

(* An edit reaches no task, and what it announces had not been announced. *)
LEMMA EditKeepsAll ==
  ASSUME SyncInv, NEW S \in SUBSET Pages, EditPages(S),
         noted' \in [Events -> [Pages -> 0..MaxEdits]],
         \A e \in Events : noted'[e] = noted[e] \/ ~Announced(e),
         \A e \in Events, p \in Pages : noted'[e][p] = noted[e][p] \/ noted'[e][p] <= remote'[p]
  PROVE  SyncInv'
<1> USE DEF SyncInv
<1>1. /\ UNCHANGED <<queue, config, faults, health, held, loop, tick>>
      /\ \A p \in S : remote[p] < MaxEdits
      /\ clock' = clock + 1
      /\ remote' = [p \in Pages |-> IF p \in S THEN remote[p] + 1 ELSE remote[p]]
      /\ editedAt' = [p \in Pages |-> IF p \in S THEN clock' ELSE editedAt[p]]
  BY DEF EditPages
<1>2. clock' \in Nat /\ editedAt' \in [Pages -> Nat] BY <1>1 DEF TypeOK
<1>3. remote' \in [Pages -> 1..MaxEdits] /\ \A p \in Pages : remote[p] <= remote'[p]
  <2>1. \A p \in Pages : remote[p] \in 1..MaxEdits BY DEF TypeOK
  <2>2. \A p \in Pages : remote'[p] \in 1..MaxEdits /\ remote[p] <= remote'[p]
    BY <2>1, <1>1, SyncAssumption
  <2> QED BY <2>2, <1>1
<1>4. TypeOK'
  BY <1>1, <1>2, <1>3 DEF TypeOK, queue, config
<1>5. \A e \in Events : Announced(e) => Announced(e)' BY DEF Announced
<1>6. /\ UNCHANGED <<processed, tasks, created, requests, mapped, lastSynced>>
      /\ UNCHANGED <<faults, held, loop, tick>>
  BY <1>1 DEF queue, config
<1>7. RowsInv' /\ BatchInv' /\ LeftInv' /\ TouchInv' /\ EventsNotLost'
  BY <1>6 DEF RowsInv, BatchInv, LeftInv, TouchInv, EventsNotLost
<1>8. HookInv' BY <1>5, <1>6 DEF HookInv, Announced
<1>9. AnnouncedInv' BY <1>5, <1>6 DEF AnnouncedInv
<1>10. ContentInv' /\ StoreInv'
  <2>1. \A p \in Pages : held[p] \in Nat /\ remote[p] \in Nat /\ remote'[p] \in Nat
    BY <1>3 DEF TypeOK
  <2>2. \A e \in Events, p \in Pages : noted[e][p] \in Nat BY DEF TypeOK
  <2>3. \A e \in Events, p \in Pages : noted'[e][p] <= remote'[p]
    BY <1>3, <2>1, <2>2 DEF ContentInv
  <2>4. \A p \in Pages : held'[p] <= remote'[p] BY <1>3, <1>6, <2>1 DEF ContentInv
  <2>5. tick.got \in Nat BY DEF TypeOK
  <2>6. StoreInv' BY <1>3, <1>6, <2>1, <2>5 DEF StoreInv
  <2> QED BY <2>3, <2>4, <2>6 DEF ContentInv
<1>11. \A e \in Events, p \in Pages : tasks[EventKey(e, p)].status # "none" => noted'[e] = noted[e]
  BY DEF AnnouncedInv
<1>12. CompletedCarriesTheEdit' BY <1>6, <1>11 DEF CompletedCarriesTheEdit
<1>13. WorkInv'
  <2> SUFFICES ASSUME NEW e \in Events, NEW p \in Pages, tick.key = EventKey(e, p),
                      tick.at \in {"fetch", "store", "touch", "complete", "health", "event"}
               PROVE  noted'[e] = noted[e]
    BY <1>6 DEF WorkInv, Caught
  <2>1. tasks[tick.key].status \in {"running", "completed"} BY DEF BatchInv, Running
  <2> QED BY <2>1, <1>11
<1> QED BY <1>4, <1>7, <1>8, <1>9, <1>10, <1>12, <1>13

LEMMA EditKeeps == ASSUME SyncInv, NEW e \in Events, Edit(e) PROVE SyncInv'
<1>1. Touches[e] \in SUBSET Pages BY SyncAssumption
<1>2. /\ \A p \in Pages : noted[e][p] = 0
      /\ EditPages(Touches[e])
      /\ noted' = [noted EXCEPT ![e] = [p \in Pages |-> IF p \in Touches[e] THEN remote'[p] ELSE 0]]
  BY DEF Edit
<1>3. \A p \in Pages : remote'[p] \in 1..MaxEdits
  <2>1. \A p \in Pages : remote[p] \in 1..MaxEdits BY DEF SyncInv, TypeOK
  <2> QED BY <2>1, <1>2, SyncAssumption DEF EditPages
<1>4. noted \in [Events -> [Pages -> 0..MaxEdits]] BY DEF SyncInv, TypeOK
<1> DEFINE new == [p \in Pages |-> IF p \in Touches[e] THEN remote'[p] ELSE 0]
<1>5. new \in [Pages -> 0..MaxEdits] /\ \A p \in Pages : new[p] <= remote'[p]
  BY <1>3, SyncAssumption
<1>6. noted'[e] = new /\ \A f \in Events \ {e} : noted'[f] = noted[f] BY <1>2, <1>4
<1>7. noted' \in [Events -> [Pages -> 0..MaxEdits]] BY <1>2, <1>4, <1>5
<1> HIDE DEF new
<1>8. ~Announced(e) BY <1>2 DEF Announced
<1>9. \A f \in Events : noted'[f] = noted[f] \/ ~Announced(f) BY <1>6, <1>8
<1>10. \A f \in Events, p \in Pages : noted'[f][p] = noted[f][p] \/ noted'[f][p] <= remote'[p]
  BY <1>5, <1>6
<1> QED BY <1>1, <1>2, <1>7, <1>9, <1>10, EditKeepsAll

LEMMA EditUnseenKeeps == ASSUME SyncInv, NEW p \in Pages, EditUnseen(p) PROVE SyncInv'
BY EditKeepsAll DEF EditUnseen, SyncInv, TypeOK

-----------------------------------------------------------------------------
(* The worker, when no row is changed. *)

(* The task goes on: the place the worker goes to asks no more of its row *)
(* than the place it comes from.                                          *)
LEMMA TaskGoesOn ==
  ASSUME SyncInv, UNCHANGED tasks, faults' >= faults, faults' \in Nat,
         tick.at \in Working, tick'.at \in Working,
         tick'.key = tick.key, tick'.pending = tick.pending, tick'.retries = tick.retries,
         tick'.at \in Running => tick.at \in Running,
         tick'.at \in {"health", "event"} => tick.at \in {"health", "event"},
         tick'.at = "fail" => tick.at \in Tries,
         tick'.at \in {"failHealth", "failEvent"} => tick.at \in {"failHealth", "failEvent"}
  PROVE  BatchInv' /\ LeftInv'
<1>1. Tries = Running \cup {"health", "event"} BY DEF Tries, Running
<1>2. BatchInv' BY <1>1 DEF SyncInv, BatchInv
<1>3. LeftInv'
  <2>1. faults \in Nat BY FaultsCount
  <2> QED BY <2>1 DEF SyncInv, LeftInv
<1> QED BY <1>2, <1>3

(* A step of the worker that changes no table but, perhaps, the health. *)
LEMMA WorkerReads ==
  ASSUME SyncInv, UNCHANGED <<provider, queue, config, held, loop>>,
         health' \in {"unknown", "healthy", "degraded", "error"},
         faults' \in 0..MaxFaults,
         tick' \in Ticks, BatchInv', LeftInv', StoreInv', WorkInv', TouchInv'
  PROVE  SyncInv'
<1>1. RowsGoOn BY SameRows DEF queue
<1>2. \A p \in Pages : held[p] <= held'[p] /\ held'[p] <= remote[p]
  <2>1. \A p \in Pages : held[p] \in Nat BY DEF SyncInv, TypeOK
  <2> QED BY <2>1 DEF SyncInv, ContentInv
<1> QED BY <1>1, <1>2, WorkerStep DEF queue, config, SyncInv, TypeOK

(* The worker is between two tasks, or done. *)
LEMMA WorkerRests ==
  ASSUME SyncInv, UNCHANGED <<provider, queue, config, health, held, loop>>,
         faults' \in 0..MaxFaults,
         tick' \in Ticks, tick'.at \in {"idle", "next"},
         \A k \in tick'.pending : tasks[k].status = "pending",
         \A k \in tick'.retries : tasks[k].status = "retry_scheduled",
         \A k \in Keys : tasks[k].status = "running" => faults' > 0
  PROVE  SyncInv'
<1>1. tick'.at \notin Working /\ tick'.at \notin Running /\ tick'.at \notin {"health", "event", "fail", "failHealth", "failEvent"}
      /\ tick'.at \notin {"fetch", "store", "touch", "complete"}
  BY DEF Working, Running
<1>2. UNCHANGED tasks BY DEF queue
<1>3. BatchInv' BY <1>1, <1>2 DEF BatchInv
<1>4. LeftInv' BY <1>2 DEF LeftInv
<1>5. StoreInv' /\ TouchInv' BY <1>1 DEF StoreInv, TouchInv
<1>6. WorkInv' BY <1>1 DEF WorkInv
<1> QED BY <1>3, <1>4, <1>5, <1>6, WorkerReads DEF SyncInv, TypeOK

LEMMA TickIdles ==
  /\ TickIdle \in Ticks /\ TickIdle.at = "idle" /\ TickIdle.pending = {} /\ TickIdle.retries = {}
BY SyncAssumption DEF TickIdle, Ticks, Never, Places

LEMMA TickTyped == SyncInv => tick \in Ticks
BY DEF SyncInv, TypeOK, Ticks

(* Claiming and the end of a task leave a batch of rows as they are. *)
BatchOf(P, R) == [TickIdle EXCEPT !.at = "next", !.pending = P, !.retries = R]

LEMMA BatchTyped ==
  \A P \in SUBSET Keys, R \in SUBSET Keys :
    /\ BatchOf(P, R) \in Ticks /\ BatchOf(P, R).at = "next"
    /\ BatchOf(P, R).pending = P /\ BatchOf(P, R).retries = R
<1> TAKE P \in SUBSET Keys, R \in SUBSET Keys
<1> HIDE DEF TickIdle
<1>1. TickIdle \in Ticks BY TickIdles
<1>2. "next" \in Places BY DEF Places
<1> QED BY <1>1, <1>2 DEF BatchOf, Ticks

LEMMA ClaimKeeps == ASSUME SyncInv, Claim PROVE SyncInv'
<1>1. PICK P \in SUBSET Pending : \E R \in SUBSET DueRetries :
        tick' = BatchOf(P, R)
  BY DEF Claim, BatchOf
<1>2. PICK R \in SUBSET DueRetries :
        tick' = BatchOf(P, R)
  BY <1>1
<1>3. P \in SUBSET Keys /\ R \in SUBSET Keys BY DEF Pending, DueRetries
<1>4. tick' \in Ticks /\ tick'.at = "next" /\ tick'.pending = P /\ tick'.retries = R
  BY <1>2, <1>3, BatchTyped
<1>5. /\ \A k \in P : tasks[k].status = "pending"
      /\ \A k \in R : tasks[k].status = "retry_scheduled"
  BY DEF Pending, DueRetries
<1>6. tick.at = "idle" /\ UNCHANGED <<provider, queue, config, faults, health, held, loop>>
  BY DEF Claim
<1>7. \A k \in Keys : tasks[k].status = "running" => faults' > 0
  BY <1>6 DEF SyncInv, LeftInv, Working
<1> QED BY <1>4, <1>5, <1>6, <1>7, WorkerRests DEF SyncInv, TypeOK

LEMMA RecordEventKeeps == ASSUME SyncInv, RecordEvent PROVE SyncInv'
<1>1. /\ tick.at \in {"event", "failEvent"} /\ tick' = NextOfBatch
      /\ UNCHANGED <<provider, queue, config, faults, health, held, loop>>
  BY DEF RecordEvent
<1>2. tick.pending \in SUBSET Keys /\ tick.retries \in SUBSET Keys BY TickTyped DEF Ticks
<1>3. /\ tick' \in Ticks /\ tick'.at \in {"idle", "next"}
      /\ tick'.pending \subseteq tick.pending /\ tick'.retries \subseteq tick.retries
  <2>1. CASE tick' = TickIdle BY <2>1, TickIdles
  <2>2. CASE tick' = BatchOf(tick.pending, tick.retries)
    BY <2>2, <1>2, BatchTyped
  <2> QED BY <1>1, <2>1, <2>2 DEF NextOfBatch, BatchOf
<1>4. \A k \in Keys : tasks[k].status = "running" => faults' > 0
  <2>1. tasks[tick.key].status # "running" BY <1>1 DEF SyncInv, BatchInv
  <2> QED BY <1>1, <2>1 DEF SyncInv, LeftInv
<1>5. /\ \A k \in tick'.pending : tasks[k].status = "pending"
      /\ \A k \in tick'.retries : tasks[k].status = "retry_scheduled"
  BY <1>3 DEF SyncInv, BatchInv
<1> QED BY <1>1, <1>3, <1>4, <1>5, WorkerRests DEF SyncInv, TypeOK
LEMMA CrashKeeps == ASSUME SyncInv, Crash PROVE SyncInv'
<1>1. /\ faults' = faults + 1 /\ loop' = LoopIdle /\ tick' = TickIdle
      /\ faults < MaxFaults
      /\ UNCHANGED <<provider, queue, config, health, held>>
  BY DEF Crash
<1>2. faults \in Nat /\ faults' \in 0..MaxFaults /\ faults' > 0
  BY <1>1, SyncAssumption DEF SyncInv, TypeOK
<1>3. /\ UNCHANGED <<remote, editedAt, clock, noted, processed, tasks, created, requests>>
      /\ UNCHANGED <<mapped, lastSynced, health, held>>
  BY <1>1 DEF provider, queue, config
<1>4. TypeOK' BY <1>1, <1>2, <1>3, LoopIdles, TickIdles DEF SyncInv, TypeOK, Loops, Ticks
<1>5. /\ tick'.at = "idle" /\ tick'.pending = {} /\ tick'.retries = {}
      /\ loop'.at = "idle"
  BY <1>1, TickIdles, LoopIdles
<1>6. BatchInv' BY <1>5 DEF BatchInv, Working, Running
<1>7. StoreInv' /\ WorkInv' /\ TouchInv' /\ HookInv' BY <1>5 DEF StoreInv, WorkInv, TouchInv, HookInv
<1>8. LeftInv' BY <1>2 DEF LeftInv
<1>9. RowsInv' /\ AnnouncedInv' /\ ContentInv' /\ EventsNotLost' /\ CompletedCarriesTheEdit'
  BY <1>3 DEF SyncInv, RowsInv, AnnouncedInv, Announced, ContentInv, EventsNotLost,
              CompletedCarriesTheEdit
<1> QED BY <1>4, <1>6, <1>7, <1>8, <1>9 DEF SyncInv

(* Where the handler is over, nothing of it is left but its task. *)
LEMMA HandlerOvers ==
  ASSUME tick \in Ticks, NEW a \in Places
  PROVE  /\ HandlerOver(a) \in Ticks /\ HandlerOver(a).at = a /\ HandlerOver(a).key = tick.key
         /\ HandlerOver(a).pending = tick.pending /\ HandlerOver(a).retries = tick.retries
<1>1. 0 \in 0..MaxEdits BY SyncAssumption
<1>2. Never \in Nat \cup {Never} /\ AllPages \in Pages \cup {AllPages} OBVIOUS
<1> QED BY <1>1, <1>2 DEF HandlerOver, Ticks

LEMMA PlacesAre == /\ Tries \subseteq Working /\ Working \subseteq Places
                   /\ {"fail", "failHealth", "failEvent"} \subseteq Working
                   /\ Tries = Running \cup {"health", "event"}
                   /\ Running = {"config", "fetch", "store", "touch", "complete"}
                   /\ Running \cap {"health", "event", "fail", "failHealth", "failEvent"} = {}
BY DEF Tries, Working, Places, Running

(* The handler is over, for the task to fail. *)
LEMMA TaskFails ==
  ASSUME SyncInv, tick.at \in Tries, tick' = HandlerOver("fail"),
         UNCHANGED <<provider, queue, config, health, held, loop>>,
         faults' \in 0..MaxFaults, faults' >= faults
  PROVE  SyncInv'
<1>1. /\ tick' \in Ticks /\ tick'.at = "fail" /\ tick'.key = tick.key
      /\ tick'.pending = tick.pending /\ tick'.retries = tick.retries
  BY TickTyped, HandlerOvers, PlacesAre
<1>2. BatchInv' /\ LeftInv'
  BY <1>1, TaskGoesOn, PlacesAre, SyncAssumption DEF queue
<1>3. StoreInv' /\ WorkInv' /\ TouchInv' BY <1>1 DEF StoreInv, WorkInv, TouchInv
<1> QED BY <1>1, <1>2, <1>3, WorkerReads DEF SyncInv, TypeOK

LEMMA HandlerFailsKeeps == ASSUME SyncInv, HandlerFails PROVE SyncInv'
<1>1. tick.at \in Tries BY DEF HandlerFails, Tries
<1> QED BY <1>1, TaskFails, FaultsCount DEF HandlerFails, SyncInv, TypeOK

LEMMA TickFaultKeeps == ASSUME SyncInv, TickFault PROVE SyncInv'
<1>1. /\ faults' = faults + 1 /\ faults < MaxFaults
      /\ tick' = IF tick.at \in Tries THEN HandlerOver("fail") ELSE TickIdle
      /\ UNCHANGED <<provider, queue, config, health, held, loop>>
  BY DEF TickFault
<1>2. faults \in Nat /\ faults' \in 0..MaxFaults /\ faults' > 0 /\ faults' >= faults
  BY <1>1, SyncAssumption DEF SyncInv, TypeOK
<1>3. CASE tick.at \in Tries BY <1>1, <1>2, <1>3, TaskFails
<1>4. CASE tick.at \notin Tries
  <2>1. tick' \in Ticks /\ tick'.at = "idle" /\ tick'.pending = {} /\ tick'.retries = {}
    BY <1>1, <1>4, TickIdles
  <2> QED BY <1>1, <1>2, <2>1, WorkerRests
<1> QED BY <1>3, <1>4

LEMMA ReadConfigKeeps == ASSUME SyncInv, ReadConfig PROVE SyncInv'
<1>1. /\ tick.at = "config"
      /\ tick' = [tick EXCEPT !.at = "fetch",
                     !.todo = IF tick.key.of = AllPages THEN mapped ELSE {tick.key.of},
                     !.since = IF IsManual(tick.key) /\ Stamps THEN lastSynced ELSE Never]
      /\ UNCHANGED <<provider, queue, config, faults, health, held, loop>>
  BY DEF ReadConfig
<1> DEFINE pages == IF tick.key.of = AllPages THEN mapped ELSE {tick.key.of}
           stamp == IF IsManual(tick.key) /\ Stamps THEN lastSynced ELSE Never
<1>2. tick.key \in Keys BY <1>1, PlacesAre DEF SyncInv, BatchInv
<1>3. pages \in SUBSET Pages
  <2>1. mapped \in SUBSET Pages BY SyncAssumption DEF SyncInv, TypeOK
  <2>2. tick.key.of \in Pages \cup {AllPages} BY <1>2, KeysTell
  <2> QED BY <2>1, <2>2
<1>4. stamp \in Nat \cup {Never} BY DEF SyncInv, TypeOK
<1>5. tick' = [tick EXCEPT !.at = "fetch", !.todo = pages, !.since = stamp] BY <1>1
<1>6. \A e \in Events, p \in Pages : tick.key = EventKey(e, p) => pages = {p} /\ stamp = Never
  BY KeysTell
<1> HIDE DEF pages, stamp
<1>7. /\ tick' \in Ticks /\ tick'.at = "fetch" /\ tick'.key = tick.key
      /\ tick'.pending = tick.pending /\ tick'.retries = tick.retries
      /\ tick'.todo = pages /\ tick'.since = stamp
  BY <1>3, <1>4, <1>5, TickTyped, PlacesAre DEF Ticks
<1>8. BatchInv' /\ LeftInv'
  BY <1>1, <1>7, TaskGoesOn, PlacesAre, FaultsCount DEF queue
<1>9. WorkInv' BY <1>6, <1>7 DEF WorkInv
<1>10. StoreInv' /\ TouchInv' BY <1>7 DEF StoreInv, TouchInv
<1> QED BY <1>1, <1>7, <1>8, <1>9, <1>10, WorkerReads DEF SyncInv, TypeOK

LEMMA FetchKeeps == ASSUME SyncInv, NEW p \in Pages, Fetch(p) PROVE SyncInv'
<1> DEFINE rest == [tick EXCEPT !.todo = @ \ {p}]
           got == [rest EXCEPT !.at = "store", !.page = p, !.got = remote[p]]
<1>1. /\ tick.at = "fetch" /\ p \in tick.todo
      /\ tick' = IF EditedAfter(p) THEN got
                 ELSE IF tick.key.of = AllPages THEN rest
                 ELSE HandlerOver("complete")
      /\ UNCHANGED <<provider, queue, config, faults, health, held, loop>>
  BY DEF Fetch
<1>2. tick \in Ticks BY TickTyped
<1>3. /\ rest \in Ticks /\ rest.at = "fetch" /\ rest.key = tick.key
      /\ rest.pending = tick.pending /\ rest.retries = tick.retries
  BY <1>1, <1>2 DEF Ticks
<1>4. remote[p] \in 0..MaxEdits BY DEF SyncInv, TypeOK
<1>5. /\ got \in Ticks /\ got.at = "store" /\ got.key = tick.key
      /\ got.pending = tick.pending /\ got.retries = tick.retries
      /\ got.page = p /\ got.got = remote[p] /\ got.todo = tick.todo \ {p} /\ got.since = tick.since
  BY <1>1, <1>2, <1>4, PlacesAre DEF Ticks
<1> HIDE DEF rest, got
<1>6. \A e \in Events, q \in Pages : tick.key = EventKey(e, q) =>
        /\ p = q /\ tick.todo = {p} /\ tick.since = Never
        /\ EditedAfter(p)
  <2> SUFFICES ASSUME NEW e \in Events, NEW q \in Pages, tick.key = EventKey(e, q)
               PROVE  p = q /\ tick.todo = {p} /\ tick.since = Never /\ EditedAfter(p)
    OBVIOUS
  <2>1. tick.todo \subseteq {q} /\ tick.since = Never BY <1>1 DEF SyncInv, WorkInv
  <2>2. editedAt[p] \in Nat BY DEF SyncInv, TypeOK
  <2> QED BY <1>1, <2>1, <2>2 DEF EditedAfter, Never
<1>7. CASE EditedAfter(p)
  <2>1. tick' = got BY <1>1, <1>7
  <2>2. BatchInv' /\ LeftInv'
    BY <1>1, <1>5, <2>1, TaskGoesOn, PlacesAre, FaultsCount DEF queue
  <2>3. StoreInv' /\ TouchInv'
    BY <1>1, <1>5, <2>1 DEF SyncInv, ContentInv, StoreInv, TouchInv, TypeOK, provider
  <2>4. WorkInv'
    BY <1>1, <1>5, <1>6, <2>1 DEF SyncInv, ContentInv, WorkInv, TypeOK, provider
  <2> QED BY <1>1, <1>5, <2>1, <2>2, <2>3, <2>4, WorkerReads DEF SyncInv, TypeOK
<1>8. CASE ~EditedAfter(p) /\ tick.key.of = AllPages
  <2>1. tick' = rest BY <1>1, <1>8
  <2>2. BatchInv' /\ LeftInv'
    BY <1>1, <1>3, <2>1, TaskGoesOn, PlacesAre, FaultsCount DEF queue
  <2>3. StoreInv' /\ TouchInv' BY <1>3, <2>1 DEF StoreInv, TouchInv
  <2>4. WorkInv' BY <1>3, <1>6, <1>8, <2>1 DEF WorkInv
  <2> QED BY <1>1, <1>3, <2>1, <2>2, <2>3, <2>4, WorkerReads DEF SyncInv, TypeOK
<1>9. CASE ~EditedAfter(p) /\ tick.key.of # AllPages
  <2>1. /\ tick' \in Ticks /\ tick'.at = "complete" /\ tick'.key = tick.key
        /\ tick'.pending = tick.pending /\ tick'.retries = tick.retries
    BY <1>1, <1>2, <1>9, HandlerOvers, PlacesAre
  <2>2. BatchInv' /\ LeftInv'
    BY <1>1, <2>1, TaskGoesOn, PlacesAre, FaultsCount DEF queue
  <2>3. StoreInv' /\ TouchInv' BY <2>1 DEF StoreInv, TouchInv
  <2>4. WorkInv' BY <2>1, <1>6, <1>9 DEF WorkInv
  <2> QED BY <1>1, <2>1, <2>2, <2>3, <2>4, WorkerReads DEF SyncInv, TypeOK
<1> QED BY <1>7, <1>8, <1>9

LEMMA StoreKeeps == ASSUME SyncInv, Store PROVE SyncInv'
<1>1. /\ tick.at = "store"
      /\ held' = [held EXCEPT ![tick.page] = tick.got]
      /\ tick' = [tick EXCEPT !.at = "fetch", !.page = AllPages, !.got = 0]
      /\ UNCHANGED <<provider, queue, config, faults, health, loop>>
  BY DEF Store
<1>2. tick.page \in Pages /\ held[tick.page] <= tick.got /\ tick.got <= remote[tick.page]
  BY <1>1 DEF SyncInv, StoreInv
<1>3. /\ tick' \in Ticks /\ tick'.at = "fetch" /\ tick'.key = tick.key
      /\ tick'.pending = tick.pending /\ tick'.retries = tick.retries
      /\ tick'.todo = tick.todo /\ tick'.since = tick.since
  <2>1. 0 \in 0..MaxEdits BY SyncAssumption
  <2> QED BY <1>1, <2>1, TickTyped, PlacesAre DEF Ticks
<1>4. tick.got \in 0..MaxEdits /\ held \in [Pages -> 0..MaxEdits] BY DEF SyncInv, TypeOK
<1>5. held' \in [Pages -> 0..MaxEdits] BY <1>1, <1>4
<1>6. /\ held'[tick.page] = tick.got
      /\ \A p \in Pages : held[p] <= held'[p] /\ held'[p] <= remote[p]
  <2>1. \A p \in Pages : held[p] \in Nat BY <1>4
  <2> QED BY <1>1, <1>2, <1>4, <2>1 DEF SyncInv, ContentInv
<1>7. BatchInv' /\ LeftInv'
  BY <1>1, <1>3, TaskGoesOn, PlacesAre, FaultsCount DEF queue
<1>8. StoreInv' /\ TouchInv' BY <1>3 DEF StoreInv, TouchInv
<1>9. WorkInv'
  <2> SUFFICES ASSUME NEW e \in Events, NEW p \in Pages, tick'.key = EventKey(e, p)
               PROVE  /\ tick'.todo \subseteq {p} /\ tick'.since = Never
                      /\ held'[p] >= noted'[e][p]
    BY <1>3 DEF WorkInv, Caught
  <2>1. /\ tick.page = p /\ tick.todo = {} /\ tick.since = Never /\ tick.got >= noted[e][p]
    BY <1>1, <1>3 DEF SyncInv, WorkInv
  <2> QED BY <1>1, <1>3, <1>6, <2>1 DEF provider
<1>10. RowsGoOn BY <1>1, SameRows DEF queue
<1> QED BY <1>1, <1>3, <1>5, <1>6, <1>7, <1>8, <1>9, <1>10, WorkerStep
        DEF SyncInv, TypeOK, queue, config

LEMMA TouchReadKeeps == ASSUME SyncInv, TouchRead PROVE SyncInv'
<1>1. /\ tick.at = "fetch" /\ tick.todo = {}
      /\ tick' = IF Stamps THEN [tick EXCEPT !.at = "touch", !.since = clock, !.maps = mapped]
                 ELSE HandlerOver("complete")
      /\ UNCHANGED <<provider, queue, config, faults, health, held, loop>>
  BY DEF TouchRead
<1>2. /\ tick' \in Ticks /\ tick'.at \in {"touch", "complete"} /\ tick'.key = tick.key
      /\ tick'.pending = tick.pending /\ tick'.retries = tick.retries
      /\ tick'.at = "touch" => tick'.maps \in Configs
  <2>1. clock \in Nat /\ mapped \in Configs BY DEF SyncInv, TypeOK
  <2>2. CASE Stamps
    BY <1>1, <2>1, <2>2, TickTyped, PlacesAre DEF Ticks
  <2>3. CASE ~Stamps BY <1>1, <2>3, TickTyped, HandlerOvers, PlacesAre
  <2> QED BY <2>2, <2>3
<1>3. BatchInv' /\ LeftInv'
  BY <1>1, <1>2, TaskGoesOn, PlacesAre, FaultsCount DEF queue
<1>4. StoreInv' /\ TouchInv' BY <1>2 DEF StoreInv, TouchInv
<1>5. WorkInv' BY <1>1, <1>2 DEF SyncInv, WorkInv, Caught, provider
<1> QED BY <1>1, <1>2, <1>3, <1>4, <1>5, WorkerReads DEF SyncInv, TypeOK

LEMMA TouchWriteKeeps == ASSUME SyncInv, TouchWrite PROVE SyncInv'
<1>1. /\ tick.at = "touch"
      /\ mapped' = tick.maps /\ lastSynced' = tick.since
      /\ tick' = HandlerOver("complete")
      /\ UNCHANGED <<provider, queue, faults, health, held, loop>>
  BY DEF TouchWrite
<1>2. /\ tick' \in Ticks /\ tick'.at = "complete" /\ tick'.key = tick.key
      /\ tick'.pending = tick.pending /\ tick'.retries = tick.retries
  BY <1>1, TickTyped, HandlerOvers, PlacesAre
<1>3. BatchInv' /\ LeftInv'
  BY <1>1, <1>2, TaskGoesOn, PlacesAre, FaultsCount DEF queue
<1>4. StoreInv' /\ TouchInv' BY <1>2 DEF StoreInv, TouchInv
<1>5. WorkInv' BY <1>1, <1>2 DEF SyncInv, WorkInv, Caught, provider
<1>6. mapped' \in Configs /\ lastSynced' \in Nat \cup {Never}
  BY <1>1, TickTyped DEF SyncInv, TouchInv, Ticks
<1>7. RowsGoOn BY <1>1, SameRows DEF queue
<1>8. \A p \in Pages : held[p] <= held'[p] /\ held'[p] <= remote[p]
  <2>1. \A p \in Pages : held[p] \in Nat BY DEF SyncInv, TypeOK
  <2> QED BY <1>1, <2>1 DEF SyncInv, ContentInv
<1> QED BY <1>1, <1>2, <1>3, <1>4, <1>5, <1>6, <1>7, <1>8, WorkerStep
        DEF SyncInv, TypeOK, queue

(* What the health and the timeline say is no matter of the rows. *)
LEMMA HealthKept ==
  ASSUME SyncInv, UNCHANGED <<provider, queue, config, faults, held, loop>>,
         health' \in {"unknown", "healthy", "degraded", "error"},
         NEW a, NEW b, <<a, b>> \in {<<"health", "event">>, <<"failHealth", "failEvent">>},
         tick.at = a, tick' = [tick EXCEPT !.at = b]
  PROVE  SyncInv'
<1>1. /\ tick' \in Ticks /\ tick'.at = b /\ tick'.key = tick.key
      /\ tick'.pending = tick.pending /\ tick'.retries = tick.retries
  BY TickTyped DEF Ticks, Places, Tries
<1>2. BatchInv' /\ LeftInv'
  BY <1>1, TaskGoesOn, PlacesAre, FaultsCount DEF queue
<1>3. StoreInv' /\ TouchInv' BY <1>1 DEF StoreInv, TouchInv
<1>4. WorkInv' BY <1>1 DEF SyncInv, WorkInv, Caught, provider
<1> QED BY <1>1, <1>2, <1>3, <1>4, WorkerReads DEF SyncInv, TypeOK

LEMMA RecordHealthyKeeps == ASSUME SyncInv, RecordHealthy PROVE SyncInv'
BY HealthKept DEF RecordHealthy

LEMMA RecordFailingKeeps == ASSUME SyncInv, RecordFailing PROVE SyncInv'
BY HealthKept DEF RecordFailing
-----------------------------------------------------------------------------
(* The worker, when it changes the row of a task. *)

LEMMA RowTyped ==
  SyncInv => \A k \in Keys :
               /\ tasks[k] \in [status : Statuses, attempts : 0..MaxAttempts, due : BOOLEAN]
               /\ RowRule(tasks[k])
BY DEF SyncInv, TypeOK, RowsInv

(* The tables and the materials the rows' steps leave alone. *)
LEMMA RowStep ==
  ASSUME SyncInv, RowsGoOn,
         UNCHANGED <<provider, processed, created, requests, config, faults, health, held, loop>>,
         tick' \in Ticks,
         \A e \in Events, p \in Pages :
           tasks'[EventKey(e, p)].status = "completed" =>
             tasks[EventKey(e, p)].status = "completed" \/ Caught(e, p),
         BatchInv', LeftInv', StoreInv', WorkInv', TouchInv'
  PROVE  SyncInv'
<1>1. \A p \in Pages : held[p] <= held'[p] /\ held'[p] <= remote[p]
  <2>1. \A p \in Pages : held[p] \in Nat BY DEF SyncInv, TypeOK
  <2> QED BY <2>1 DEF SyncInv, ContentInv
<1> QED BY <1>1, WorkerStep DEF SyncInv, TypeOK, config

LEMMA BackoffEndsKeeps == ASSUME SyncInv, NEW k \in Keys, BackoffEnds(k) PROVE SyncInv'
<1> DEFINE r == [tasks[k] EXCEPT !.due = TRUE]
<1>1. /\ tasks[k].status = "retry_scheduled"
      /\ tasks' = [tasks EXCEPT ![k].due = TRUE]
      /\ UNCHANGED <<provider, processed, created, requests, config, faults, health, held, loop, tick>>
  BY DEF BackoffEnds
<1>2. /\ r \in [status : Statuses \ {"none"}, attempts : 0..MaxAttempts, due : BOOLEAN]
      /\ r.status = "retry_scheduled" /\ r.attempts = tasks[k].attempts
  BY <1>1, RowTyped
<1>3. RowRule(r) BY <1>1, <1>2, RowTyped DEF RowRule
<1>4. tasks' = [tasks EXCEPT ![k] = r] BY <1>1
<1> HIDE DEF r
<1>5. RowsGoOn /\ tasks'[k] = r /\ \A l \in Keys \ {k} : tasks'[l] = tasks[l]
  BY <1>1, <1>2, <1>3, <1>4, OneRow
<1>6. \A l \in Keys : tasks'[l].status = tasks[l].status BY <1>1, <1>2, <1>5
<1>7. tick.pending \subseteq Keys /\ tick.retries \subseteq Keys BY TickTyped DEF Ticks
<1>8. BatchInv' /\ LeftInv'
  BY <1>1, <1>6, <1>7, PlacesAre DEF SyncInv, BatchInv, LeftInv
<1>9. StoreInv' /\ WorkInv' /\ TouchInv'
  BY <1>1 DEF SyncInv, StoreInv, WorkInv, TouchInv, Caught, provider
<1>10. \A e \in Events, p \in Pages : tasks'[EventKey(e, p)].status = tasks[EventKey(e, p)].status
  BY <1>6, KeysTell
<1> QED BY <1>1, <1>5, <1>8, <1>9, <1>10, RowStep, TickTyped

LEMMA BeginKeeps == ASSUME SyncInv, NEW k \in Keys, Begin(k) PROVE SyncInv'
<1> DEFINE r == [status |-> "running", attempts |-> tasks[k].attempts + 1, due |-> FALSE]
<1>1. /\ tick.at = "next"
      /\ tasks' = [tasks EXCEPT ![k] = r]
      /\ tick' = [tick EXCEPT !.at = "config", !.key = k,
                              !.pending = @ \ {k}, !.retries = @ \ {k}]
      /\ UNCHANGED <<provider, processed, created, requests, config, faults, health, held, loop>>
  BY DEF Begin
<1>2. tick.at = "next" /\ (k \in tick.pending \/ k \in tick.retries) BY DEF Begin
<1>3. tasks[k].status \in {"pending", "retry_scheduled"} BY <1>2 DEF SyncInv, BatchInv
<1>4. tasks[k].attempts \in 0..(MaxAttempts - 1)
  BY <1>3, RowTyped, SyncAssumption DEF RowRule
<1>5. tasks[k].attempts + 1 \in 1..MaxAttempts /\ tasks[k].attempts + 1 \in 0..MaxAttempts
  BY <1>4, SyncAssumption
<1>6. /\ r \in [status : Statuses \ {"none"}, attempts : 0..MaxAttempts, due : BOOLEAN]
      /\ r.status = "running"
  BY <1>5 DEF Statuses
<1>7. RowRule(r) BY <1>5 DEF RowRule
<1> HIDE DEF r
<1>8. RowsGoOn /\ tasks'[k] = r /\ \A l \in Keys \ {k} : tasks'[l] = tasks[l]
  BY <1>1, <1>3, <1>6, <1>7, OneRow
<1>9. /\ tick' \in Ticks /\ tick'.at = "config" /\ tick'.key = k
      /\ tick'.pending = tick.pending \ {k} /\ tick'.retries = tick.retries \ {k}
  BY <1>1, TickTyped, PlacesAre DEF Ticks
<1>10. tick.pending \subseteq Keys /\ tick.retries \subseteq Keys BY TickTyped DEF Ticks
<1>11. BatchInv'
  BY <1>6, <1>8, <1>9, <1>10, PlacesAre DEF SyncInv, BatchInv
<1>12. LeftInv'
  <2> SUFFICES ASSUME NEW l \in Keys, tasks'[l].status = "running", l # k PROVE faults' > 0
    BY <1>9, PlacesAre DEF LeftInv
  <2>1. tick.at \notin Working BY <1>2 DEF Working
  <2> QED BY <1>1, <1>8, <2>1 DEF SyncInv, LeftInv
<1>13. StoreInv' /\ WorkInv' /\ TouchInv' BY <1>9 DEF StoreInv, WorkInv, TouchInv
<1>14. \A e \in Events, p \in Pages :
        tasks'[EventKey(e, p)].status = "completed" => tasks[EventKey(e, p)].status = "completed"
  BY <1>6, <1>8, KeysTell
<1> QED BY <1>1, <1>8, <1>9, <1>11, <1>12, <1>13, <1>14, RowStep

(* The task the worker runs is given another status. *)
LEMMA TaskMoves ==
  ASSUME SyncInv, tick.at \in Working,
         NEW st \in Statuses \ {"none", "running"},
         NEW a \in Working \ (Running \cup {"fail"}),
         tasks' = [tasks EXCEPT ![tick.key].status = st],
         tasks[tick.key].status # "none",
         RowRule([tasks[tick.key] EXCEPT !.status = st]),
         tick' = [tick EXCEPT !.at = a],
         UNCHANGED <<provider, processed, created, requests, config, faults, health, held, loop>>,
         a \in {"health", "event"} => st = "completed",
         a \in {"failHealth", "failEvent"} => st \in {"retry_scheduled", "failed"},
         \A e \in Events, p \in Pages : tick.key = EventKey(e, p) /\ st = "completed" => Caught(e, p),
         a \in {"health", "event"} => tick.at = "complete"
  PROVE  SyncInv'
<1> DEFINE k == tick.key
           r == [tasks[tick.key] EXCEPT !.status = st]
<1>1. k \in Keys /\ k \notin tick.pending \cup tick.retries BY DEF SyncInv, BatchInv
<1>2. /\ r \in [status : Statuses \ {"none"}, attempts : 0..MaxAttempts, due : BOOLEAN]
      /\ r.status = st
  BY <1>1, RowTyped
<1>3. RowRule(r) /\ tasks[k].status # "none" /\ tasks' = [tasks EXCEPT ![k] = r] OBVIOUS
<1> HIDE DEF r
<1>4. RowsGoOn /\ tasks'[k] = r /\ \A l \in Keys \ {k} : tasks'[l] = tasks[l]
  BY <1>1, <1>2, <1>3, OneRow
<1>5. /\ tick' \in Ticks /\ tick'.at = a /\ tick'.key = tick.key
      /\ tick'.pending = tick.pending /\ tick'.retries = tick.retries
  BY TickTyped, PlacesAre DEF Ticks
<1>6. tick.pending \subseteq Keys /\ tick.retries \subseteq Keys BY TickTyped DEF Ticks
<1>7. a \in Working /\ a \notin Running /\ a # "fail" OBVIOUS
<1>8. BatchInv'
  BY <1>1, <1>2, <1>4, <1>5, <1>6, <1>7, PlacesAre DEF SyncInv, BatchInv
<1>9. LeftInv'
  <2> SUFFICES ASSUME NEW l \in Keys, tasks'[l].status = "running" PROVE faults' > 0
    BY DEF LeftInv
  <2>1. l # k BY <1>2, <1>4
  <2> QED BY <1>4, <2>1 DEF SyncInv, LeftInv
<1>10. StoreInv' /\ TouchInv' BY <1>5, <1>7, PlacesAre DEF StoreInv, TouchInv
<1>11. WorkInv'
  <2>1. a \notin {"fetch", "store", "touch", "complete"} BY <1>7, PlacesAre
  <2> QED BY <1>5, <2>1 DEF SyncInv, WorkInv, Caught, provider
<1>12. \A e \in Events, p \in Pages :
        tasks'[EventKey(e, p)].status = "completed" =>
          tasks[EventKey(e, p)].status = "completed" \/ Caught(e, p)
  BY <1>2, <1>4, KeysTell
<1> QED BY <1>4, <1>5, <1>8, <1>9, <1>10, <1>11, <1>12, RowStep

LEMMA CompleteKeeps == ASSUME SyncInv, Complete PROVE SyncInv'
<1>1. /\ tick.at = "complete"
      /\ tasks' = [tasks EXCEPT ![tick.key].status = "completed"]
      /\ tick' = [tick EXCEPT !.at = "health"]
      /\ UNCHANGED <<provider, processed, created, requests, config, faults, health, held, loop>>
  BY DEF Complete
<1>2. tick.key \in Keys /\ tasks[tick.key].status = "running"
  BY <1>1, PlacesAre DEF SyncInv, BatchInv
<1>3. RowRule([tasks[tick.key] EXCEPT !.status = "completed"])
  <2>1. tasks[tick.key].attempts \in 1..MaxAttempts BY <1>2, RowTyped DEF RowRule
  <2>2. [tasks[tick.key] EXCEPT !.status = "completed"].attempts = tasks[tick.key].attempts
    BY <1>2, RowTyped
  <2>3. [tasks[tick.key] EXCEPT !.status = "completed"].status = "completed" BY <1>2, RowTyped
  <2> QED BY <2>1, <2>2, <2>3 DEF RowRule
<1>4. \A e \in Events, p \in Pages : tick.key = EventKey(e, p) => Caught(e, p)
  BY <1>1 DEF SyncInv, WorkInv
<1>5. "completed" \in Statuses \ {"none", "running"} BY DEF Statuses
<1>6. "health" \in Working \ (Running \cup {"fail"}) BY PlacesAre
<1>7. tick.at \in Working BY <1>1, PlacesAre
<1> QED BY <1>1, <1>2, <1>3, <1>4, <1>5, <1>6, <1>7, TaskMoves

LEMMA FailKeeps == ASSUME SyncInv, Fail PROVE SyncInv'
<1> DEFINE st == IF Exhausted(tick.key) THEN "failed" ELSE "retry_scheduled"
<1>1. /\ tick.at = "fail"
      /\ tasks' = [tasks EXCEPT ![tick.key].status = st]
      /\ tick' = [tick EXCEPT !.at = "failHealth"]
      /\ UNCHANGED <<provider, processed, created, requests, config, faults, health, held, loop>>
  BY DEF Fail
<1>2. tick.key \in Keys /\ tasks[tick.key].status \in {"running", "completed"}
  BY <1>1, PlacesAre DEF SyncInv, BatchInv
<1>3. RowRule([tasks[tick.key] EXCEPT !.status = st])
  <2>1. tasks[tick.key].attempts \in 1..MaxAttempts BY <1>2, RowTyped DEF RowRule
  <2>2. [tasks[tick.key] EXCEPT !.status = st].attempts = tasks[tick.key].attempts
    BY <1>2, RowTyped
  <2>3. [tasks[tick.key] EXCEPT !.status = st].status = st BY <1>2, RowTyped
  <2>4. CASE Exhausted(tick.key)
    <3>1. tasks[tick.key].attempts = MaxAttempts BY <2>1, <2>4, SyncAssumption DEF Exhausted
    <3> QED BY <2>2, <2>3, <2>4, <3>1 DEF RowRule
  <2>5. CASE ~Exhausted(tick.key)
    <3>1. tasks[tick.key].attempts \in 1..(MaxAttempts - 1)
      BY <2>1, <2>5, SyncAssumption DEF Exhausted
    <3> QED BY <2>2, <2>3, <2>5, <3>1 DEF RowRule
  <2> QED BY <2>4, <2>5
<1>5. st \in Statuses \ {"none", "running"} /\ st \in {"retry_scheduled", "failed"} BY DEF Statuses
<1> HIDE DEF st
<1>6. "failHealth" \in Working \ (Running \cup {"fail"}) BY PlacesAre
<1>7. tick.at \in Working BY <1>1, PlacesAre
<1> QED BY <1>1, <1>2, <1>3, <1>5, <1>6, <1>7, TaskMoves

-----------------------------------------------------------------------------
(* Every step keeps the invariant. *)

LEMMA StutterKeeps == SyncInv /\ UNCHANGED vars => SyncInv'
BY DEF vars, provider, queue, config, SyncInv, TypeOK, RowsInv, BatchInv, LeftInv, HookInv,
       AnnouncedInv, Announced, ContentInv, StoreInv, WorkInv, Caught, TouchInv, EventsNotLost,
       CompletedCarriesTheEdit

LEMMA NextKeeps == SyncInv /\ [Next]_vars => SyncInv'
<1> SUFFICES ASSUME SyncInv, [Next]_vars PROVE SyncInv' OBVIOUS
<1>1. ASSUME NEW e \in Events, Edit(e) \/ HookCheck(e) PROVE SyncInv'
  BY <1>1, EditKeeps, HookCheckKeeps
<1>2. ASSUME NEW p \in Pages, EditUnseen(p) PROVE SyncInv' BY <1>2, EditUnseenKeeps
<1>3. ASSUME NEW s \in Scopes, ManualSync(s) PROVE SyncInv' BY <1>3, ManualSyncKeeps
<1>4. ASSUME PutRead \/ LoopFault PROVE SyncInv' BY <1>4, PutReadKeeps, LoopFaultKeeps
<1>5. ASSUME LoopStep PROVE SyncInv'
  BY <1>5, HookEnqueueKeeps, HookMarkKeeps, PutWriteKeeps DEF LoopStep
<1>6. ASSUME NEW k \in Keys, BackoffEnds(k) PROVE SyncInv' BY <1>6, BackoffEndsKeeps
<1>7. ASSUME TickStep PROVE SyncInv'
  BY <1>7, ClaimKeeps, BeginKeeps, ReadConfigKeeps, HandlerFailsKeeps, FetchKeeps, StoreKeeps,
     TouchReadKeeps, TouchWriteKeeps, CompleteKeeps, RecordHealthyKeeps, RecordEventKeeps,
     FailKeeps, RecordFailingKeeps DEF TickStep
<1>8. ASSUME TickFault \/ Crash PROVE SyncInv' BY <1>8, TickFaultKeeps, CrashKeeps
<1>9. ASSUME UNCHANGED vars PROVE SyncInv' BY <1>9, StutterKeeps
<1> QED BY <1>1, <1>2, <1>3, <1>4, <1>5, <1>6, <1>7, <1>8, <1>9 DEF Next

LEMMA SyncInvariant == Spec => []SyncInv
<1>1. Init => SyncInv BY InitInv
<1>2. SyncInv /\ [Next]_vars => SyncInv' BY NextKeeps
<1> QED BY <1>1, <1>2, PTL DEF Spec

-----------------------------------------------------------------------------
(* What the queue promises. *)

(* Every variable keeps its type: no row, claim or timestamp of store.py and *)
(* connector_worker.py leaves the values the code knows.                     *)
THEOREM TypeCorrect == Spec => []TypeOK
<1>1. SyncInv => TypeOK BY DEF SyncInv
<1> QED BY <1>1, SyncInvariant, PTL

(* An event that was marked as processed has a task for every kept page it is *)
(* about: mark_event_processed comes after the last enqueue_sync_task, and no *)
(* fault between two of them makes a redelivery look like a duplicate.        *)
THEOREM NoEventIsLost == Spec => []EventsNotLost
<1>1. SyncInv => EventsNotLost BY DEF SyncInv
<1> QED BY <1>1, SyncInvariant, PTL

(* A task completed by run_sync_task has brought in the edit of its event,    *)
(* whatever the worker, a user's save and the stamp of last_synced_at do      *)
(* between its statements.                                                    *)
THEOREM EditsAreCarried == Spec => []CompletedCarriesTheEdit
<1>1. SyncInv => CompletedCarriesTheEdit BY DEF SyncInv
<1> QED BY <1>1, SyncInvariant, PTL

(* run_sync_task starts no task more than MaxAttempts times, fails it only    *)
(* after that many, and leaves it running only when something raised or died. *)
THEOREM AttemptsBudgeted == Spec => []AttemptsWithinBudget
<1>1. SyncInv => AttemptsWithinBudget
  BY DEF SyncInv, RowsInv, RowRule, LeftInv, Working, AttemptsWithinBudget
<1> QED BY <1>1, SyncInvariant, PTL
=============================================================================
