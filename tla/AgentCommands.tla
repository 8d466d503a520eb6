--------------------------- MODULE AgentCommands ---------------------------
(***************************************************************************)
(* The agent command ledger of pm_pal/server/agent_router.py: the messages *)
(* a user sends become commands, a command that writes waits for its       *)
(* requester to confirm it, and run_command claims it, calls the gateway   *)
(* and records the outcome.                                                *)
(*                                                                         *)
(* All handlers run on one asyncio event loop.  A handler gives the loop   *)
(* up only where it really suspends, which is inside gateway.execute; the  *)
(* variable loop names the handler that holds the loop between two commits *)
(* of one uninterrupted stretch.  Nothing but a crash can happen then.     *)
(***************************************************************************)
EXTENDS Naturals, FiniteSets

CONSTANTS
    Commands,   \* command ids (uuid, never reused); each has one task
    Kinds,      \* the kinds of action considered, a subset of the policy table
    Users,      \* actor identities
    NoUser,     \* the empty actor string
    Handlers,   \* request handlers (coroutines) that may be active at once
    NoHandler,  \* the event loop is between two handlers
    NoCommand,
    MaxRuns,    \* bound: gateway calls per command
    MaxCrashes  \* bound: process crashes

(* command_gateway.POLICIES: the actions, by what they require. *)
ConfirmFirst == {"connect_feishu", "generate_opportunity", "generate_prd",
                 "start_review"}
Immediate == {"generate_insight", "prepare_delivery"}

RequiresConfirmation(k) == k \in ConfirmFirst
Writes(k) == k \in ConfirmFirst

ASSUME ConstantsAssumption ==
    /\ Kinds \subseteq ConfirmFirst \cup Immediate
    /\ NoUser \notin Users
    /\ NoHandler \notin Handlers
    /\ NoCommand \notin Commands
    /\ MaxRuns \in Nat /\ MaxCrashes \in Nat

VARIABLES
    cmd,     \* agent_commands: the row of each command
    task,    \* agent_tasks: the row of the command's task
    pc,      \* per handler: where its coroutine is
    on,      \* per handler: the command it serves
    loop,    \* the handler holding the event loop, or NoHandler
    hist,    \* what really happened to each command, which no row records
    crashes  \* crashes so far

vars == <<cmd, task, pc, on, loop, hist, crashes>>

----------------------------------------------------------------------------
(* The statuses of agent_commands.status; "none" is the absent row. *)
Statuses == {"none", "awaiting_confirmation", "executable", "running", "completed",
             "failed", "denied", "dismissed"}

CommandRow == [status : Statuses, owner : Users \cup {NoUser},
               kind : Kinds \cup {"none"}, result : BOOLEAN]
TaskRow == [status : Statuses, confirmedAt : BOOLEAN]
History == [approvedBy : SUBSET Users, runs : Nat, effects : Nat, succeeded : BOOLEAN]

NoRow == [status |-> "none", owner |-> NoUser, kind |-> "none", result |-> FALSE]

(* update_command rewrites status and result_json together: every update    *)
(* that passes no result stores the empty one.                              *)
UpdateCommand(c, s, hasResult) ==
    cmd' = [cmd EXCEPT ![c] = [@ EXCEPT !.status = s, !.result = hasResult]]

Init ==
    /\ cmd = [c \in Commands |-> NoRow]
    /\ task = [c \in Commands |-> [status |-> "none", confirmedAt |-> FALSE]]
    /\ pc = [h \in Handlers |-> "idle"]
    /\ on = [h \in Handlers |-> NoCommand]
    /\ loop = NoHandler
    /\ hist = [c \in Commands |-> [approvedBy |-> {}, runs |-> 0, effects |-> 0,
                                   succeeded |-> FALSE]]
    /\ crashes = 0

----------------------------------------------------------------------------
(* POST /conversations/{id}/messages: one transaction inserts the task and  *)
(* the command.  An action that needs no confirmation goes on to            *)
(* run_command in the same stretch of the loop.                             *)
AddMessage(h, c, k, u) ==
    /\ loop = NoHandler /\ pc[h] = "idle"
    /\ cmd[c].status = "none"
    /\ Writes(k) => u # NoUser
    /\ LET s == IF RequiresConfirmation(k) THEN "awaiting_confirmation"
                                           ELSE "executable"
       IN /\ cmd' = [cmd EXCEPT ![c] = [status |-> s, owner |-> u, kind |-> k,
                                        result |-> FALSE]]
          /\ task' = [task EXCEPT ![c].status = s]
    /\ IF RequiresConfirmation(k)
       THEN UNCHANGED <<pc, on, loop>>
       ELSE /\ pc' = [pc EXCEPT ![h] = "claim"]
            /\ on' = [on EXCEPT ![h] = c]
            /\ loop' = h
    /\ UNCHANGED <<hist, crashes>>

(* Mutant: a dismissal puts the command back to wait for confirmation. *)
DismissReopens(c, u) ==
    /\ loop = NoHandler
    /\ cmd[c].status # "none" /\ u # NoUser /\ cmd[c].owner = u
    /\ UpdateCommand(c, "awaiting_confirmation", FALSE)
    /\ task' = [task EXCEPT ![c].status = "awaiting_confirmation"]
    /\ UNCHANGED <<pc, on, loop, hist, crashes>>

(* POST /tasks/{id}/confirm with confirmed = false: no look at the status. *)
Dismiss(c, u) ==
    /\ loop = NoHandler
    /\ cmd[c].status # "none" /\ u # NoUser /\ cmd[c].owner = u
    /\ UpdateCommand(c, "dismissed", FALSE)
    /\ task' = [task EXCEPT ![c].status = "dismissed"]
    /\ UNCHANGED <<pc, on, loop, hist, crashes>>

(* Mutant: whoever asks may confirm. *)
ConfirmByAnyone(h, c, u) ==
    /\ loop = NoHandler /\ pc[h] = "idle"
    /\ u # NoUser
    /\ cmd[c].status \in {"awaiting_confirmation", "failed"}
    /\ hist[c].runs < MaxRuns
    /\ IF cmd[c].status = "awaiting_confirmation"
       THEN /\ UpdateCommand(c, "executable", FALSE)
            /\ task' = [task EXCEPT ![c] = [status |-> "executable",
                                            confirmedAt |-> TRUE]]
            /\ hist' = [hist EXCEPT ![c].approvedBy = @ \cup {u}]
       ELSE UNCHANGED <<cmd, task, hist>>
    /\ pc' = [pc EXCEPT ![h] = "claim"]
    /\ on' = [on EXCEPT ![h] = c]
    /\ loop' = h
    /\ UNCHANGED crashes

(* Mutant: a dismissed command may be confirmed after all. *)
ConfirmDismissed(h, c, u) ==
    /\ loop = NoHandler /\ pc[h] = "idle"
    /\ u # NoUser /\ cmd[c].owner = u
    /\ cmd[c].status \in {"awaiting_confirmation", "failed", "dismissed"}
    /\ hist[c].runs < MaxRuns
    /\ IF cmd[c].status # "failed"
       THEN /\ UpdateCommand(c, "executable", FALSE)
            /\ task' = [task EXCEPT ![c] = [status |-> "executable",
                                            confirmedAt |-> TRUE]]
            /\ hist' = [hist EXCEPT ![c].approvedBy = @ \cup {u}]
       ELSE UNCHANGED <<cmd, task, hist>>
    /\ pc' = [pc EXCEPT ![h] = "claim"]
    /\ on' = [on EXCEPT ![h] = c]
    /\ loop' = h
    /\ UNCHANGED crashes

(* POST /tasks/{id}/confirm or /retry with confirmed = true.  The statuses  *)
(* executable, running, denied, dismissed and completed return as they are. *)
Confirm(h, c, u) ==
    /\ loop = NoHandler /\ pc[h] = "idle"
    /\ u # NoUser /\ cmd[c].owner = u
    /\ cmd[c].status \in {"awaiting_confirmation", "failed"}
    /\ hist[c].runs < MaxRuns
    /\ IF cmd[c].status = "awaiting_confirmation"
       THEN /\ UpdateCommand(c, "executable", FALSE)
            /\ task' = [task EXCEPT ![c] = [status |-> "executable",
                                            confirmedAt |-> TRUE]]
            /\ hist' = [hist EXCEPT ![c].approvedBy = @ \cup {u}]
       ELSE UNCHANGED <<cmd, task, hist>>
    /\ pc' = [pc EXCEPT ![h] = "claim"]
    /\ on' = [on EXCEPT ![h] = c]
    /\ loop' = h
    /\ UNCHANGED crashes

(* run_command, up to its first suspension: claim the command. *)
Claim(h) ==
    LET c == on[h] IN
    /\ loop = h /\ pc[h] = "claim"
    /\ cmd[c].status \in {"executable", "failed"}
    /\ UpdateCommand(c, "running", FALSE)
    /\ task' = [task EXCEPT ![c].status = "running"]
    /\ pc' = [pc EXCEPT ![h] = "calling"]
    /\ hist' = [hist EXCEPT ![c].runs = @ + 1]
    /\ loop' = NoHandler
    /\ UNCHANGED <<on, crashes>>

(* The gateway commits what the action does, in a worker thread or after an *)
(* await, while other handlers use the loop.                                *)
GatewayApply(h) ==
    /\ loop = NoHandler /\ pc[h] = "calling"
    /\ pc' = [pc EXCEPT ![h] = "applied"]
    /\ hist' = [hist EXCEPT ![on[h]].effects = @ + 1]
    /\ UNCHANGED <<cmd, task, on, loop, crashes>>

Finish(h) ==
    /\ pc' = [pc EXCEPT ![h] = "idle"]
    /\ on' = [on EXCEPT ![h] = NoCommand]

(* gateway.execute returned: completed, whatever the row says by now. *)
RunSucceeds(h) ==
    LET c == on[h] IN
    /\ loop = NoHandler /\ pc[h] = "applied"
    /\ UpdateCommand(c, "completed", TRUE)
    /\ task' = [task EXCEPT ![c] = [status |-> "completed", confirmedAt |-> TRUE]]
    /\ hist' = [hist EXCEPT ![c].succeeded = TRUE]
    /\ Finish(h)
    /\ UNCHANGED <<loop, crashes>>

(* Mutant: an error that is not a CommandError escapes run_command. *)
RunFailsUnrecorded(h, s) ==
    /\ loop = NoHandler /\ pc[h] \in {"calling", "applied"}
    /\ Finish(h)
    /\ UNCHANGED <<cmd, task, loop, hist, crashes>>

(* gateway.execute raised: a CommandError whose code is a refusal is        *)
(* denied, every other error is failed and may be retried.                  *)
RunFails(h, s) ==
    LET c == on[h] IN
    /\ loop = NoHandler /\ pc[h] \in {"calling", "applied"}
    /\ UpdateCommand(c, s, FALSE)
    /\ task' = [task EXCEPT ![c].status = s]
    /\ Finish(h)
    /\ UNCHANGED <<loop, hist, crashes>>

(* The process dies: coroutines and worker threads are gone, rows stay. *)
Crash ==
    /\ crashes < MaxCrashes
    /\ crashes' = crashes + 1
    /\ pc' = [h \in Handlers |-> "idle"]
    /\ on' = [h \in Handlers |-> NoCommand]
    /\ loop' = NoHandler
    /\ UNCHANGED <<cmd, task, hist>>

Next ==
    \/ \E h \in Handlers, c \in Commands, k \in Kinds, u \in Users \cup {NoUser} :
          AddMessage(h, c, k, u)
    \/ \E c \in Commands, u \in Users : Dismiss(c, u)
    \/ \E h \in Handlers, c \in Commands, u \in Users : Confirm(h, c, u)
    \/ \E h \in Handlers : Claim(h)
    \/ \E h \in Handlers : GatewayApply(h)
    \/ \E h \in Handlers : RunSucceeds(h)
    \/ \E h \in Handlers, s \in {"denied", "failed"} : RunFails(h, s)
    \/ Crash

Spec == Init /\ [][Next]_vars

(* The loop runs what is ready, and a gateway call returns or raises: the   *)
(* connectors it waits for have timeouts of their own.                      *)
Fairness ==
    \A h \in Handlers :
        /\ WF_vars(Claim(h))
        /\ WF_vars(GatewayApply(h))
        /\ WF_vars(RunSucceeds(h) \/ \E s \in {"denied", "failed"} : RunFails(h, s))

FairSpec == Spec /\ Fairness

----------------------------------------------------------------------------
TypeOK ==
    /\ cmd \in [Commands -> CommandRow]
    /\ task \in [Commands -> TaskRow]
    /\ pc \in [Handlers -> {"idle", "claim", "calling", "applied"}]
    /\ on \in [Handlers -> Commands \cup {NoCommand}]
    /\ loop \in Handlers \cup {NoHandler}
    /\ hist \in [Commands -> History]
    /\ crashes \in Nat

Working(h) == pc[h] \in {"calling", "applied"}
InFlight(c) == \E h \in Handlers : Working(h) /\ on[h] = c

(* No effect of a confirm-first action is committed unless the user who     *)
(* asked for it approved it: across dismissals, retries of failed runs and  *)
(* crashes between the approval and the claim.                              *)
NoEffectWithoutApproval ==
    \A c \in Commands :
        RequiresConfirmation(cmd[c].kind) /\ hist[c].effects > 0
            => cmd[c].owner \in hist[c].approvedBy

(* Two confirmations, or a confirmation and a retry, never have the gateway *)
(* run one command twice at the same time.                                  *)
SingleFlight ==
    \A g, h \in Handlers :
        Working(g) /\ Working(h) /\ on[g] = on[h] => g = h

(* The task row the client polls always shows the command row's status. *)
TaskMirrorsCommand == \A c \in Commands : task[c].status = cmd[c].status

(* A command whose gateway call returned is never handed to the gateway     *)
(* again, whatever a dismissal does to its row afterwards.                  *)
NoRunAfterSuccess ==
    [][\A c \in Commands :
          hist[c].succeeded => hist'[c].runs = hist[c].runs]_vars

(* Unless the process dies, an approved command is settled: no order of     *)
(* confirmations, retries and dismissals leaves it executable or running.   *)
ApprovedIsSettled ==
    \A c \in Commands :
        cmd[c].status \in {"executable", "running"}
            ~> (cmd[c].status \in {"completed", "failed", "denied", "dismissed"}
                  \/ crashes > 0)

----------------------------------------------------------------------------
(* What the ledger promises, as a lifecycle of one command.  A command is   *)
(* working exactly while a gateway call for it is in flight, even when a    *)
(* dismissal has meanwhile rewritten its row.                               *)
PhaseOf(c) ==
    IF InFlight(c) THEN "working"
    ELSE CASE cmd[c].status = "none" -> "absent"
           [] cmd[c].status = "awaiting_confirmation" -> "proposed"
           [] cmd[c].status \in {"executable", "failed"} -> "ready"
           [] cmd[c].status = "running" -> "lost"
           [] cmd[c].status = "completed" -> "done"
           [] OTHER -> "closed"

Lifecycle == INSTANCE CommandLifecycle
                WITH phase <- [c \in Commands |-> PhaseOf(c)]

(* The ledger implements the lifecycle: in particular no command starts     *)
(* from proposed, done, closed or lost, and one at a time.                  *)
ImplementsLifecycle == Lifecycle!Spec
============================================================================
