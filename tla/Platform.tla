------------------------------- MODULE Platform -------------------------------
(***************************************************************************)
(* What works around the reviews: notifications, the outputs handed on,    *)
(* the plan of a partial rerun, the job queue, and the two memories.       *)
(* They share the directory of a run or the time of a review, but none     *)
(* reads what another writes, except for the retry that asks one of two.   *)
(* So each is looked at with the others at rest, where their states add.   *)
(***************************************************************************)
EXTENDS Notifications, HandoffOutputs, SelectiveRerun, JobQueue, ReviewMemory, LongTermMemory

Init ==
    /\ NotificationsInit /\ HandoffInit /\ RerunInit
    /\ JobQueueInit /\ ReviewMemoryInit /\ LongTermInit

(* At rest a component has its initial state, one of several. *)
NotificationsAtRest ==
    NotificationsInit /\ config = [channels |-> "webhook", dry |-> TRUE, url |-> FALSE, app |-> FALSE]
HandoffAtRest == HandoffInit /\ document

NotificationsStep ==
    /\ HandoffAtRest /\ RerunInit /\ JobQueueInit /\ ReviewMemoryInit /\ LongTermInit
    /\ NotificationsNext
    /\ UNCHANGED <<handoffVars, rerunVars, jobQueueVars, reviewMemoryVars, longTermVars>>

HandoffStep ==
    /\ NotificationsAtRest /\ RerunInit /\ JobQueueInit /\ ReviewMemoryInit /\ LongTermInit
    /\ HandoffNext
    /\ UNCHANGED <<notificationsVars, rerunVars, jobQueueVars, reviewMemoryVars, longTermVars>>

RerunStep ==
    /\ NotificationsAtRest /\ HandoffAtRest /\ JobQueueInit /\ ReviewMemoryInit /\ LongTermInit
    /\ RerunNext
    /\ UNCHANGED <<notificationsVars, handoffVars, jobQueueVars, reviewMemoryVars, longTermVars>>

JobQueueStep ==
    /\ NotificationsAtRest /\ HandoffAtRest /\ RerunInit /\ ReviewMemoryInit /\ LongTermInit
    /\ JobQueueNext
    /\ UNCHANGED <<notificationsVars, handoffVars, rerunVars, reviewMemoryVars, longTermVars>>

ReviewMemoryStep ==
    /\ NotificationsAtRest /\ HandoffAtRest /\ RerunInit /\ JobQueueInit /\ LongTermInit
    /\ ReviewMemoryNext
    /\ UNCHANGED <<notificationsVars, handoffVars, rerunVars, jobQueueVars, longTermVars>>

LongTermStep ==
    /\ NotificationsAtRest /\ HandoffAtRest /\ RerunInit /\ JobQueueInit /\ ReviewMemoryInit
    /\ LongTermNext
    /\ UNCHANGED <<notificationsVars, handoffVars, rerunVars, jobQueueVars, reviewMemoryVars>>

Next ==
    \/ NotificationsStep \/ HandoffStep \/ RerunStep
    \/ JobQueueStep \/ ReviewMemoryStep \/ LongTermStep

Spec ==
    Init /\ [][Next]_<<notificationsVars, handoffVars, rerunVars,
                       jobQueueVars, reviewMemoryVars, longTermVars>>
=============================================================================
