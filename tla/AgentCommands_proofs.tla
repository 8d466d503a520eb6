------------------------ MODULE AgentCommands_proofs ------------------------
(***************************************************************************)
(* Proofs about AgentCommands for any number of commands, users and        *)
(* handlers, any number of runs and crashes.                               *)
(*                                                                         *)
(* The argument: a handler between its commit and the claim holds the loop *)
(* (LoopInv), so nothing can change the status it read (ClaimInv); the     *)
(* claim moves the row out of the statuses from which another handler can  *)
(* claim (FlightInv), so no two handlers ever serve one command (ExclInv); *)
(* and every way into the executable statuses, or to a first run, goes     *)
(* through the requester's approval (ApprovalInv).                         *)
(***************************************************************************)
EXTENDS AgentCommands, TLAPS

LoopInv == \A h \in Handlers : pc[h] = "claim" <=> loop = h

OnInv == \A h \in Handlers : pc[h] # "idle" => on[h] \in Commands

ClaimInv == \A h \in Handlers :
    pc[h] = "claim" => cmd[on[h]].status \in {"executable", "failed"}

FlightInv == \A h \in Handlers :
    Working(h) => /\ cmd[on[h]].status \in {"running", "dismissed"}
                  /\ hist[on[h]].runs > 0

ExclInv == \A g, h \in Handlers :
    pc[g] # "idle" /\ pc[h] # "idle" /\ on[g] = on[h] => g = h

FreshInv == \A c \in Commands :
    cmd[c].status = "none" => /\ hist[c].runs = 0 /\ hist[c].effects = 0
                              /\ ~hist[c].succeeded

(* The statuses a confirm-first command reaches only once approved. *)
Approved == {"executable", "running", "completed", "failed", "denied"}

ApprovalInv == \A c \in Commands :
    /\ RequiresConfirmation(cmd[c].kind)
    /\ cmd[c].status \in Approved \/ hist[c].runs > 0 \/ hist[c].effects > 0
    => cmd[c].owner \in hist[c].approvedBy

SuccessInv == \A c \in Commands :
    hist[c].succeeded =>
        /\ cmd[c].status \in {"completed", "dismissed"}
        /\ \A h \in Handlers : pc[h] # "idle" => on[h] # c

IInv ==
    /\ TypeOK
    /\ LoopInv
    /\ OnInv
    /\ ClaimInv
    /\ FlightInv
    /\ ExclInv
    /\ FreshInv
    /\ ApprovalInv
    /\ SuccessInv
    /\ TaskMirrorsCommand

(* What rewriting one row of a table, or one history, leaves alone. *)
LEMMA CommandUpdate ==
  ASSUME TypeOK, NEW c \in Commands, NEW s \in Statuses, NEW b \in BOOLEAN,
         UpdateCommand(c, s, b)
  PROVE  /\ cmd' \in [Commands -> CommandRow]
         /\ cmd'[c].status = s
         /\ cmd'[c].owner = cmd[c].owner /\ cmd'[c].kind = cmd[c].kind
         /\ \A d \in Commands : d # c => cmd'[d] = cmd[d]
<1>1. cmd' \in [Commands -> CommandRow]
  BY DEF TypeOK, UpdateCommand, CommandRow
<1>2. /\ cmd'[c].status = s
      /\ cmd'[c].owner = cmd[c].owner /\ cmd'[c].kind = cmd[c].kind
  BY DEF TypeOK, UpdateCommand, CommandRow
<1>3. \A d \in Commands : d # c => cmd'[d] = cmd[d]
  BY DEF TypeOK, UpdateCommand
<1> QED BY <1>1, <1>2, <1>3

(* One status written to the task table. *)
LEMMA TaskStatusUpdate ==
  ASSUME TypeOK, NEW c \in Commands, NEW s \in Statuses,
         task' = [task EXCEPT ![c].status = s]
  PROVE  /\ task' \in [Commands -> TaskRow]
         /\ task'[c].status = s
         /\ \A d \in Commands : d # c => task'[d] = task[d]
<1>1. task' \in [Commands -> TaskRow]
  BY DEF TypeOK, TaskRow
<1>2. task'[c].status = s
  BY DEF TypeOK, TaskRow
<1>3. \A d \in Commands : d # c => task'[d] = task[d]
  BY DEF TypeOK
<1> QED BY <1>1, <1>2, <1>3

(* One confirmation written to the task table. *)
LEMMA TaskConfirmUpdate ==
  ASSUME TypeOK, NEW c \in Commands, NEW s \in Statuses,
         task' = [task EXCEPT ![c] = [status |-> s, confirmedAt |-> TRUE]]
  PROVE  /\ task' \in [Commands -> TaskRow]
         /\ task'[c].status = s
         /\ \A d \in Commands : d # c => task'[d] = task[d]
<1>1. task' \in [Commands -> TaskRow]
  BY DEF TypeOK, TaskRow
<1>2. task'[c].status = s
  BY DEF TypeOK
<1>3. \A d \in Commands : d # c => task'[d] = task[d]
  BY DEF TypeOK
<1> QED BY <1>1, <1>2, <1>3

(* One step rewrites both rows of command c to status s ... *)
RowsChange(c, s) ==
    /\ cmd' \in [Commands -> CommandRow]
    /\ task' \in [Commands -> TaskRow]
    /\ cmd'[c].status = s /\ task'[c].status = s
    /\ cmd'[c].owner = cmd[c].owner /\ cmd'[c].kind = cmd[c].kind
    /\ \A d \in Commands : d # c => cmd'[d] = cmd[d] /\ task'[d] = task[d]

(* ... and what happened to c besides is known field by field. *)
HistChange(c, approvedBy, runs, effects, succeeded) ==
    /\ hist' \in [Commands -> History]
    /\ hist'[c].approvedBy = approvedBy
    /\ hist'[c].runs = runs
    /\ hist'[c].effects = effects
    /\ hist'[c].succeeded = succeeded
    /\ \A d \in Commands : d # c => hist'[d] = hist[d]

(* No command exists yet. *)
LEMMA IInvInit == Init => IInv
<1> SUFFICES ASSUME Init PROVE IInv
  OBVIOUS
<1>1. TypeOK
  BY ConstantsAssumption DEF Init, TypeOK, CommandRow, TaskRow, History, NoRow, Statuses
<1>2. \A c \in Commands : cmd[c].status = "none" /\ cmd[c].kind = "none"
  BY DEF Init, NoRow
<1>3. LoopInv /\ OnInv /\ ClaimInv /\ FlightInv /\ ExclInv
  BY ConstantsAssumption
     DEF Init, LoopInv, OnInv, ClaimInv, FlightInv, ExclInv, Working
<1>4. FreshInv /\ SuccessInv /\ TaskMirrorsCommand
  BY <1>2 DEF Init, FreshInv, SuccessInv, TaskMirrorsCommand
<1>5. ApprovalInv
  BY <1>2 DEF ApprovalInv, RequiresConfirmation, ConfirmFirst
<1> QED BY <1>1, <1>3, <1>4, <1>5 DEF IInv

(* Every action of every handler keeps the invariant. *)
LEMMA IInvNext == IInv /\ [Next]_vars => IInv'
<1> USE ConstantsAssumption
<1> SUFFICES ASSUME IInv, [Next]_vars PROVE IInv'
  OBVIOUS
<1> USE DEF IInv, Working
<1>1. ASSUME NEW h \in Handlers, NEW c \in Commands, NEW k \in Kinds,
             NEW u \in Users \cup {NoUser}, AddMessage(h, c, k, u)
      PROVE IInv'
  <2>0. PICK s \in {"awaiting_confirmation", "executable"} :
           /\ s = "awaiting_confirmation" <=> RequiresConfirmation(k)
           /\ cmd' = [cmd EXCEPT ![c] = [status |-> s, owner |-> u, kind |-> k,
                                         result |-> FALSE]]
           /\ task' = [task EXCEPT ![c].status = s]
    BY <1>1 DEF AddMessage
  <2>1. /\ cmd' \in [Commands -> CommandRow]
        /\ cmd'[c].status = s /\ cmd'[c].kind = k
        /\ \A d \in Commands : d # c => cmd'[d] = cmd[d]
    <3>1. s \in Statuses
      BY DEF Statuses
    <3>2. QED
      BY <2>0, <3>1 DEF TypeOK, CommandRow
  <2>2. /\ task' \in [Commands -> TaskRow]
        /\ task'[c].status = s
        /\ \A d \in Commands : d # c => task'[d] = task[d]
    <3>1. s \in Statuses
      BY DEF Statuses
    <3>2. QED
      BY <2>0, <3>1, TaskStatusUpdate
  <2>3. /\ hist' = hist /\ crashes' = crashes
        /\ loop = NoHandler /\ pc[h] = "idle"
        /\ cmd[c].status = "none"
        /\ \/ UNCHANGED <<pc, on, loop>>
           \/ /\ pc' = [pc EXCEPT ![h] = "claim"]
              /\ on' = [on EXCEPT ![h] = c]
              /\ loop' = h
              /\ ~RequiresConfirmation(k)
    BY <1>1 DEF AddMessage
  <2>10. TypeOK'
    BY <2>0, <2>1, <2>2, <2>3 DEF TypeOK
  <2>11. LoopInv' /\ OnInv'
    BY <2>0, <2>1, <2>2, <2>3 DEF TypeOK, LoopInv, OnInv
  <2>12. ClaimInv'
    BY <2>0, <2>1, <2>2, <2>3 DEF TypeOK, OnInv, LoopInv, ClaimInv, ExclInv
  <2>13. FlightInv'
    BY <2>0, <2>1, <2>2, <2>3 DEF TypeOK, OnInv, LoopInv, FlightInv, ExclInv
  <2>14. ExclInv'
    BY <2>0, <2>1, <2>2, <2>3 DEF TypeOK, OnInv, LoopInv, FlightInv, ExclInv
  <2>15. FreshInv'
    BY <2>0, <2>1, <2>2, <2>3 DEF TypeOK, FreshInv, FlightInv
  <2>16. ApprovalInv'
    BY <2>0, <2>1, <2>2, <2>3 DEF TypeOK, FreshInv, FlightInv, ApprovalInv, Approved
  <2>17. SuccessInv'
    BY <2>0, <2>1, <2>2, <2>3 DEF TypeOK, OnInv, LoopInv, ExclInv, FreshInv, FlightInv, SuccessInv
  <2>18. TaskMirrorsCommand'
    BY <2>0, <2>1, <2>2, <2>3 DEF TypeOK, TaskMirrorsCommand
  <2> QED BY <2>10, <2>11, <2>12, <2>13, <2>14, <2>15, <2>16, <2>17, <2>18
<1>2. ASSUME NEW c \in Commands, NEW u \in Users, Dismiss(c, u)
      PROVE IInv'
  <2>1. RowsChange(c, "dismissed")
    <3>1. "dismissed" \in Statuses
      BY DEF Statuses
    <3>2. UpdateCommand(c, "dismissed", FALSE) /\ task' = [task EXCEPT ![c].status = "dismissed"]
      BY <1>2 DEF Dismiss
    <3>3. /\ cmd' \in [Commands -> CommandRow]
          /\ cmd'[c].status = "dismissed"
          /\ cmd'[c].owner = cmd[c].owner /\ cmd'[c].kind = cmd[c].kind
          /\ \A d \in Commands : d # c => cmd'[d] = cmd[d]
      BY <3>1, <3>2, CommandUpdate
    <3>4. /\ task' \in [Commands -> TaskRow]
          /\ task'[c].status = "dismissed"
          /\ \A d \in Commands : d # c => task'[d] = task[d]
      BY <3>1, <3>2, TaskStatusUpdate
    <3>5. QED
      BY <3>3, <3>4 DEF RowsChange
  <2>2. HistChange(c, hist[c].approvedBy, hist[c].runs, hist[c].effects,
                    hist[c].succeeded)
    BY <1>2 DEF Dismiss, HistChange, TypeOK
  <2>3. UNCHANGED <<pc, on, loop, crashes>> /\ loop = NoHandler
        /\ cmd[c].status # "none"
    BY <1>2 DEF Dismiss
  <2>10. TypeOK'
    BY <2>1, <2>2, <2>3 DEF TypeOK, RowsChange, HistChange
  <2>11. LoopInv' /\ OnInv'
    BY <2>1, <2>2, <2>3 DEF TypeOK, RowsChange, HistChange, LoopInv, OnInv
  <2>12. ClaimInv'
    BY <2>1, <2>2, <2>3 DEF TypeOK, RowsChange, HistChange, OnInv, LoopInv, ClaimInv, ExclInv
  <2>13. FlightInv'
    BY <2>1, <2>2, <2>3 DEF TypeOK, RowsChange, HistChange, OnInv, LoopInv, FlightInv, ExclInv
  <2>14. ExclInv'
    BY <2>1, <2>2, <2>3 DEF TypeOK, RowsChange, HistChange, OnInv, LoopInv, FlightInv, ExclInv
  <2>15. FreshInv'
    BY <2>1, <2>2, <2>3 DEF TypeOK, RowsChange, HistChange, FreshInv, FlightInv
  <2>16. ApprovalInv'
    BY <2>1, <2>2, <2>3 DEF TypeOK, RowsChange, HistChange, FreshInv, FlightInv, ApprovalInv, Approved
  <2>17. SuccessInv'
    BY <2>1, <2>2, <2>3 DEF TypeOK, RowsChange, HistChange, OnInv, LoopInv, ExclInv, FreshInv, FlightInv, SuccessInv
  <2>18. TaskMirrorsCommand'
    BY <2>1, <2>2, <2>3 DEF TypeOK, RowsChange, HistChange, TaskMirrorsCommand
  <2> QED BY <2>10, <2>11, <2>12, <2>13, <2>14, <2>15, <2>16, <2>17, <2>18
<1>3. ASSUME NEW h \in Handlers, NEW c \in Commands, NEW u \in Users, Confirm(h, c, u)
      PROVE IInv'
  <2>3. /\ loop = NoHandler /\ pc[h] = "idle"
        /\ pc' = [pc EXCEPT ![h] = "claim"]
        /\ on' = [on EXCEPT ![h] = c]
        /\ loop' = h
        /\ crashes' = crashes
    BY <1>3 DEF Confirm
  <2>4. CASE cmd[c].status = "awaiting_confirmation"
    <3>1. RowsChange(c, "executable")
      <4>1. "executable" \in Statuses
        BY DEF Statuses
      <4>2. QED
        BY <1>3, <2>4, <4>1, CommandUpdate, TaskConfirmUpdate DEF Confirm, RowsChange
    <3>2. HistChange(c, hist[c].approvedBy \cup {cmd[c].owner}, hist[c].runs,
                     hist[c].effects, hist[c].succeeded)
      BY <1>3, <2>4 DEF Confirm, HistChange, TypeOK, History
    <3>10. TypeOK'
      BY <2>3, <2>4, <3>1, <3>2 DEF TypeOK, RowsChange, HistChange
    <3>11. LoopInv' /\ OnInv'
      BY <2>3, <2>4, <3>1, <3>2 DEF TypeOK, RowsChange, HistChange, LoopInv, OnInv
    <3>12. ClaimInv'
      BY <2>3, <2>4, <3>1, <3>2 DEF TypeOK, RowsChange, HistChange, OnInv, LoopInv, ClaimInv, ExclInv
    <3>13. FlightInv'
      BY <2>3, <2>4, <3>1, <3>2 DEF TypeOK, RowsChange, HistChange, OnInv, LoopInv, FlightInv, ExclInv
    <3>14. ExclInv'
      BY <2>3, <2>4, <3>1, <3>2 DEF TypeOK, RowsChange, HistChange, OnInv, LoopInv, FlightInv, ExclInv
    <3>15. FreshInv'
      BY <2>3, <2>4, <3>1, <3>2 DEF TypeOK, RowsChange, HistChange, FreshInv, FlightInv
    <3>16. ApprovalInv'
      BY <2>3, <2>4, <3>1, <3>2 DEF TypeOK, RowsChange, HistChange, FreshInv, FlightInv, ApprovalInv, Approved
    <3>17. SuccessInv'
      BY <2>3, <2>4, <3>1, <3>2 DEF TypeOK, RowsChange, HistChange, OnInv, LoopInv, ExclInv, FreshInv, FlightInv, SuccessInv
    <3>18. TaskMirrorsCommand'
      BY <2>3, <2>4, <3>1, <3>2 DEF TypeOK, RowsChange, HistChange, TaskMirrorsCommand
    <3> QED BY <3>10, <3>11, <3>12, <3>13, <3>14, <3>15, <3>16, <3>17, <3>18
  <2>5. CASE cmd[c].status = "failed"
    <3>1. UNCHANGED <<cmd, task, hist>>
      BY <1>3, <2>5 DEF Confirm
    <3>10. TypeOK'
      BY <2>3, <2>5, <3>1 DEF TypeOK
    <3>11. LoopInv' /\ OnInv'
      BY <2>3, <2>5, <3>1 DEF TypeOK, LoopInv, OnInv
    <3>12. ClaimInv'
      BY <2>3, <2>5, <3>1 DEF TypeOK, OnInv, LoopInv, ClaimInv, ExclInv
    <3>13. FlightInv'
      BY <2>3, <2>5, <3>1 DEF TypeOK, OnInv, LoopInv, FlightInv, ExclInv
    <3>14. ExclInv'
      BY <2>3, <2>5, <3>1 DEF TypeOK, OnInv, LoopInv, FlightInv, ExclInv
    <3>15. FreshInv'
      BY <2>3, <2>5, <3>1 DEF TypeOK, FreshInv, FlightInv
    <3>16. ApprovalInv'
      BY <2>3, <2>5, <3>1 DEF TypeOK, FreshInv, FlightInv, ApprovalInv, Approved
    <3>17. SuccessInv'
      BY <2>3, <2>5, <3>1 DEF TypeOK, OnInv, LoopInv, ExclInv, FreshInv, FlightInv, SuccessInv
    <3>18. TaskMirrorsCommand'
      BY <2>3, <2>5, <3>1 DEF TypeOK, TaskMirrorsCommand
    <3> QED BY <3>10, <3>11, <3>12, <3>13, <3>14, <3>15, <3>16, <3>17, <3>18
  <2> QED BY <1>3, <2>4, <2>5 DEF Confirm
<1>4. ASSUME NEW h \in Handlers, Claim(h)
      PROVE IInv'
  <2>0. on[h] \in Commands
    BY <1>4 DEF Claim, OnInv
  <2>1. RowsChange(on[h], "running")
    <3>1. "running" \in Statuses
      BY DEF Statuses
    <3>2. UpdateCommand(on[h], "running", FALSE) /\ task' = [task EXCEPT ![on[h]].status = "running"]
      BY <1>4 DEF Claim
    <3>3. /\ cmd' \in [Commands -> CommandRow]
          /\ cmd'[on[h]].status = "running"
          /\ cmd'[on[h]].owner = cmd[on[h]].owner /\ cmd'[on[h]].kind = cmd[on[h]].kind
          /\ \A d \in Commands : d # on[h] => cmd'[d] = cmd[d]
      BY <2>0, <3>1, <3>2, CommandUpdate
    <3>4. /\ task' \in [Commands -> TaskRow]
          /\ task'[on[h]].status = "running"
          /\ \A d \in Commands : d # on[h] => task'[d] = task[d]
      BY <2>0, <3>1, <3>2, TaskStatusUpdate
    <3>5. QED
      BY <3>3, <3>4 DEF RowsChange
  <2>2. HistChange(on[h], hist[on[h]].approvedBy, hist[on[h]].runs + 1,
                    hist[on[h]].effects, hist[on[h]].succeeded)
    BY <1>4, <2>0 DEF Claim, HistChange, TypeOK, History
  <2>3. /\ on[h] \in Commands
        /\ loop = h /\ pc[h] = "claim" /\ loop' = NoHandler
        /\ cmd[on[h]].status \in {"executable", "failed"}
        /\ pc' = [pc EXCEPT ![h] = "calling"]
        /\ UNCHANGED <<on, crashes>>
    BY <1>4, <2>0 DEF Claim
  <2>4. hist[on[h]].runs \in Nat
    BY <2>0 DEF TypeOK, History
  <2>10. TypeOK'
    BY <2>1, <2>2, <2>3 DEF TypeOK, RowsChange, HistChange
  <2>11. LoopInv' /\ OnInv'
    BY <2>1, <2>2, <2>3 DEF TypeOK, RowsChange, HistChange, LoopInv, OnInv
  <2>12. ClaimInv'
    BY <2>1, <2>2, <2>3 DEF TypeOK, RowsChange, HistChange, OnInv, LoopInv, ClaimInv, ExclInv
  <2>13. FlightInv'
    <3> SUFFICES ASSUME NEW g \in Handlers, Working(g)'
                 PROVE  /\ cmd'[on'[g]].status \in {"running", "dismissed"}
                        /\ hist'[on'[g]].runs > 0
      BY DEF FlightInv
    <3>1. CASE g = h
      <4>1. on'[g] = on[h]
        BY <3>1, <2>3
      <4>2. cmd'[on[h]].status = "running"
        BY <2>1 DEF RowsChange
      <4>3. hist'[on[h]].runs = hist[on[h]].runs + 1
        BY <2>2 DEF HistChange
      <4>4. hist[on[h]].runs + 1 > 0
        <5>1. \A n \in Nat : n + 1 > 0
          OBVIOUS
        <5>2. QED
          BY <5>1, <2>4
      <4>5. QED
        BY <4>1, <4>2, <4>3, <4>4
    <3>2. CASE g # h
      <4>1. Working(g) /\ on'[g] = on[g] /\ on[g] \in Commands
        BY <3>2, <2>3 DEF TypeOK, OnInv
      <4>2. on[g] # on[h]
        BY <4>1, <2>3 DEF FlightInv
      <4>3. QED
        BY <4>1, <4>2, <2>1, <2>2 DEF RowsChange, HistChange, FlightInv
    <3>3. QED BY <3>1, <3>2
  <2>14. ExclInv'
    BY <2>1, <2>2, <2>3 DEF TypeOK, RowsChange, HistChange, OnInv, LoopInv, FlightInv, ExclInv
  <2>15. FreshInv'
    BY <2>1, <2>2, <2>3 DEF TypeOK, RowsChange, HistChange, FreshInv, FlightInv
  <2>16. ApprovalInv'
    BY <2>1, <2>2, <2>3 DEF TypeOK, RowsChange, HistChange, FreshInv, FlightInv, ApprovalInv, Approved
  <2>17. SuccessInv'
    BY <2>1, <2>2, <2>3 DEF TypeOK, RowsChange, HistChange, OnInv, LoopInv, ExclInv, FreshInv, FlightInv, SuccessInv
  <2>18. TaskMirrorsCommand'
    BY <2>1, <2>2, <2>3 DEF TypeOK, RowsChange, HistChange, TaskMirrorsCommand
  <2> QED BY <2>10, <2>11, <2>12, <2>13, <2>14, <2>15, <2>16, <2>17, <2>18
<1>5. ASSUME NEW h \in Handlers, GatewayApply(h)
      PROVE IInv'
  <2>0. on[h] \in Commands
    BY <1>5 DEF GatewayApply, OnInv
  <2>2. HistChange(on[h], hist[on[h]].approvedBy, hist[on[h]].runs,
                    hist[on[h]].effects + 1, hist[on[h]].succeeded)
    BY <1>5, <2>0 DEF GatewayApply, HistChange, TypeOK, History
  <2>3. /\ on[h] \in Commands
        /\ loop = NoHandler /\ pc[h] = "calling"
        /\ pc' = [pc EXCEPT ![h] = "applied"]
        /\ UNCHANGED <<cmd, task, on, loop, crashes>>
    BY <1>5, <2>0 DEF GatewayApply
  <2>10. TypeOK'
    BY <2>2, <2>3 DEF TypeOK, HistChange
  <2>11. LoopInv' /\ OnInv'
    BY <2>2, <2>3 DEF TypeOK, HistChange, LoopInv, OnInv
  <2>12. ClaimInv'
    BY <2>2, <2>3 DEF TypeOK, HistChange, OnInv, LoopInv, ClaimInv, ExclInv
  <2>13. FlightInv'
    BY <2>2, <2>3 DEF TypeOK, HistChange, OnInv, LoopInv, FlightInv, ExclInv
  <2>14. ExclInv'
    BY <2>2, <2>3 DEF TypeOK, HistChange, OnInv, LoopInv, FlightInv, ExclInv
  <2>15. FreshInv'
    BY <2>2, <2>3 DEF TypeOK, HistChange, FreshInv, FlightInv
  <2>16. ApprovalInv'
    BY <2>2, <2>3 DEF TypeOK, HistChange, FreshInv, FlightInv, ApprovalInv, Approved
  <2>17. SuccessInv'
    BY <2>2, <2>3 DEF TypeOK, HistChange, OnInv, LoopInv, ExclInv, FreshInv, FlightInv, SuccessInv
  <2>18. TaskMirrorsCommand'
    BY <2>2, <2>3 DEF TypeOK, HistChange, TaskMirrorsCommand
  <2> QED BY <2>10, <2>11, <2>12, <2>13, <2>14, <2>15, <2>16, <2>17, <2>18
<1>6. ASSUME NEW h \in Handlers, RunSucceeds(h)
      PROVE IInv'
  <2>0. on[h] \in Commands
    BY <1>6 DEF RunSucceeds, OnInv
  <2>1. RowsChange(on[h], "completed")
    <3>1. "completed" \in Statuses
      BY DEF Statuses
    <3>2. UpdateCommand(on[h], "completed", TRUE) /\ task' = [task EXCEPT ![on[h]] =
                                            [status |-> "completed", confirmedAt |-> TRUE]]
      BY <1>6 DEF RunSucceeds
    <3>3. /\ cmd' \in [Commands -> CommandRow]
          /\ cmd'[on[h]].status = "completed"
          /\ cmd'[on[h]].owner = cmd[on[h]].owner /\ cmd'[on[h]].kind = cmd[on[h]].kind
          /\ \A d \in Commands : d # on[h] => cmd'[d] = cmd[d]
      BY <2>0, <3>1, <3>2, CommandUpdate
    <3>4. /\ task' \in [Commands -> TaskRow]
          /\ task'[on[h]].status = "completed"
          /\ \A d \in Commands : d # on[h] => task'[d] = task[d]
      BY <2>0, <3>1, <3>2, TaskConfirmUpdate
    <3>5. QED
      BY <3>3, <3>4 DEF RowsChange
  <2>2. HistChange(on[h], hist[on[h]].approvedBy, hist[on[h]].runs,
                    hist[on[h]].effects, TRUE)
    BY <1>6, <2>0 DEF RunSucceeds, HistChange, TypeOK, History
  <2>3. /\ on[h] \in Commands
        /\ loop = NoHandler /\ pc[h] = "applied"
        /\ pc' = [pc EXCEPT ![h] = "idle"]
        /\ on' = [on EXCEPT ![h] = NoCommand]
        /\ UNCHANGED <<loop, crashes>>
    BY <1>6, <2>0 DEF RunSucceeds, Finish
  <2>10. TypeOK'
    BY <2>1, <2>2, <2>3 DEF TypeOK, RowsChange, HistChange
  <2>11. LoopInv' /\ OnInv'
    BY <2>1, <2>2, <2>3 DEF TypeOK, RowsChange, HistChange, LoopInv, OnInv
  <2>12. ClaimInv'
    BY <2>1, <2>2, <2>3 DEF TypeOK, RowsChange, HistChange, OnInv, LoopInv, ClaimInv, ExclInv
  <2>13. FlightInv'
    BY <2>1, <2>2, <2>3 DEF TypeOK, RowsChange, HistChange, OnInv, LoopInv, FlightInv, ExclInv
  <2>14. ExclInv'
    BY <2>1, <2>2, <2>3 DEF TypeOK, RowsChange, HistChange, OnInv, LoopInv, FlightInv, ExclInv
  <2>15. FreshInv'
    BY <2>1, <2>2, <2>3 DEF TypeOK, RowsChange, HistChange, FreshInv, FlightInv
  <2>16. ApprovalInv'
    BY <2>1, <2>2, <2>3 DEF TypeOK, RowsChange, HistChange, FreshInv, FlightInv, ApprovalInv, Approved
  <2>17. SuccessInv'
    BY <2>1, <2>2, <2>3 DEF TypeOK, RowsChange, HistChange, OnInv, LoopInv, ExclInv, FreshInv, FlightInv, SuccessInv
  <2>18. TaskMirrorsCommand'
    BY <2>1, <2>2, <2>3 DEF TypeOK, RowsChange, HistChange, TaskMirrorsCommand
  <2> QED BY <2>10, <2>11, <2>12, <2>13, <2>14, <2>15, <2>16, <2>17, <2>18
<1>7. ASSUME NEW h \in Handlers, NEW s \in {"denied", "failed"}, RunFails(h, s)
      PROVE IInv'
  <2>0. on[h] \in Commands
    BY <1>7 DEF RunFails, OnInv
  <2>1. RowsChange(on[h], s)
    <3>1. s \in Statuses
      BY DEF Statuses
    <3>2. UpdateCommand(on[h], s, FALSE) /\ task' = [task EXCEPT ![on[h]].status = s]
      BY <1>7 DEF RunFails
    <3>3. /\ cmd' \in [Commands -> CommandRow]
          /\ cmd'[on[h]].status = s
          /\ cmd'[on[h]].owner = cmd[on[h]].owner /\ cmd'[on[h]].kind = cmd[on[h]].kind
          /\ \A d \in Commands : d # on[h] => cmd'[d] = cmd[d]
      BY <2>0, <3>1, <3>2, CommandUpdate
    <3>4. /\ task' \in [Commands -> TaskRow]
          /\ task'[on[h]].status = s
          /\ \A d \in Commands : d # on[h] => task'[d] = task[d]
      BY <2>0, <3>1, <3>2, TaskStatusUpdate
    <3>5. QED
      BY <3>3, <3>4 DEF RowsChange
  <2>2. HistChange(on[h], hist[on[h]].approvedBy, hist[on[h]].runs, hist[on[h]].effects,
                    hist[on[h]].succeeded)
    BY <1>7, <2>0 DEF RunFails, HistChange, TypeOK
  <2>3. /\ on[h] \in Commands
        /\ loop = NoHandler /\ pc[h] \in {"calling", "applied"}
        /\ pc' = [pc EXCEPT ![h] = "idle"]
        /\ on' = [on EXCEPT ![h] = NoCommand]
        /\ UNCHANGED <<loop, crashes>>
        /\ s \in {"denied", "failed"}
    BY <1>7, <2>0 DEF RunFails, Finish
  <2>10. TypeOK'
    BY <2>1, <2>2, <2>3 DEF TypeOK, RowsChange, HistChange
  <2>11. LoopInv' /\ OnInv'
    BY <2>1, <2>2, <2>3 DEF TypeOK, RowsChange, HistChange, LoopInv, OnInv
  <2>12. ClaimInv'
    BY <2>1, <2>2, <2>3 DEF TypeOK, RowsChange, HistChange, OnInv, LoopInv, ClaimInv, ExclInv
  <2>13. FlightInv'
    BY <2>1, <2>2, <2>3 DEF TypeOK, RowsChange, HistChange, OnInv, LoopInv, FlightInv, ExclInv
  <2>14. ExclInv'
    BY <2>1, <2>2, <2>3 DEF TypeOK, RowsChange, HistChange, OnInv, LoopInv, FlightInv, ExclInv
  <2>15. FreshInv'
    BY <2>1, <2>2, <2>3 DEF TypeOK, RowsChange, HistChange, FreshInv, FlightInv
  <2>16. ApprovalInv'
    BY <2>1, <2>2, <2>3 DEF TypeOK, RowsChange, HistChange, FreshInv, FlightInv, ApprovalInv, Approved
  <2>17. SuccessInv'
    BY <2>1, <2>2, <2>3 DEF TypeOK, RowsChange, HistChange, OnInv, LoopInv, ExclInv, FreshInv, FlightInv, SuccessInv
  <2>18. TaskMirrorsCommand'
    BY <2>1, <2>2, <2>3 DEF TypeOK, RowsChange, HistChange, TaskMirrorsCommand
  <2> QED BY <2>10, <2>11, <2>12, <2>13, <2>14, <2>15, <2>16, <2>17, <2>18
<1>8. CASE Crash
  BY <1>8 DEF Crash, TypeOK, LoopInv, OnInv, ClaimInv, FlightInv, ExclInv, FreshInv,
              ApprovalInv, SuccessInv, TaskMirrorsCommand
<1>9. CASE UNCHANGED vars
  BY <1>9 DEF vars, TypeOK, LoopInv, OnInv, ClaimInv, FlightInv, ExclInv, FreshInv,
              ApprovalInv, SuccessInv, TaskMirrorsCommand
<1> QED BY <1>1, <1>2, <1>3, <1>4, <1>5, <1>6, <1>7, <1>8, <1>9 DEF Next

(* The strengthened invariant holds in every reachable state of the ledger. *)
THEOREM Invariance == Spec => []IInv
  BY IInvInit, IInvNext, PTL DEF Spec

(* Every row, handler and counter of the ledger keeps its type. *)
THEOREM TypeCorrect == Spec => []TypeOK
  BY Invariance, PTL DEF IInv

(* A confirm-first action commits no effect before its requester approved   *)
(* it (agent_router.confirm_task), for any number of concurrent requests    *)
(* and crashes.                                                             *)
THEOREM ApprovalFirst == Spec => []NoEffectWithoutApproval
<1>1. IInv => NoEffectWithoutApproval
  BY DEF IInv, TypeOK, ApprovalInv, NoEffectWithoutApproval
<1> QED BY <1>1, Invariance, PTL

(* run_command never has the gateway run a command twice at a time. *)
THEOREM OneFlight == Spec => []SingleFlight
<1>1. IInv => SingleFlight
  BY DEF IInv, ExclInv, SingleFlight, Working
<1> QED BY <1>1, Invariance, PTL

(* The task row always shows the command's status: every handler writes     *)
(* both in one transaction.                                                 *)
THEOREM TaskMirrors == Spec => []TaskMirrorsCommand
  BY Invariance, PTL DEF IInv

(* run_command is never entered again for a command whose gateway call      *)
(* returned, even if its requester dismisses and confirms it afterwards.    *)
THEOREM NoSecondSuccess == Spec => NoRunAfterSuccess
<1>1. ASSUME IInv, [Next]_vars
      PROVE  [\A c \in Commands :
                hist[c].succeeded => hist'[c].runs = hist[c].runs]_vars
  <2> SUFFICES ASSUME NEW c \in Commands, hist[c].succeeded
               PROVE  hist'[c].runs = hist[c].runs
    OBVIOUS
  <2> USE <1>1 DEF IInv
  <2>1. CASE \E h \in Handlers, d \in Commands, k \in Kinds,
                u \in Users \cup {NoUser} : AddMessage(h, d, k, u)
    BY <2>1 DEF AddMessage
  <2>2. CASE \E d \in Commands, u \in Users : Dismiss(d, u)
    BY <2>2 DEF Dismiss
  <2>3. ASSUME NEW h \in Handlers, NEW d \in Commands, NEW u \in Users,
               Confirm(h, d, u)
        PROVE  hist'[c].runs = hist[c].runs
    <3>1. \/ hist' = hist
          \/ hist' = [hist EXCEPT ![d].approvedBy = @ \cup {u}]
      BY <2>3 DEF Confirm
    <3> QED BY <3>1 DEF TypeOK, History
  <2>4. ASSUME NEW h \in Handlers, Claim(h)
        PROVE  hist'[c].runs = hist[c].runs
    <3>1. on[h] # c
      BY <2>4 DEF Claim, SuccessInv
    <3> QED BY <2>4, <3>1 DEF Claim, TypeOK
  <2>5. ASSUME NEW h \in Handlers, GatewayApply(h)
        PROVE  hist'[c].runs = hist[c].runs
    BY <2>5 DEF GatewayApply, TypeOK, History
  <2>6. ASSUME NEW h \in Handlers, RunSucceeds(h)
        PROVE  hist'[c].runs = hist[c].runs
    BY <2>6 DEF RunSucceeds, TypeOK, History
  <2>7. CASE \E h \in Handlers, s \in {"denied", "failed"} : RunFails(h, s)
    BY <2>7 DEF RunFails
  <2>8. CASE Crash
    BY <2>8 DEF Crash
  <2>9. CASE UNCHANGED vars
    BY <2>9 DEF vars
  <2> QED BY <2>1, <2>2, <2>3, <2>4, <2>5, <2>6, <2>7, <2>8, <2>9 DEF Next
<1> QED BY <1>1, Invariance, PTL DEF Spec, NoRunAfterSuccess

----------------------------------------------------------------------------
(* The ledger implements the lifecycle.  The phase of a command depends on  *)
(* its own row and on the calls in flight for it only: a step that touches  *)
(* one command moves one phase, and only a crash moves several.             *)

(* One phase moves, the others stay. *)
LEMMA OnePhaseMoves ==
  ASSUME NEW c \in Commands, NEW from, NEW to,
         PhaseOf(c) \in from, PhaseOf(c)' = to,
         \A d \in Commands : d # c => PhaseOf(d)' = PhaseOf(d)
  PROVE  Lifecycle!Move(c, from, to)
  BY DEF Lifecycle!Move

(* No phase moves. *)
LEMMA NoPhaseMoves ==
  ASSUME \A d \in Commands : PhaseOf(d)' = PhaseOf(d)
  PROVE  UNCHANGED [c \in Commands |-> PhaseOf(c)]
  OBVIOUS

(* A command keeps its phase while its row and the calls for it are kept. *)
LEMMA PhaseKept ==
  ASSUME NEW d \in Commands, cmd'[d] = cmd[d],
         \A g \in Handlers : (Working(g) /\ on[g] = d)' <=> (Working(g) /\ on[g] = d)
  PROVE  PhaseOf(d)' = PhaseOf(d)
<1>1. InFlight(d)' <=> InFlight(d)
  BY DEF InFlight
<1> QED BY <1>1 DEF PhaseOf

(* What the phase is, as far as the steps of the ledger need it. *)
LEMMA PhaseInFlight ==
  ASSUME NEW h \in Handlers, Working(h)
  PROVE  PhaseOf(on[h]) = "working"
  BY DEF PhaseOf, InFlight

LEMMA PhaseAtRest ==
  ASSUME NEW c \in Commands, ~InFlight(c)
  PROVE  /\ cmd[c].status = "none" => PhaseOf(c) = "absent"
         /\ cmd[c].status = "awaiting_confirmation" => PhaseOf(c) = "proposed"
         /\ cmd[c].status \in {"executable", "failed"} => PhaseOf(c) = "ready"
         /\ cmd[c].status = "running" => PhaseOf(c) = "lost"
         /\ cmd[c].status = "completed" => PhaseOf(c) = "done"
         /\ cmd[c].status \in {"denied", "dismissed"} => PhaseOf(c) = "closed"
  BY DEF PhaseOf

(* Every step of the ledger is a step of the lifecycle or leaves all phases. *)
LEMMA StepsOfTheLifecycle ==
  IInv /\ IInv' /\ [Next]_vars => [Lifecycle!Next]_[c \in Commands |-> PhaseOf(c)]
<1> SUFFICES ASSUME IInv, IInv', [Next]_vars
             PROVE  Lifecycle!Next \/ UNCHANGED [c \in Commands |-> PhaseOf(c)]
  OBVIOUS
<1> USE DEF IInv
<1>0. /\ \A h \in Handlers : Working(h) => on[h] \in Commands
                                   /\ cmd[on[h]].status \in {"running", "dismissed"}
      /\ TypeOK
  BY DEF OnInv, FlightInv, Working
<1>1. ASSUME NEW h \in Handlers, NEW c \in Commands, NEW k \in Kinds,
             NEW u \in Users \cup {NoUser}, AddMessage(h, c, k, u)
      PROVE  Lifecycle!Next
  <2>1. /\ cmd[c].status = "none" /\ cmd'[c].status \in {"awaiting_confirmation", "executable"}
        /\ \A d \in Commands : d # c => cmd'[d] = cmd[d]
    BY <1>1 DEF AddMessage, TypeOK
  <2>2. \A g \in Handlers : /\ Working(g)' <=> Working(g)
                            /\ Working(g) => on'[g] = on[g]
    BY <1>1 DEF AddMessage, TypeOK, Working
  <2>3. ~InFlight(c) /\ ~InFlight(c)'
    BY <1>0, <2>1, <2>2 DEF InFlight
  <2>4. \A d \in Commands : d # c => PhaseOf(d)' = PhaseOf(d)
    BY <2>1, <2>2, PhaseKept
  <2>5. PhaseOf(c) = "absent"
    BY <2>1, <2>3, PhaseAtRest
  <2>6. PhaseOf(c)' = "proposed" \/ PhaseOf(c)' = "ready"
    BY <2>1, <2>3 DEF PhaseOf
  <2>7. Lifecycle!Propose(c)
    BY <2>4, <2>5, <2>6, OnePhaseMoves DEF Lifecycle!Propose
  <2> QED BY <2>7 DEF Lifecycle!Next
<1>2. ASSUME NEW c \in Commands, NEW u \in Users, Dismiss(c, u)
      PROVE  Lifecycle!Next \/ UNCHANGED [d \in Commands |-> PhaseOf(d)]
  <2>1. /\ cmd[c].status # "none" /\ cmd'[c].status = "dismissed"
        /\ \A d \in Commands : d # c => cmd'[d] = cmd[d]
        /\ pc' = pc /\ on' = on
    BY <1>2, CommandUpdate DEF Dismiss, Statuses
  <2>2. \A d \in Commands : d # c => PhaseOf(d)' = PhaseOf(d)
    BY <2>1, PhaseKept DEF Working
  <2>3. InFlight(c)' <=> InFlight(c)
    BY <2>1 DEF InFlight, Working
  <2>4. CASE InFlight(c)
    BY <2>2, <2>3, <2>4, NoPhaseMoves DEF PhaseOf
  <2>5. CASE ~InFlight(c)
    <3>1. PhaseOf(c)' = "closed"
      BY <2>1, <2>3, <2>5 DEF PhaseOf
    <3>2. PhaseOf(c) \in {"proposed", "ready", "done", "lost", "closed"}
      BY <2>1, <2>5 DEF PhaseOf
    <3>3. CASE PhaseOf(c) = "closed"
      BY <2>2, <3>1, <3>3, NoPhaseMoves
    <3>4. CASE PhaseOf(c) # "closed"
      <4>1. Lifecycle!Close(c)
        BY <2>2, <3>1, <3>2, <3>4, OnePhaseMoves DEF Lifecycle!Close
      <4> QED BY <4>1 DEF Lifecycle!Next
    <3> QED BY <3>3, <3>4
  <2> QED BY <2>4, <2>5
<1>3. ASSUME NEW h \in Handlers, NEW c \in Commands, NEW u \in Users, Confirm(h, c, u)
      PROVE  Lifecycle!Next \/ UNCHANGED [d \in Commands |-> PhaseOf(d)]
  <2>1. \A g \in Handlers : /\ Working(g)' <=> Working(g)
                            /\ Working(g) => on'[g] = on[g]
    BY <1>3 DEF Confirm, TypeOK, Working
  <2>2. cmd[c].status \in {"awaiting_confirmation", "failed"}
    BY <1>3 DEF Confirm
  <2>3. ~InFlight(c) /\ ~InFlight(c)'
    BY <1>0, <2>1, <2>2 DEF InFlight
  <2>4. CASE cmd[c].status = "failed"
    <3>1. cmd' = cmd
      BY <1>3, <2>4 DEF Confirm
    <3> QED BY <2>1, <3>1, PhaseKept, NoPhaseMoves
  <2>5. CASE cmd[c].status = "awaiting_confirmation"
    <3>1. /\ cmd'[c].status = "executable"
          /\ \A d \in Commands : d # c => cmd'[d] = cmd[d]
      BY <1>3, <2>5, CommandUpdate DEF Confirm, Statuses
    <3>2. \A d \in Commands : d # c => PhaseOf(d)' = PhaseOf(d)
      BY <2>1, <3>1, PhaseKept
    <3>3. PhaseOf(c) = "proposed" /\ PhaseOf(c)' = "ready"
      BY <2>3, <2>5, <3>1 DEF PhaseOf
    <3>4. Lifecycle!Approve(c)
      BY <3>2, <3>3, OnePhaseMoves DEF Lifecycle!Approve
    <3> QED BY <3>4 DEF Lifecycle!Next
  <2> QED BY <2>2, <2>4, <2>5
<1>4. ASSUME NEW h \in Handlers, Claim(h)
      PROVE  Lifecycle!Next
  <2>1. PICK c \in Commands : c = on[h]
    BY <1>4 DEF Claim, OnInv
  <2>2. /\ cmd[c].status \in {"executable", "failed"}
        /\ \A d \in Commands : d # c => cmd'[d] = cmd[d]
    BY <1>4, <2>1, CommandUpdate DEF Claim, Statuses
  <2>3. /\ ~Working(h) /\ Working(h)' /\ on' = on
        /\ \A g \in Handlers : g # h => (Working(g)' <=> Working(g))
    BY <1>4 DEF Claim, TypeOK, Working
  <2>4. \A d \in Commands : d # c => PhaseOf(d)' = PhaseOf(d)
    BY <2>1, <2>2, <2>3, PhaseKept
  <2>5. PhaseOf(c) = "ready"
    BY <1>0, <2>2, PhaseAtRest DEF InFlight
  <2>6. PhaseOf(c)' = "working"
    BY <2>1, <2>3 DEF PhaseOf, InFlight
  <2>7. Lifecycle!Start(c)
    BY <2>4, <2>5, <2>6, OnePhaseMoves DEF Lifecycle!Start
  <2> QED BY <2>7 DEF Lifecycle!Next
<1>5. ASSUME NEW h \in Handlers, GatewayApply(h)
      PROVE  UNCHANGED [d \in Commands |-> PhaseOf(d)]
  <2>1. cmd' = cmd /\ on' = on /\ \A g \in Handlers : Working(g)' <=> Working(g)
    BY <1>5 DEF GatewayApply, TypeOK, Working
  <2> QED BY <2>1, PhaseKept, NoPhaseMoves
<1>6. ASSUME NEW h \in Handlers, NEW s \in {"completed", "denied", "failed"},
             (RunSucceeds(h) /\ s = "completed") \/ (RunFails(h, s) /\ s # "completed")
      PROVE  Lifecycle!Next
  <2>1. Working(h) /\ pc[h] # "idle"
    BY <1>6 DEF RunSucceeds, RunFails, Working
  <2>2. PICK c \in Commands : c = on[h]
    BY <1>0, <2>1
  <2>3. /\ cmd'[c].status = s
        /\ \A d \in Commands : d # c => cmd'[d] = cmd[d]
    <3>1. s \in Statuses
      BY DEF Statuses
    <3>2. UpdateCommand(c, s, TRUE) \/ UpdateCommand(c, s, FALSE)
      BY <1>6, <2>2 DEF RunSucceeds, RunFails
    <3> QED BY <3>1, <3>2, CommandUpdate
  <2>4. /\ ~Working(h)'
        /\ \A g \in Handlers : g # h => (Working(g)' <=> Working(g)) /\ on'[g] = on[g]
    BY <1>6 DEF RunSucceeds, RunFails, Finish, TypeOK, Working
  <2>5. \A d \in Commands : d # c => PhaseOf(d)' = PhaseOf(d)
    BY <2>1, <2>2, <2>3, <2>4, PhaseKept
  <2>6. PhaseOf(c) = "working"
    BY <2>1, <2>2, PhaseInFlight
  <2>7. ~InFlight(c)'
    BY <2>1, <2>2, <2>4 DEF InFlight, ExclInv, Working
  <2>8. CASE s = "completed"
    <3>1. PhaseOf(c)' = "done"
      BY <2>3, <2>7, <2>8 DEF PhaseOf
    <3>2. Lifecycle!Succeed(c)
      BY <2>5, <2>6, <3>1, OnePhaseMoves DEF Lifecycle!Succeed
    <3> QED BY <3>2 DEF Lifecycle!Next
  <2>9. CASE s # "completed"
    <3>1. PhaseOf(c)' = "ready" \/ PhaseOf(c)' = "closed"
      BY <2>3, <2>7, <2>9 DEF PhaseOf
    <3>2. Lifecycle!Fail(c)
      BY <2>5, <2>6, <3>1, OnePhaseMoves DEF Lifecycle!Fail
    <3> QED BY <3>2 DEF Lifecycle!Next
  <2> QED BY <2>8, <2>9
<1>7. ASSUME Crash
      PROVE  Lifecycle!Next
  <2>1. cmd' = cmd /\ \A c \in Commands : ~InFlight(c)'
    BY <1>7 DEF Crash, InFlight, Working
  <2> DEFINE Closed == {c \in Commands : cmd[c].status = "dismissed"}
  <2>2. ASSUME NEW c \in Commands
        PROVE  PhaseOf(c)' = IF PhaseOf(c) # "working" THEN PhaseOf(c)
                             ELSE IF c \in Closed THEN "closed" ELSE "lost"
    <3>1. CASE InFlight(c)
      <4>1. PhaseOf(c) = "working" /\ cmd[c].status \in {"running", "dismissed"}
        BY <1>0, <3>1 DEF PhaseOf, InFlight
      <4> QED BY <2>1, <4>1 DEF PhaseOf
    <3>2. CASE ~InFlight(c)
      <4>1. PhaseOf(c)' = PhaseOf(c) /\ PhaseOf(c) # "working"
        BY <2>1, <3>2 DEF PhaseOf
      <4> QED BY <4>1
    <3> QED BY <3>1, <3>2
  <2>3. Closed \in SUBSET Commands
    OBVIOUS
  <2>4. Lifecycle!Lose
    <3> HIDE DEF Closed
    <3> QED BY <2>2, <2>3 DEF Lifecycle!Lose
  <2> QED BY <2>4 DEF Lifecycle!Next
<1>8. CASE UNCHANGED vars
  BY <1>8, PhaseKept, NoPhaseMoves DEF vars, Working
<1>9. ASSUME NEW h \in Handlers, RunSucceeds(h)
      PROVE  Lifecycle!Next
  BY <1>6, <1>9
<1>10. ASSUME NEW h \in Handlers, NEW s \in {"denied", "failed"}, RunFails(h, s)
       PROVE  Lifecycle!Next
  BY <1>6, <1>10
<1> QED BY <1>1, <1>2, <1>3, <1>4, <1>5, <1>7, <1>8, <1>9, <1>10 DEF Next

(* The ledger of agent_router.py, with its rows, requests, retries and      *)
(* crashes, shows a user nothing but the lifecycle: no command is started   *)
(* from proposed, done, closed or lost, for any number of requests.         *)
THEOREM LedgerImplementsLifecycle == Spec => ImplementsLifecycle
<1>1. Init => Lifecycle!Init
  BY DEF Init, NoRow, Lifecycle!Init, PhaseOf, InFlight, Working
<1>2. IInv /\ IInv' /\ [Next]_vars => [Lifecycle!Next]_[c \in Commands |-> PhaseOf(c)]
  BY StepsOfTheLifecycle
<1> QED BY <1>1, <1>2, Invariance, PTL DEF Spec, ImplementsLifecycle, Lifecycle!Spec
=============================================================================
