-------------------------- MODULE CommandLifecycle --------------------------
(***************************************************************************)
(* What a user of the agent may rely on, without handlers, rows or the     *)
(* event loop: a command that needs approval is proposed first, it is      *)
(* worked on only when ready, by one gateway call at a time, and never     *)
(* again once it is done, closed or lost to a crash.                       *)
(***************************************************************************)
CONSTANT Commands

VARIABLE phase  \* the phase of each command

Phases == {"absent", "proposed", "ready", "working", "done", "closed", "lost"}

Init == phase = [c \in Commands |-> "absent"]

Move(c, from, to) ==
    /\ phase[c] \in from
    /\ phase' = [phase EXCEPT ![c] = to]

Propose(c) == Move(c, {"absent"}, "proposed") \/ Move(c, {"absent"}, "ready")
Approve(c) == Move(c, {"proposed"}, "ready")
Start(c)   == Move(c, {"ready"}, "working")
Succeed(c) == Move(c, {"working"}, "done")
(* A failed call may be retried, a refused one is closed. *)
Fail(c)    == Move(c, {"working"}, "ready") \/ Move(c, {"working"}, "closed")
(* The requester may close a command at any time it is not worked on. *)
Close(c)   == Move(c, {"proposed", "ready", "done", "lost"}, "closed")

(* A crash ends all the calls at once: what was worked on is lost, except   *)
(* what its requester had closed meanwhile.                                 *)
Lose ==
    \E closed \in SUBSET Commands :
        phase' = [c \in Commands |->
                    IF phase[c] # "working" THEN phase[c]
                    ELSE IF c \in closed THEN "closed" ELSE "lost"]

Next ==
    \/ \E c \in Commands :
          Propose(c) \/ Approve(c) \/ Start(c) \/ Succeed(c) \/ Fail(c) \/ Close(c)
    \/ Lose

Spec == Init /\ [][Next]_phase

TypeOK == phase \in [Commands -> Phases]
=============================================================================
