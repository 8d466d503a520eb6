--------------------------- MODULE CommandGateway ---------------------------
(***************************************************************************)
(* The command gateway of pm_pal/server/command_gateway.py over the        *)
(* project domain: the worker thread of each command goes through the      *)
(* services in several transactions, beside the HTTP handlers and the      *)
(* other commands.  A command that failed may be run again; what it made   *)
(* before is found by the command_id in its metadata.  AgentCommands shows *)
(* that a command never runs twice at once nor after it succeeded, and     *)
(* that a run cut off by a crash is never resumed.                         *)
(***************************************************************************)
EXTENDS ProjectDomain

CONSTANTS
    Kinds,      \* the actions considered
    EvidenceBy  \* per command: the evidence connect_feishu creates for it

Actions == {"generate", "generate_prd", "prepare_delivery", "connect_feishu", "start_review"}

ASSUME CommandGatewayAssumption ==
    /\ Kinds \subseteq Actions /\ EvidenceBy \in [Commands -> Evidence]

VARIABLES
    kind,    \* per command: its action, or none: no such command
    thread,  \* per command: where its run is and what it has read
    hit,     \* the commands a fault hit in the middle of a run
    reviews  \* per command: reviews it started

gateway == <<kind, thread, hit, reviews>>
vars == <<domain, gateway>>

Idle(pc) == [pc |-> pc, seen |-> {}, id |-> 0]
Threads == [pc : {"new", "start", "insight", "opportunity", "submit", "create", "ready",
                  "export", "link", "end", "failed", "denied", "done", "lost"},
            seen : SUBSET Evidence, id : Nat]
Resting == {"new", "failed", "denied", "done", "lost"}

GInit ==
    /\ Init
    /\ kind \in [Commands -> Kinds \cup {"none"}]
    /\ thread = [c \in Commands |-> Idle("new")]
    /\ hit = {}
    /\ reviews = [c \in Commands |-> 0]

At(c, pc) == thread[c].pc = pc /\ Free(c)
Goto(c, t) == thread' = [thread EXCEPT ![c] = t]
Stop(c, pc) == Goto(c, Idle(pc))

Execute(c) ==
    /\ kind[c] # "none" /\ thread[c].pc \in {"new", "failed"}
    /\ Goto(c, Idle("start"))
    /\ UNCHANGED <<domain, kind, hit, reviews>>

(* A refusal of a service, or a missing precondition: the command fails. *)
Refuse(c) == Stop(c, "failed") /\ UNCHANGED <<domain, kind, hit, reviews>>
Proceed(c, t) == Goto(c, t) /\ UNCHANGED <<domain, kind, hit, reviews>>

Mine(rows, c) == {n \in DOMAIN rows : rows[n].cmd = c}

----------------------------------------------------------------------------
(* generate_insight and generate_opportunity: find or create the insight,   *)
(* then the candidate, and submit a candidate just created.                 *)
(* Mutant: a retry does not look for the insight it made before. *)
GenerateBeginFresh(c) ==
    /\ kind[c] = "generate" /\ At(c, "start")
    /\ IF Confirmed = {} THEN Refuse(c)
       ELSE Proceed(c, [pc |-> "insight", seen |-> Confirmed, id |-> 0])

GenerateBegin(c) ==
    /\ kind[c] = "generate" /\ At(c, "start")
    /\ IF Confirmed = {} THEN Refuse(c)
       ELSE IF Mine(insights, c) # {} THEN Proceed(c, Idle("opportunity"))
       ELSE Proceed(c, [pc |-> "insight", seen |-> Confirmed, id |-> 0])

GenerateInsight(c) ==
    /\ At(c, "insight")
    /\ IF Backing(thread[c].seen) = {} THEN Refuse(c)
       ELSE /\ CreateInsight(c, thread[c].seen, c)
            /\ Goto(c, Idle("opportunity"))
            /\ UNCHANGED <<kind, hit, reviews>>

GenerateOpportunity(c) ==
    /\ At(c, "opportunity")
    /\ IF Mine(opps, c) # {} THEN Proceed(c, Idle("end"))
       ELSE /\ CreateCandidate(c, Mine(insights, c), {}, c)
            /\ Goto(c, Idle("submit"))
            /\ UNCHANGED <<kind, hit, reviews>>

GenerateSubmit(c) ==
    /\ At(c, "submit")
    /\ \E o \in Mine(opps, c) :
          IF opps[o].status # "proposed" THEN Refuse(c)
          ELSE /\ SubmitForApproval(c, o)
               /\ Goto(c, Idle("end"))
               /\ UNCHANGED <<kind, hit, reviews>>

(* generate_prd: an approved opportunity (the code takes the one updated    *)
(* last), or the PRD of an earlier run of the command.                      *)
PrdBegin(c) ==
    LET approved == {o \in DOMAIN opps : opps[o].status = "approved"} IN
    /\ kind[c] = "generate_prd" /\ At(c, "start")
    /\ IF approved = {} THEN Refuse(c)
       ELSE IF Mine(prds, c) # {} THEN Proceed(c, Idle("end"))
       ELSE \E o \in approved : Proceed(c, [pc |-> "create", seen |-> {}, id |-> o])

PrdCreate(c) ==
    LET o == thread[c].id IN
    /\ At(c, "create")
    /\ IF opps[o].status # "approved" THEN Refuse(c)
       ELSE /\ CreatePrd(c, o, c)
            /\ Goto(c, Idle("end"))
            /\ UNCHANGED <<kind, hit, reviews>>

(* prepare_delivery: a PRD that is ready, or else one that is decided and   *)
(* is marked ready first (of several, the one updated last); the export.    *)
DeliveryBegin(c) ==
    LET Those(statuses) == {p \in DOMAIN prds : prds[p].status \in statuses}
        Take(pc, those) == \E p \in those : Proceed(c, [pc |-> pc, seen |-> {}, id |-> p])
    IN
    /\ kind[c] = "prepare_delivery" /\ At(c, "start")
    /\ IF Those({"ready_for_delivery"}) # {} THEN Take("export", Those({"ready_for_delivery"}))
       ELSE IF Those({"approved", "waived"}) # {} THEN Take("ready", Those({"approved", "waived"}))
       ELSE Refuse(c)

DeliveryReady(c) ==
    LET p == thread[c].id IN
    /\ At(c, "ready")
    /\ CASE prds[p].status = "ready_for_delivery" -> Proceed(c, [thread[c] EXCEPT !.pc = "export"])
         [] prds[p].status \in {"approved", "waived"} ->
               /\ MarkReady(c, p)
               /\ Goto(c, [thread[c] EXCEPT !.pc = "export"])
               /\ UNCHANGED <<kind, hit, reviews>>
         [] OTHER -> Refuse(c)

DeliveryExport(c) ==
    LET p == thread[c].id IN
    /\ At(c, "export")
    /\ IF prds[p].status # "ready_for_delivery" THEN Refuse(c)
       ELSE /\ Export(c, p, c)
            /\ Goto(c, Idle("end"))
            /\ UNCHANGED <<kind, hit, reviews>>

(* connect_feishu: the document is fetched, or not; source and evidence are *)
(* stored on the event loop, the evidence under an id made of the command's.*)
Connect(c) ==
    /\ kind[c] = "connect_feishu" /\ At(c, "start")
    /\ \/ Refuse(c)
       \/ /\ Free(Loop) /\ SyncEvidence(EvidenceBy[c])
          /\ Goto(c, Idle("end"))
          /\ UNCHANGED <<kind, hit, reviews>>

(* start_review: the chosen source may be gone or changed since the command *)
(* was confirmed; the review is enqueued, then linked to the project.       *)
ReviewBegin(c) ==
    /\ kind[c] = "start_review" /\ At(c, "start")
    /\ \/ Refuse(c)
       \/ Stop(c, "denied") /\ UNCHANGED <<domain, kind, hit, reviews>>
       \/ /\ Goto(c, Idle("link"))
          /\ reviews' = [reviews EXCEPT ![c] = @ + 1]
          /\ UNCHANGED <<domain, kind, hit>>

ReviewLink(c) ==
    /\ At(c, "link")
    /\ Proceed(c, Idle("end"))

End(c) == At(c, "end") /\ Proceed(c, Idle("done"))

----------------------------------------------------------------------------
(* The thread's pending transaction commits, or any statement of the run,   *)
(* or of the audit and trace writes behind a commit, raises.                *)
Commit(c) == Write(c) /\ UNCHANGED <<faults, gateway>>

RunRaises(c) ==
    /\ thread[c].pc \notin Resting
    /\ Raise(c)
    /\ Stop(c, "failed")
    /\ hit' = hit \cup {c}
    /\ UNCHANGED <<kind, reviews>>

GCrash ==
    /\ Crash
    /\ thread' = [c \in Commands |-> IF thread[c].pc \in Resting THEN thread[c] ELSE Idle("lost")]
    /\ UNCHANGED <<kind, hit, reviews>>

Run(c) ==
    \/ Execute(c)
    \/ GenerateBegin(c) \/ GenerateInsight(c) \/ GenerateOpportunity(c) \/ GenerateSubmit(c)
    \/ PrdBegin(c) \/ PrdCreate(c)
    \/ DeliveryBegin(c) \/ DeliveryReady(c) \/ DeliveryExport(c)
    \/ Connect(c) \/ ReviewBegin(c) \/ ReviewLink(c)
    \/ End(c) \/ Commit(c) \/ RunRaises(c)

GNext ==
    \/ Handlers /\ UNCHANGED gateway
    \/ \E c \in Commands : Run(c)
    \/ GCrash

GSpec == GInit /\ [][GNext]_vars

----------------------------------------------------------------------------
TypeOK ==
    /\ DomainTypeOK
    /\ kind \in [Commands -> Kinds \cup {"none"}]
    /\ thread \in [Commands -> Threads]
    /\ hit \in SUBSET Commands
    /\ reviews \in [Commands -> Nat]

(* However often a command is run again, and wherever the run before broke  *)
(* off, it leaves one insight, one opportunity and one PRD at most.          *)
(* Deliveries and reviews have no such mark: a command whose runs were only  *)
(* ever refused, never cut off by an error, leaves one of each still.        *)
CommandMakesOne ==
    \A c \in Commands :
        /\ Cardinality(Mine(insights, c)) <= 1
        /\ Cardinality(Mine(opps, c)) <= 1
        /\ Cardinality(Mine(prds, c)) <= 1
        /\ c \notin hit => /\ Cardinality({d \in deliveries : d.cmd = c}) <= 1
                          /\ reviews[c] <= 1

(* A completed generate command has put its opportunity before the owner,   *)
(* unless an error came between the candidate and its submission.           *)
CompletedIsSubmitted ==
    \A c \in Commands \ hit :
        kind[c] = "generate" /\ thread[c].pc = "done"
            => /\ Mine(opps, c) # {}
               /\ \A o \in Mine(opps, c) : opps[o].status # "proposed"

============================================================================
