--------------------------- MODULE ProjectDomain ---------------------------
(***************************************************************************)
(* The project domain of pm_pal/project_domain: evidence is confirmed,     *)
(* insights and opportunities are drawn from it, an approved opportunity   *)
(* gets a PRD, the PRD passes the quality gate or is waived, is marked     *)
(* ready and exported as a delivery.                                       *)
(*                                                                         *)
(* The services read a row, check it, and write the whole row back in a    *)
(* transaction of its own.  They are called by the HTTP handlers, one at a *)
(* time on the event loop, and by the worker threads of the command        *)
(* gateway beside it; POST .../assess alone suspends, for a whole review,  *)
(* between its read and its write.  call[w] is the write that process w    *)
(* has decided on.  Audit events and trace links follow each write in      *)
(* transactions nobody reads back: they are left out, their failure is a   *)
(* call that wrote its row and raised all the same.                        *)
(***************************************************************************)
EXTENDS Naturals, Sequences, FiniteSets

CONSTANTS
    Evidence,      \* evidence ids
    Loop,          \* the event loop, serving the HTTP handlers one at a time
    Commands,      \* gateway commands, each with a worker thread
    NoCommand,     \* the command of what an HTTP handler creates
    Assessors,     \* coroutines that may be assessing at the same time
    Reviews,       \* what a review of a PRD may find: high risks, findings
    MaxInsights, MaxOpps, MaxPrds, MaxSources,  \* bounds on the rows created
    MaxFaults      \* bound: crashes and statements that raise

ASSUME ProjectDomainAssumption ==
    /\ Loop \notin Commands /\ NoCommand \notin Commands
    /\ Reviews \subseteq [risky : BOOLEAN, findings : BOOLEAN]
    /\ MaxInsights \in Nat /\ MaxOpps \in Nat /\ MaxPrds \in Nat
    /\ MaxSources \in Nat /\ MaxFaults \in Nat

Procs == Commands \cup {Loop}

VARIABLES
    evidence,   \* per id: absent, open or confirmed
    insights,   \* pm_insight, in the order of insertion
    opps,       \* pm_opportunity
    prds,       \* pm_prd_version
        \* the numbers of the opps and prds, by updated_at DESC
    sources,    \* project_sources rows materialised from PRDs
    deliveries, \* pm_delivery; prd and cmd are its idempotency key
    call,       \* per process: the write it is about to make
    assess,     \* per assessor: the PRD version it has read, or 0
    hist,       \* what owners decided, whatever was written later
    faults

domain == <<evidence, insights, opps, prds, sources, deliveries, call, assess,
            hist, faults>>

Creators == Commands \cup {NoCommand}
Decided == {"approved", "waived", "ready_for_delivery"}
Decisions == {"", "pass", "needs_revision", "blocked"}

InsightRow == [refs : SUBSET Evidence, cmd : Creators]
OppRow == [status : {"proposed", "pending_approval", "approved", "rejected"},
           refs : SUBSET Evidence, cmd : Creators]
PrdRow == [status : {"draft", "quality_checked"} \cup Decided, decision : Decisions,
           truth : Decisions, opp : Nat, source : Nat, cmd : Creators]
DeliveryRow == [prd : Nat, cmd : Creators]

NoCall == [op |-> "none"]
Calls == {NoCall}
    \cup [op : {"insight"}, row : InsightRow]
    \cup [op : {"candidate"}, row : OppRow]
    \cup [op : {"transition"}, id : Nat, row : OppRow]
    \cup [op : {"source"}, opp : Nat, cmd : Creators]
    \cup [op : {"prd"}, row : PrdRow]
    \cup [op : {"status"}, id : Nat, row : PrdRow]
    \cup [op : {"export"}, row : DeliveryRow]

Init ==
    /\ evidence = [e \in Evidence |-> "absent"]
    /\ insights = <<>> /\ opps = <<>> /\ prds = <<>>
    /\ sources = 0 /\ deliveries = {}
    /\ call = [w \in Procs |-> NoCall]
    /\ assess = [a \in Assessors |-> 0]
    /\ hist = [approved |-> {}, passed |-> {}, waived |-> {}]
    /\ faults = 0

Free(w) == call[w] = NoCall
Pend(w, c) == call' = [call EXCEPT ![w] = c]


----------------------------------------------------------------------------
(* Evidence: ingestion (sync_evidence leaves a confirmed row as it is) and  *)
(* confirmation, which a later call may take back.                          *)
SyncEvidence(e) ==
    /\ evidence' = [evidence EXCEPT ![e] = IF @ = "absent" THEN "open" ELSE @]
    /\ UNCHANGED <<insights, opps, prds, sources, deliveries, call, assess, hist, faults>>

Ingest(e) == Free(Loop) /\ evidence[e] = "absent" /\ SyncEvidence(e)

ConfirmEvidence(e, confirmed) ==
    /\ Free(Loop) /\ evidence[e] # "absent"
    /\ evidence' = [evidence EXCEPT ![e] = IF confirmed THEN "confirmed" ELSE "open"]
    /\ UNCHANGED <<insights, opps, prds, sources, deliveries, call, assess, hist, faults>>

Confirmed == {e \in Evidence : evidence[e] = "confirmed"}

Backing(refs) == refs \cap Confirmed

CreateInsight(w, refs, c) ==
    /\ Free(w) /\ Backing(refs) # {}
    /\ Pend(w, [op |-> "insight", row |-> [refs |-> Backing(refs), cmd |-> c]])
    /\ UNCHANGED <<evidence, insights, opps, prds, sources, deliveries, assess, hist, faults>>

----------------------------------------------------------------------------
(* Opportunities. *)
EvidenceOf(ins, refs) ==
    {e \in refs \cup UNION {insights[i].refs : i \in ins} : evidence[e] # "absent"}

CreateCandidate(w, ins, refs, c) ==
    /\ Free(w) /\ EvidenceOf(ins, refs) # {}
    /\ Pend(w, [op |-> "candidate", row |-> [status |-> "proposed",
                                            refs |-> EvidenceOf(ins, refs), cmd |-> c]])
    /\ UNCHANGED <<evidence, insights, opps, prds, sources, deliveries, assess, hist, faults>>

Transition(w, o, status) ==
    /\ Free(w)
    /\ Pend(w, [op |-> "transition", id |-> o, row |-> [opps[o] EXCEPT !.status = status]])
    /\ UNCHANGED <<evidence, insights, opps, prds, sources, deliveries, assess, hist, faults>>

SubmitForApproval(w, o) == opps[o].status = "proposed" /\ Transition(w, o, "pending_approval")
ApproveOpp(o) == opps[o].status = "pending_approval" /\ Transition(Loop, o, "approved")
RejectOpp(o) == Transition(Loop, o, "rejected")

----------------------------------------------------------------------------
(* PRDs.  A PRD is created by an opportunity row that reads approved: the   *)
(* source row comes first, in a transaction of its own, then the PRD row.   *)
(* Mutant: a rejected opportunity is taken as well. *)
CreatePrdAny(w, o, c) ==
    /\ Free(w)
    /\ Pend(w, [op |-> "source", opp |-> o, cmd |-> c])
    /\ UNCHANGED <<evidence, insights, opps, prds, sources, deliveries, assess, hist, faults>>

CreatePrd(w, o, c) ==
    /\ Free(w) /\ opps[o].status = "approved"
    /\ Pend(w, [op |-> "source", opp |-> o, cmd |-> c])
    /\ UNCHANGED <<evidence, insights, opps, prds, sources, deliveries, assess, hist, faults>>

(* The quality gate: a high-risk ratio blocks, findings or clarification    *)
(* questions ask for a revision.  The kernel hands it a ReviewResultSummary,*)
(* which carries the ratio and neither findings nor questions.              *)
Decision(r) == IF r.risky THEN "blocked" ELSE IF r.findings THEN "needs_revision" ELSE "pass"
Summary(r) == [r EXCEPT !.findings = FALSE]

AssessBegin(a, p) ==
    /\ Free(Loop) /\ assess[a] = 0
    /\ prds[p].status \in {"draft", "quality_checked"}
    /\ assess' = [assess EXCEPT ![a] = p]
    /\ UNCHANGED <<evidence, insights, opps, prds, sources, deliveries, call, hist, faults>>

(* The review is over: the row read before it is written back with the      *)
(* decision, whatever the row holds by now.  The columns an assessment      *)
(* leaves alone are never written after the row's insertion.                *)
AssessEnd(a, r) ==
    LET p == assess[a] IN
    /\ Free(Loop) /\ p # 0
    /\ prds' = [prds EXCEPT ![p].status = "quality_checked",
                            ![p].decision = Decision(Summary(r)), ![p].truth = Decision(r)]
    /\ assess' = [assess EXCEPT ![a] = 0]
    /\ UNCHANGED <<evidence, insights, opps, sources, deliveries, call, hist, faults>>

AssessFails(a) ==
    /\ assess[a] # 0
    /\ assess' = [assess EXCEPT ![a] = 0]
    /\ UNCHANGED <<evidence, insights, opps, prds, sources, deliveries, call, hist, faults>>

SetStatus(w, p, status) ==
    /\ Free(w)
    /\ Pend(w, [op |-> "status", id |-> p, row |-> [prds[p] EXCEPT !.status = status]])
    /\ UNCHANGED <<evidence, insights, opps, prds, sources, deliveries, assess, hist, faults>>

ApprovePrd(p) ==
    /\ prds[p].status = "quality_checked" /\ prds[p].decision \in {"", "pass"}
    /\ SetStatus(Loop, p, "approved")

WaivePrd(p) == prds[p].status = "quality_checked" /\ SetStatus(Loop, p, "waived")

(* Mutant: a PRD the gate let pass may skip its owner. *)
MarkReadyChecked(w, p) ==
    /\ prds[p].status \in {"approved", "waived", "quality_checked"}
    /\ SetStatus(w, p, "ready_for_delivery")

MarkReady(w, p) ==
    prds[p].status \in {"approved", "waived"} /\ SetStatus(w, p, "ready_for_delivery")

Export(w, p, c) ==
    /\ Free(w) /\ prds[p].status = "ready_for_delivery"
    /\ Pend(w, [op |-> "export", row |-> [prd |-> p, cmd |-> c]])
    /\ UNCHANGED <<evidence, insights, opps, prds, sources, deliveries, assess, hist, faults>>

----------------------------------------------------------------------------
(* The transactions the calls end in. *)
InsertInsight(w) ==
    /\ call[w].op = "insight" /\ Len(insights) < MaxInsights
    /\ insights' = Append(insights, call[w].row)
    /\ Pend(w, NoCall)
    /\ UNCHANGED <<evidence, opps, prds, sources, deliveries, assess, hist>>

InsertOpp(w) ==
    /\ call[w].op = "candidate" /\ Len(opps) < MaxOpps
    /\ opps' = Append(opps, call[w].row)
    /\ Pend(w, NoCall)
    /\ UNCHANGED <<evidence, insights, prds, sources, deliveries, assess, hist>>

UpdateOpp(w) ==
    /\ call[w].op = "transition"
    /\ opps' = [opps EXCEPT ![call[w].id] = call[w].row]
    /\ hist' = [hist EXCEPT !.approved = IF call[w].row.status = "approved"
                                         THEN @ \cup {call[w].id} ELSE @]
    /\ Pend(w, NoCall)
    /\ UNCHANGED <<evidence, insights, prds, sources, deliveries, assess>>

(* _write_project_source; the PRD row comes next in the same call. *)
InsertSource(w) ==
    /\ call[w].op = "source" /\ sources < MaxSources
    /\ sources' = sources + 1
    /\ Pend(w, [op |-> "prd",
                row |-> [status |-> "draft", decision |-> "", truth |-> "",
                         opp |-> call[w].opp, source |-> sources + 1, cmd |-> call[w].cmd]])
    /\ UNCHANGED <<evidence, insights, opps, prds, deliveries, assess, hist>>

InsertPrd(w) ==
    /\ call[w].op = "prd" /\ Len(prds) < MaxPrds
    /\ prds' = Append(prds, call[w].row)
    /\ Pend(w, NoCall)
    /\ UNCHANGED <<evidence, insights, opps, sources, deliveries, assess, hist>>

(* Mutant: the UPDATE sets the status column only. *)
UpdateStatusOnly(w) ==
    LET p == call[w].id IN
    /\ call[w].op = "status"
    /\ prds' = [prds EXCEPT ![p].status = call[w].row.status]
    /\ hist' = [hist EXCEPT
                  !.passed = IF call[w].row.status = "approved" THEN @ \cup {p} ELSE @,
                  !.waived = IF call[w].row.status = "waived" THEN @ \cup {p} ELSE @]
    /\ Pend(w, NoCall)
    /\ UNCHANGED <<evidence, insights, opps, sources, deliveries, assess>>

UpdatePrd(w) ==
    LET p == call[w].id IN
    /\ call[w].op = "status"
    /\ prds' = [prds EXCEPT ![p] = call[w].row]
    /\ hist' = [hist EXCEPT
                  !.passed = IF call[w].row.status = "approved" THEN @ \cup {p} ELSE @,
                  !.waived = IF call[w].row.status = "waived" THEN @ \cup {p} ELSE @]
    /\ Pend(w, NoCall)
    /\ UNCHANGED <<evidence, insights, opps, sources, deliveries, assess>>

(* The delivery of a key that is taken is returned, not written again. *)
UpsertDelivery(w) ==
    /\ call[w].op = "export"
    /\ deliveries' = deliveries \cup {call[w].row}
    /\ Pend(w, NoCall)
    /\ UNCHANGED <<evidence, insights, opps, prds, sources, assess, hist>>

Write(w) ==
    \/ InsertInsight(w) \/ InsertOpp(w) \/ UpdateOpp(w)
    \/ InsertSource(w) \/ InsertPrd(w) \/ UpdatePrd(w) \/ UpsertDelivery(w)

(* A statement raises: the call is over.  An error after the row is written *)
(* changes no more rows, and is the caller's alone to notice.               *)
Raise(w) ==
    /\ faults < MaxFaults
    /\ faults' = faults + 1
    /\ Pend(w, NoCall)
    /\ UNCHANGED <<evidence, insights, opps, prds, sources, deliveries, assess, hist>>

(* The process dies: nothing but the rows is left. *)
Crash ==
    /\ faults < MaxFaults
    /\ faults' = faults + 1
    /\ call' = [w \in Procs |-> NoCall]
    /\ assess' = [a \in Assessors |-> 0]
    /\ UNCHANGED <<evidence, insights, opps, prds, sources, deliveries, hist>>

(* The HTTP handlers. *)
Handlers ==
    \/ \E e \in Evidence : Ingest(e) \/ \E b \in BOOLEAN : ConfirmEvidence(e, b)
    \/ \E refs \in SUBSET Evidence : CreateInsight(Loop, refs, NoCommand)
    \/ \E ins \in SUBSET DOMAIN insights, refs \in SUBSET Evidence :
          CreateCandidate(Loop, ins, refs, NoCommand)
    \/ \E o \in DOMAIN opps :
          SubmitForApproval(Loop, o) \/ ApproveOpp(o) \/ RejectOpp(o)
             \/ CreatePrd(Loop, o, NoCommand)
    \/ \E p \in DOMAIN prds :
          \/ ApprovePrd(p) \/ WaivePrd(p) \/ MarkReady(Loop, p) \/ Export(Loop, p, NoCommand)
          \/ \E a \in Assessors : AssessBegin(a, p)
    \/ \E a \in Assessors : AssessFails(a) \/ \E r \in Reviews : AssessEnd(a, r)
    \/ Write(Loop) /\ UNCHANGED faults
    \/ ~Free(Loop) /\ Raise(Loop)

----------------------------------------------------------------------------
DomainTypeOK ==
    /\ evidence \in [Evidence -> {"absent", "open", "confirmed"}]
    /\ insights \in Seq(InsightRow) /\ opps \in Seq(OppRow) /\ prds \in Seq(PrdRow)
    /\ sources \in Nat /\ deliveries \in SUBSET DeliveryRow
    /\ call \in [Procs -> Calls]
    /\ assess \in [Assessors -> Nat]
    /\ hist \in [approved : SUBSET Nat, passed : SUBSET Nat, waived : SUBSET Nat]
    /\ faults \in Nat

(* What is ready or delivered was approved or waived by an owner, and what  *)
(* was not waived passed the gate: with assessments ending late, rows       *)
(* written from stale reads by two threads, and calls that half happen.     *)
DeliveredIsDecided ==
    /\ \A d \in deliveries : d.prd \in hist.passed \cup hist.waived
    /\ \A p \in DOMAIN prds : prds[p].status \in Decided => p \in hist.passed \cup hist.waived

ApprovedPassed ==
    \A p \in DOMAIN prds :
        prds[p].status \in Decided /\ prds[p].decision # "pass" => p \in hist.waived

(* Every PRD goes back to an opportunity an owner approved, though a thread *)
(* may write an older copy of that opportunity, or its owner reject it,     *)
(* while the PRD is being written.                                          *)
PrdHasApprovedOpp ==
    \A p \in DOMAIN prds : prds[p].opp \in hist.approved

(* The gate: the last review of a PRD that is approved and was never waived *)
(* had neither high risks nor findings.  The code lets findings through.    *)
ApprovedHasNoFindings ==
    \A p \in DOMAIN prds :
        prds[p].status = "approved" /\ p \notin hist.waived => prds[p].truth = "pass"

(* "Cannot assess quality from status approved": no assessment takes a PRD  *)
(* back from its owner's decision.  One that began before the decision does.*)
DecisionStands ==
    [][\A p \in DOMAIN prds :
          prds[p].status \in Decided => prds'[p].status # "quality_checked"]_domain
============================================================================
