------------------------ MODULE CommandGateway_proofs ------------------------
(***************************************************************************)
(* What holds of the project domain under its HTTP handlers and the worker *)
(* threads of any number of gateway commands, wherever a call breaks off.  *)
(***************************************************************************)
EXTENDS CommandGateway, FiniteSetTheorems, SequenceTheorems, TLAPS

(* Who creates what a process inserts. *)
Maker(w) == IF w = Loop THEN NoCommand ELSE w

DecidedPrds == hist.passed \cup hist.waived

(* A PRD row, written or about to be: what it says of the owners' decisions *)
(* is so.                                                                   *)
Says(p, row, decided) ==
    /\ row.status \in Decided => p \in decided.passed \cup decided.waived
    /\ row.status \in Decided /\ row.decision # "pass" => p \in decided.waived
SaysTrue(p, row) == Says(p, row, hist)

RowsOK ==
    /\ \A o \in DOMAIN opps : opps[o].status = "approved" => o \in hist.approved
    /\ \A p \in DOMAIN prds :
          /\ SaysTrue(p, prds[p])
          /\ prds[p].status = "quality_checked" => prds[p].decision # ""
          /\ prds[p].opp \in hist.approved
    /\ \A d \in deliveries : d.prd \in DecidedPrds

(* What a call is about to write: the decision it carries is its own, or    *)
(* one that was taken.                                                      *)
CallOK(w) ==
    LET c == call[w] IN
    /\ c.op \in {"insight", "candidate", "prd", "export"} => c.row.cmd = Maker(w)
    /\ c.op = "transition" => c.id \in DOMAIN opps /\ c.row.cmd = opps[c.id].cmd
    /\ c.op = "source" => c.opp \in hist.approved /\ c.cmd = Maker(w)
    /\ c.op = "prd" => c.row.opp \in hist.approved /\ c.row.status = "draft"
    /\ c.op = "status" =>
          /\ c.id \in DOMAIN prds /\ c.row.cmd = prds[c.id].cmd
          /\ c.row.opp \in hist.approved
          /\ c.row.status \in Decided
          /\ c.row.status = "approved" => c.row.decision = "pass"
          /\ c.row.status = "ready_for_delivery" => SaysTrue(c.id, c.row)
    /\ c.op = "candidate" => c.row.status = "proposed"
    /\ c.op = "export" => c.row.prd \in DecidedPrds

CallsOK == \A w \in Procs : CallOK(w)

(* What a command has read is still there, and what it did not find before  *)
(* it began to create is not there until it has written it.                 *)
Sole(set) == \A i, j \in set : i = j
MineDelivered(c) == {d \in deliveries : d.cmd = c}

Pending(c) ==
    \/ call[c].op = "none"
    \/ call[c].op = "insight" /\ thread[c].pc = "opportunity" /\ Mine(insights, c) = {}
    \/ call[c].op = "candidate" /\ thread[c].pc = "submit" /\ Mine(opps, c) = {}
    \/ call[c].op = "transition" /\ thread[c].pc = "end"
    \/ call[c].op \in {"source", "prd"} /\ thread[c].pc = "end" /\ Mine(prds, c) = {}
    \/ call[c].op = "status" /\ thread[c].pc = "export"
    \/ /\ call[c].op = "export" /\ thread[c].pc = "end"
       /\ c \notin hit => MineDelivered(c) = {}

CommandOK(c) ==
    /\ Pending(c)
    /\ thread[c].pc = "insight" => Mine(insights, c) = {}
    /\ thread[c].pc = "create" => thread[c].id \in DOMAIN opps /\ Mine(prds, c) = {}
    /\ thread[c].pc \in {"ready", "export"} => thread[c].id \in DOMAIN prds

MadeOnce(c) ==
    /\ Sole(Mine(insights, c)) /\ Sole(Mine(opps, c)) /\ Sole(Mine(prds, c))
    /\ c \notin hit =>
          /\ Sole(MineDelivered(c))
          /\ MineDelivered(c) # {} => thread[c].pc \in {"end", "done", "lost"}
          /\ \/ reviews[c] = 0
             \/ reviews[c] = 1 /\ thread[c].pc \in {"link", "end", "done", "lost"}

CommandsOK == \A c \in Commands : CommandOK(c) /\ MadeOnce(c)

GatewayInv == TypeOK /\ RowsOK /\ CallsOK /\ CommandsOK

----------------------------------------------------------------------------
(* What is in a call. *)
LEMMA CallTypes ==
  ASSUME NEW c \in Calls
  PROVE  /\ c.op \in {"none", "insight", "candidate", "transition", "source", "prd", "status",
                      "export"}
         /\ c.op = "insight" => c.row \in InsightRow
         /\ c.op \in {"candidate", "transition"} => c.row \in OppRow
         /\ c.op \in {"prd", "status"} => c.row \in PrdRow
         /\ c.op = "export" => c.row \in DeliveryRow
         /\ c.op = "source" => c.opp \in Nat /\ c.cmd \in Creators
BY DEF Calls, NoCall

LEMMA CallForms ==
  /\ NoCall \in Calls /\ NoCall.op = "none"
  /\ \A row \in InsightRow : [op |-> "insight", row |-> row] \in Calls
  /\ \A row \in OppRow : [op |-> "candidate", row |-> row] \in Calls
  /\ \A row \in OppRow, o \in Nat : [op |-> "transition", id |-> o, row |-> row] \in Calls
  /\ \A c \in Creators, o \in Nat : [op |-> "source", opp |-> o, cmd |-> c] \in Calls
  /\ \A row \in PrdRow : [op |-> "prd", row |-> row] \in Calls
  /\ \A row \in PrdRow, p \in Nat : [op |-> "status", id |-> p, row |-> row] \in Calls
  /\ \A row \in DeliveryRow : [op |-> "export", row |-> row] \in Calls
BY DEF Calls, NoCall

(* A process is the event loop or a command, and creates under its own name. *)
LEMMA MakersDiffer ==
  /\ \A w \in Procs : Maker(w) \in Creators
  /\ \A w \in Procs, c \in Commands : w # c => Maker(w) # c
  /\ \A c \in Commands : Maker(c) = c /\ c \in Procs
  /\ Loop \in Procs /\ Maker(Loop) = NoCommand
BY ProjectDomainAssumption DEF Procs, Maker, Creators

(* The rows a creator made: a row is added at the end, and one that is      *)
(* updated keeps its creator.                                               *)
LEMMA MineAppend ==
  ASSUME NEW S, NEW rows \in Seq(S), NEW row \in S, NEW c
  PROVE  /\ Append(rows, row) \in Seq(S)
         /\ DOMAIN Append(rows, row) = DOMAIN rows \cup {Len(rows) + 1}
         /\ Append(rows, row)[Len(rows) + 1] = row
         /\ \A i \in DOMAIN rows : Append(rows, row)[i] = rows[i]
         /\ row.cmd # c => Mine(Append(rows, row), c) = Mine(rows, c)
         /\ Mine(rows, c) = {} => Sole(Mine(Append(rows, row), c))
<1>1. /\ Append(rows, row) \in Seq(S)
      /\ DOMAIN Append(rows, row) = DOMAIN rows \cup {Len(rows) + 1}
      /\ Append(rows, row)[Len(rows) + 1] = row
      /\ \A i \in DOMAIN rows : Append(rows, row)[i] = rows[i]
  BY AppendProperties
<1> DEFINE more == Append(rows, row)
<1> HIDE DEF more
<1>2. row.cmd # c => Mine(more, c) = Mine(rows, c)
  BY <1>1 DEF Mine, more
<1>3. Mine(rows, c) = {} => Mine(more, c) \subseteq {Len(rows) + 1}
  BY <1>1 DEF Mine, more
<1> QED BY <1>1, <1>2, <1>3 DEF Sole, more

LEMMA MineExcept ==
  ASSUME NEW S, NEW rows \in Seq(S), NEW i \in DOMAIN rows, NEW row \in S,
         row.cmd = rows[i].cmd
  PROVE  /\ [rows EXCEPT ![i] = row] \in Seq(S)
         /\ DOMAIN [rows EXCEPT ![i] = row] = DOMAIN rows
         /\ \A c : Mine([rows EXCEPT ![i] = row], c) = Mine(rows, c)
<1>1. /\ [rows EXCEPT ![i] = row] \in Seq(S)
      /\ DOMAIN [rows EXCEPT ![i] = row] = DOMAIN rows
  BY ExceptSeq
<1> QED BY <1>1 DEF Mine

----------------------------------------------------------------------------
(* What leaves a command, its call and its rows alone leaves it as it was. *)
LEMMA CommandsStay ==
  ASSUME NEW d \in Commands, CommandOK(d), MadeOnce(d),
         thread'[d] = thread[d], call'[d] = call[d], reviews'[d] = reviews[d],
         Mine(insights', d) = Mine(insights, d), Mine(opps', d) = Mine(opps, d),
         Mine(prds', d) = Mine(prds, d), MineDelivered(d)' = MineDelivered(d),
         d \in hit <=> d \in hit',
         DOMAIN opps \subseteq DOMAIN opps', DOMAIN prds \subseteq DOMAIN prds'
  PROVE  CommandOK(d)' /\ MadeOnce(d)'
<1>1. Pending(d)'
  BY DEF CommandOK, Pending
<1>2. CommandOK(d)'
  BY <1>1 DEF CommandOK
<1>3. MadeOnce(d)'
  BY DEF MadeOnce, Sole
<1> QED BY <1>2, <1>3

(* So does a call's leave the other calls: what was decided stays decided,  *)
(* and no row loses its creator.                                            *)
LEMMA CallsStay ==
  ASSUME NEW w \in Procs, CallOK(w), call'[w] = call[w],
         hist.approved \subseteq hist'.approved, hist.passed \subseteq hist'.passed,
         hist.waived \subseteq hist'.waived,
         \A o \in DOMAIN opps : o \in DOMAIN opps' /\ opps'[o].cmd = opps[o].cmd,
         \A p \in DOMAIN prds : p \in DOMAIN prds' /\ prds'[p].cmd = prds[p].cmd
  PROVE  CallOK(w)'
BY DEF CallOK, SaysTrue, Says, DecidedPrds

(* One process turns to another call: the tables are as they were. *)
LEMMA PendKeepsRows ==
  ASSUME TypeOK, RowsOK, CallsOK, NEW w \in Procs, NEW now \in Calls,
         call' = [call EXCEPT ![w] = now],
         UNCHANGED <<insights, opps, prds, sources, deliveries, hist>>,
         CallOK(w)'
  PROVE  /\ RowsOK' /\ CallsOK' /\ call' \in [Procs -> Calls]
<1>1. RowsOK'
  BY DEF RowsOK, SaysTrue, Says, DecidedPrds
<1>2. call \in [Procs -> Calls]
  BY DEF TypeOK, DomainTypeOK
<1>3. ASSUME NEW v \in Procs
      PROVE  CallOK(v)'
  <2>1. CASE v = w
    BY <2>1
  <2>2. CASE v # w
    <3>1. call'[v] = call[v] /\ CallOK(v)
      BY <1>2, <2>2 DEF CallsOK
    <3> QED BY <3>1, CallsStay
  <2> QED BY <2>1, <2>2
<1> QED BY <1>1, <1>2, <1>3 DEF CallsOK

(* A handler turns to a call, or from one, and the commands do nothing. *)
LEMMA LoopPends ==
  ASSUME GatewayInv, NEW now \in Calls, call' = [call EXCEPT ![Loop] = now],
         UNCHANGED <<evidence, insights, opps, prds, sources, deliveries, assess, hist, gateway>>,
         faults' \in Nat, CallOK(Loop)'
  PROVE  GatewayInv'
<1>1. RowsOK' /\ CallsOK' /\ call' \in [Procs -> Calls]
  BY PendKeepsRows, MakersDiffer DEF GatewayInv
<1>2. TypeOK'
  BY <1>1 DEF GatewayInv, TypeOK, DomainTypeOK, gateway
<1>3. ASSUME NEW d \in Commands
      PROVE  CommandOK(d)' /\ MadeOnce(d)'
  <2>1. CommandOK(d) /\ MadeOnce(d) /\ call'[d] = call[d]
    BY ProjectDomainAssumption, MakersDiffer
       DEF GatewayInv, CommandsOK, TypeOK, DomainTypeOK
  <2> QED BY <2>1, CommandsStay DEF gateway, MineDelivered
<1> QED BY <1>1, <1>2, <1>3 DEF GatewayInv, CommandsOK

(* A command goes on, with a call to make or without. *)
LEMMA CommandMoves ==
  ASSUME GatewayInv, NEW c \in Commands, NEW t \in Threads, NEW now \in Calls, NEW n \in Nat,
         thread' = [thread EXCEPT ![c] = t], call' = [call EXCEPT ![c] = now],
         reviews' = [reviews EXCEPT ![c] = n],
         UNCHANGED <<insights, opps, prds, sources, deliveries, assess, hist, kind>>,
         evidence' \in [Evidence -> {"absent", "open", "confirmed"}], faults' \in Nat,
         hit' = hit \/ hit' = hit \cup {c},
         CallOK(c)', CommandOK(c)', MadeOnce(c)'
  PROVE  GatewayInv'
<1>1. RowsOK' /\ CallsOK' /\ call' \in [Procs -> Calls]
  BY PendKeepsRows, MakersDiffer DEF GatewayInv
<1>2. TypeOK'
  <2>1. /\ thread' \in [Commands -> Threads] /\ reviews' \in [Commands -> Nat]
        /\ hit' \in SUBSET Commands
    BY DEF GatewayInv, TypeOK
  <2> QED BY <1>1, <2>1 DEF GatewayInv, TypeOK, DomainTypeOK
<1>3. ASSUME NEW d \in Commands
      PROVE  CommandOK(d)' /\ MadeOnce(d)'
  <2>1. CASE d = c
    BY <2>1
  <2>2. CASE d # c
    <3>1. /\ CommandOK(d) /\ MadeOnce(d) /\ call'[d] = call[d] /\ thread'[d] = thread[d]
          /\ reviews'[d] = reviews[d] /\ d \in hit <=> d \in hit'
      BY <2>2, MakersDiffer DEF GatewayInv, CommandsOK, TypeOK, DomainTypeOK
    <3> QED BY <3>1, CommandsStay DEF MineDelivered
  <2> QED BY <2>1, <2>2
<1> QED BY <1>1, <1>2, <1>3 DEF GatewayInv, CommandsOK

(* It goes on without one. *)
LEMMA CommandProceeds ==
  ASSUME GatewayInv, NEW c \in Commands, NEW t \in Threads, NEW n \in Nat, Free(c),
         thread' = [thread EXCEPT ![c] = t], reviews' = [reviews EXCEPT ![c] = n],
         UNCHANGED <<insights, opps, prds, sources, deliveries, call, assess, hist, faults, kind,
                     hit>>,
         evidence' \in [Evidence -> {"absent", "open", "confirmed"}],
         t.pc = "insight" => Mine(insights, c) = {},
         t.pc = "create" => t.id \in DOMAIN opps /\ Mine(prds, c) = {},
         t.pc \in {"ready", "export"} => t.id \in DOMAIN prds,
         c \notin hit =>
            /\ MineDelivered(c) # {} => t.pc \in {"end", "done", "lost"}
            /\ n = 0 \/ (n = 1 /\ t.pc \in {"link", "end", "done", "lost"})
  PROVE  GatewayInv'
<1>1. /\ call' = [call EXCEPT ![c] = NoCall] /\ call'[c] = NoCall /\ NoCall.op = "none"
      /\ NoCall \in Calls /\ thread'[c] = t /\ reviews'[c] = n
  BY MakersDiffer, CallForms DEF GatewayInv, TypeOK, DomainTypeOK, Free
<1>2. CallOK(c)'
  BY <1>1 DEF CallOK
<1>3. CommandOK(c)'
  BY <1>1 DEF CommandOK, Pending
<1>4. MadeOnce(c)'
  <2>1. MadeOnce(c)
    BY DEF GatewayInv, CommandsOK
  <2> QED BY <1>1, <2>1 DEF MadeOnce, MineDelivered
<1>5. faults' \in Nat
  BY DEF GatewayInv, TypeOK, DomainTypeOK
<1> QED BY <1>1, <1>2, <1>3, <1>4, <1>5, CommandMoves

----------------------------------------------------------------------------
(* The services: what each of them is about to write. *)
Tables == <<evidence, insights, opps, prds, sources, deliveries, assess, hist, faults>>

Turns(w, now) ==
    /\ now \in Calls /\ call' = [call EXCEPT ![w] = now] /\ call'[w] = now
    /\ UNCHANGED Tables

LEMMA CreateInsightPends ==
  ASSUME GatewayInv, NEW w \in Procs, NEW refs \in SUBSET Evidence,
         CreateInsight(w, refs, Maker(w))
  PROVE  Free(w) /\ \E now : Turns(w, now) /\ now.op = "insight" /\ CallOK(w)'
<1> DEFINE row == [refs |-> Backing(refs), cmd |-> Maker(w)]
           now == [op |-> "insight", row |-> row]
<1>1. row \in InsightRow
  BY MakersDiffer DEF InsightRow, Backing, Confirmed
<1>2. Turns(w, now)
  BY <1>1, CallForms DEF CreateInsight, Pend, Turns, Tables, GatewayInv, TypeOK, DomainTypeOK
<1>3. CallOK(w)'
  BY <1>2 DEF CallOK, Turns
<1> QED BY <1>2, <1>3 DEF CreateInsight

LEMMA CreateCandidatePends ==
  ASSUME GatewayInv, NEW w \in Procs, NEW ins \in SUBSET DOMAIN insights,
         NEW refs \in SUBSET Evidence, CreateCandidate(w, ins, refs, Maker(w))
  PROVE  Free(w) /\ \E now : Turns(w, now) /\ now.op = "candidate" /\ CallOK(w)'
<1> DEFINE row == [status |-> "proposed", refs |-> EvidenceOf(ins, refs), cmd |-> Maker(w)]
           now == [op |-> "candidate", row |-> row]
<1>1. EvidenceOf(ins, refs) \in SUBSET Evidence
  <2>1. \A n \in DOMAIN insights : insights[n].refs \in SUBSET Evidence
    <3>1. insights \in Seq(InsightRow)
      BY DEF GatewayInv, TypeOK, DomainTypeOK
    <3>2. \A n \in DOMAIN insights : insights[n] \in InsightRow
      BY <3>1
    <3> QED BY <3>2 DEF InsightRow
  <2> QED BY <2>1 DEF EvidenceOf
<1>2. row \in OppRow
  BY <1>1, MakersDiffer DEF OppRow
<1>3. Turns(w, now)
  BY <1>2, CallForms DEF CreateCandidate, Pend, Turns, Tables, GatewayInv, TypeOK, DomainTypeOK
<1>4. CallOK(w)'
  BY <1>3 DEF CallOK, Turns
<1> QED BY <1>3, <1>4 DEF CreateCandidate

LEMMA TransitionPends ==
  ASSUME GatewayInv, NEW w \in Procs, NEW o \in DOMAIN opps,
         NEW status \in {"pending_approval", "approved", "rejected"}, Transition(w, o, status)
  PROVE  Free(w) /\ \E now : Turns(w, now) /\ now.op = "transition" /\ CallOK(w)'
<1> DEFINE row == [opps[o] EXCEPT !.status = status]
           now == [op |-> "transition", id |-> o, row |-> row]
<1>1. o \in Nat /\ opps[o] \in OppRow
  BY DEF GatewayInv, TypeOK, DomainTypeOK
<1>2. row \in OppRow /\ row.cmd = opps[o].cmd
  BY <1>1 DEF OppRow
<1>3. Turns(w, now)
  BY <1>1, <1>2, CallForms DEF Transition, Pend, Turns, Tables, GatewayInv, TypeOK, DomainTypeOK
<1>4. CallOK(w)'
  <2> HIDE DEF row
  <2> QED BY <1>2, <1>3 DEF CallOK, Turns, Tables
<1> QED BY <1>3, <1>4 DEF Transition

LEMMA CreatePrdPends ==
  ASSUME GatewayInv, NEW w \in Procs, NEW o \in DOMAIN opps, CreatePrd(w, o, Maker(w))
  PROVE  Free(w) /\ \E now : Turns(w, now) /\ now.op = "source" /\ CallOK(w)'
<1> DEFINE now == [op |-> "source", opp |-> o, cmd |-> Maker(w)]
<1>1. o \in Nat /\ o \in hist.approved
  BY DEF GatewayInv, TypeOK, DomainTypeOK, RowsOK, CreatePrd
<1>2. Turns(w, now)
  BY <1>1, CallForms, MakersDiffer
     DEF CreatePrd, Pend, Turns, Tables, GatewayInv, TypeOK, DomainTypeOK
<1>3. CallOK(w)'
  BY <1>1, <1>2 DEF CallOK, Turns, Tables
<1> QED BY <1>2, <1>3 DEF CreatePrd

LEMMA SetStatusPends ==
  ASSUME GatewayInv, NEW w \in Procs, NEW p \in DOMAIN prds,
         \/ ApprovePrd(p) /\ w = Loop
         \/ WaivePrd(p) /\ w = Loop
         \/ MarkReady(w, p)
  PROVE  Free(w) /\ \E now : Turns(w, now) /\ now.op = "status" /\ CallOK(w)'
<1>1. PICK status \in Decided :
        /\ SetStatus(w, p, status)
        /\ status = "approved" => prds[p].status = "quality_checked" /\ prds[p].decision \in {"", "pass"}
        /\ status = "ready_for_delivery" => prds[p].status \in {"approved", "waived"}
  BY DEF ApprovePrd, WaivePrd, MarkReady, Decided
<1> DEFINE row == [prds[p] EXCEPT !.status = status]
           now == [op |-> "status", id |-> p, row |-> row]
<1>2. p \in Nat /\ prds[p] \in PrdRow
  BY DEF GatewayInv, TypeOK, DomainTypeOK
<1>3. /\ row \in PrdRow /\ row.cmd = prds[p].cmd /\ row.opp = prds[p].opp
      /\ row.status = status /\ row.decision = prds[p].decision
  BY <1>2 DEF PrdRow
<1>4. Free(w) /\ Turns(w, now)
  BY <1>1, <1>2, <1>3, CallForms
     DEF SetStatus, Pend, Turns, Tables, GatewayInv, TypeOK, DomainTypeOK
<1>5. /\ prds[p].opp \in hist.approved
      /\ status = "approved" => row.decision = "pass"
      /\ status = "ready_for_delivery" => SaysTrue(p, row)
  <2>1. /\ SaysTrue(p, prds[p]) /\ prds[p].opp \in hist.approved
        /\ prds[p].status = "quality_checked" => prds[p].decision # ""
    BY DEF GatewayInv, RowsOK
  <2> QED BY <1>1, <1>3, <2>1 DEF SaysTrue, Says, Decided
<1>6. CallOK(w)'
  <2>1. /\ now.op = "status" /\ now.id = p /\ now.row = row
        /\ hist' = hist /\ prds' = prds /\ call'[w] = now
    BY <1>4 DEF Turns, Tables
  <2>2. SaysTrue(p, row) => Says(p, row, hist')
    BY <2>1 DEF SaysTrue
  <2> HIDE DEF row, now
  <2> QED BY <1>3, <1>5, <2>1, <2>2 DEF CallOK, SaysTrue, DecidedPrds
<1> QED BY <1>4, <1>6

LEMMA ExportPends ==
  ASSUME GatewayInv, NEW w \in Procs, NEW p \in DOMAIN prds, Export(w, p, Maker(w))
  PROVE  Free(w) /\ \E now : Turns(w, now) /\ now.op = "export" /\ CallOK(w)'
<1> DEFINE row == [prd |-> p, cmd |-> Maker(w)]
           now == [op |-> "export", row |-> row]
<1>1. p \in Nat /\ p \in DecidedPrds
  <2>1. p \in Nat
    BY DEF GatewayInv, TypeOK, DomainTypeOK
  <2>2. prds[p].status \in Decided /\ SaysTrue(p, prds[p])
    BY DEF GatewayInv, RowsOK, Export, Decided
  <2> QED BY <2>1, <2>2 DEF SaysTrue, Says, DecidedPrds
<1>2. row \in DeliveryRow
  BY <1>1, MakersDiffer DEF DeliveryRow
<1>3. Turns(w, now)
  BY <1>2, CallForms DEF Export, Pend, Turns, Tables, GatewayInv, TypeOK, DomainTypeOK
<1>4. CallOK(w)'
  BY <1>1, <1>3 DEF CallOK, Turns, Tables, DecidedPrds
<1> QED BY <1>3, <1>4 DEF Export

(* A PRD row is written again: no row loses its creator or its opportunity, *)
(* and what a row says of the owners is so.                                 *)
LEMMA PrdRowsWritten ==
  ASSUME RowsOK, NEW p \in DOMAIN prds, NEW row \in PrdRow, prds \in Seq(PrdRow),
         prds' = [prds EXCEPT ![p] = row],
         UNCHANGED <<opps, deliveries>>, hist'.approved = hist.approved,
         hist.passed \subseteq hist'.passed, hist.waived \subseteq hist'.waived,
         Says(p, row, hist'), row.opp \in hist.approved,
         row.status = "quality_checked" => row.decision # ""
  PROVE  RowsOK'
<1>1. /\ DOMAIN prds' = DOMAIN prds /\ prds'[p] = row
      /\ \A q \in DOMAIN prds \ {p} : prds'[q] = prds[q]
  OBVIOUS
<1>2. ASSUME NEW q \in DOMAIN prds
      PROVE  /\ Says(q, prds'[q], hist')
             /\ prds'[q].status = "quality_checked" => prds'[q].decision # ""
             /\ prds'[q].opp \in hist'.approved
  <2>1. CASE q = p
    BY <1>1, <2>1
  <2>2. CASE q # p
    <3>1. /\ Says(q, prds[q], hist) /\ prds[q].opp \in hist.approved
          /\ prds[q].status = "quality_checked" => prds[q].decision # ""
      BY DEF RowsOK, SaysTrue
    <3> QED BY <1>1, <2>2, <3>1 DEF Says
  <2> QED BY <2>1, <2>2
<1> QED BY <1>1, <1>2 DEF RowsOK, DecidedPrds, SaysTrue

(* The reviews: one that ends writes what the gate says, and takes no       *)
(* decision of an owner for its own.                                        *)
LEMMA AssessKeepsInv ==
  ASSUME GatewayInv, NEW a \in Assessors, UNCHANGED gateway,
         \/ \E p \in DOMAIN prds : AssessBegin(a, p)
         \/ AssessFails(a)
         \/ \E r \in Reviews : AssessEnd(a, r)
  PROVE  GatewayInv'
<1>0. /\ UNCHANGED <<evidence, insights, opps, sources, deliveries, call, hist, faults>>
      /\ UNCHANGED <<kind, thread, hit, reviews>>
  BY DEF AssessBegin, AssessFails, AssessEnd, gateway
<1>1. prds \in Seq(PrdRow) /\ assess \in [Assessors -> Nat]
  BY DEF GatewayInv, TypeOK, DomainTypeOK
<1>2. assess' \in [Assessors -> Nat]
  <2>1. DOMAIN prds \subseteq Nat
    BY <1>1
  <2>2. PICK n \in Nat : assess' = [assess EXCEPT ![a] = n]
    BY <2>1 DEF AssessBegin, AssessFails, AssessEnd
  <2> QED BY <1>1, <2>2
<1>3. ASSUME prds' \in Seq(PrdRow), RowsOK', DOMAIN prds' = DOMAIN prds,
             \A c : Mine(prds', c) = Mine(prds, c),
             \A p \in DOMAIN prds : prds'[p].cmd = prds[p].cmd
      PROVE  GatewayInv'
  <2>1. TypeOK'
    BY <1>0, <1>2, <1>3 DEF GatewayInv, TypeOK, DomainTypeOK
  <2>2. CallsOK'
    <3>1. \A w \in Procs : CallOK(w)
      BY DEF GatewayInv, CallsOK
    <3> QED BY <1>0, <1>3, <3>1, CallsStay DEF CallsOK
  <2>3. CommandsOK'
    <3>1. \A d \in Commands : CommandOK(d) /\ MadeOnce(d)
      BY DEF GatewayInv, CommandsOK
    <3> QED BY <1>0, <1>3, <3>1, CommandsStay DEF CommandsOK, MineDelivered
  <2> QED BY <1>3, <2>1, <2>2, <2>3 DEF GatewayInv
<1>4. CASE prds' = prds
  <2>1. RowsOK'
    BY <1>0, <1>4 DEF GatewayInv, RowsOK, SaysTrue, DecidedPrds
  <2> QED BY <1>1, <1>3, <1>4, <2>1
<1>5. ASSUME NEW r \in Reviews, AssessEnd(a, r), assess[a] \in DOMAIN prds
      PROVE  GatewayInv'
  <2> DEFINE p == assess[a]
             row == [[[prds[p] EXCEPT !.status = "quality_checked"]
                        EXCEPT !.decision = Decision(Summary(r))] EXCEPT !.truth = Decision(r)]
  <2>1. prds' = [prds EXCEPT ![p] = row]
    BY <1>1, <1>5 DEF AssessEnd
  <2>2. /\ Decision(Summary(r)) \in Decisions \ {""} /\ Decision(r) \in Decisions
        /\ prds[p] \in PrdRow
    BY <1>1, <1>5 DEF Decision, Decisions
  <2>3. /\ row \in PrdRow /\ row.status = "quality_checked" /\ row.decision # ""
        /\ row.opp = prds[p].opp /\ row.cmd = prds[p].cmd
    BY <2>2 DEF PrdRow
  <2>4. row.opp \in hist.approved
    BY <1>5, <2>3 DEF GatewayInv, RowsOK
  <2> HIDE DEF row
  <2>5. Says(p, row, hist')
    BY <2>3 DEF Says, Decided
  <2> HIDE DEF p
  <2>6. RowsOK'
    <3>1. p \in DOMAIN prds /\ RowsOK
      BY <1>5 DEF GatewayInv, p
    <3> QED BY <1>0, <1>1, <3>1, <2>1, <2>3, <2>4, <2>5, PrdRowsWritten
  <2>7. /\ prds' \in Seq(PrdRow) /\ DOMAIN prds' = DOMAIN prds
        /\ \A c : Mine(prds', c) = Mine(prds, c)
    <3>1. p \in DOMAIN prds
      BY <1>5 DEF p
    <3>2. row \in PrdRow /\ row.cmd = prds[p].cmd
      BY <2>3
    <3>3. /\ [prds EXCEPT ![p] = row] \in Seq(PrdRow)
          /\ DOMAIN [prds EXCEPT ![p] = row] = DOMAIN prds
          /\ \A c : Mine([prds EXCEPT ![p] = row], c) = Mine(prds, c)
      BY <1>1, <3>1, <3>2, MineExcept
    <3> QED BY <2>1, <3>3
  <2>8. \A q \in DOMAIN prds : prds'[q].cmd = prds[q].cmd
    BY <1>1, <2>1, <2>3
  <2> QED BY <1>3, <2>6, <2>7, <2>8
<1>6. ASSUME NEW r \in Reviews, AssessEnd(a, r), assess[a] \notin DOMAIN prds
      PROVE  prds' = prds
  BY <1>1, <1>6 DEF AssessEnd
<1> QED BY <1>4, <1>5, <1>6 DEF AssessBegin, AssessFails

----------------------------------------------------------------------------
(* The transactions.  Whatever a process writes, the rows of the commands   *)
(* that did not make them, and what the others have read, are as before.    *)
LEMMA WriteKeepsInv ==
  ASSUME GatewayInv, NEW w \in Procs, NEW now \in Calls, call' = [call EXCEPT ![w] = now],
         UNCHANGED <<evidence, assess, faults, gateway>>,
         insights' \in Seq(InsightRow), opps' \in Seq(OppRow), prds' \in Seq(PrdRow),
         sources' \in Nat, deliveries' \in SUBSET DeliveryRow,
         hist' \in [approved : SUBSET Nat, passed : SUBSET Nat, waived : SUBSET Nat],
         hist.approved \subseteq hist'.approved, hist.passed \subseteq hist'.passed,
         hist.waived \subseteq hist'.waived,
         \A o \in DOMAIN opps : o \in DOMAIN opps' /\ opps'[o].cmd = opps[o].cmd,
         \A p \in DOMAIN prds : p \in DOMAIN prds' /\ prds'[p].cmd = prds[p].cmd,
         RowsOK', CallOK(w)',
         \A d \in Commands : d # Maker(w) =>
            /\ Mine(insights', d) = Mine(insights, d) /\ Mine(opps', d) = Mine(opps, d)
            /\ Mine(prds', d) = Mine(prds, d) /\ MineDelivered(d)' = MineDelivered(d),
         w \in Commands => CommandOK(w)' /\ MadeOnce(w)'
  PROVE  GatewayInv'
<1>1. call \in [Procs -> Calls]
  BY DEF GatewayInv, TypeOK, DomainTypeOK
<1>2. TypeOK'
  BY <1>1 DEF GatewayInv, TypeOK, DomainTypeOK, gateway
<1>3. ASSUME NEW v \in Procs
      PROVE  CallOK(v)'
  <2>1. CASE v = w
    BY <2>1
  <2>2. CASE v # w
    <3>1. call'[v] = call[v] /\ CallOK(v)
      BY <1>1, <2>2 DEF GatewayInv, CallsOK
    <3> QED BY <3>1, CallsStay
  <2> QED BY <2>1, <2>2
<1>4. ASSUME NEW d \in Commands
      PROVE  CommandOK(d)' /\ MadeOnce(d)'
  <2>1. CASE d = w
    BY <2>1
  <2>2. CASE d # w
    <3>1. /\ CommandOK(d) /\ MadeOnce(d) /\ call'[d] = call[d] /\ d # Maker(w)
          /\ UNCHANGED <<thread, reviews, hit>>
      BY <1>1, <2>2, MakersDiffer DEF GatewayInv, CommandsOK, gateway
    <3>2. DOMAIN opps \subseteq DOMAIN opps' /\ DOMAIN prds \subseteq DOMAIN prds'
      OBVIOUS
    <3> QED BY <3>1, <3>2, CommandsStay
  <2> QED BY <2>1, <2>2
<1> QED BY <1>2, <1>3, <1>4 DEF GatewayInv, CallsOK, CommandsOK

(* What a command has just written it writes no more. *)
LEMMA NoCallOK ==
  ASSUME NEW w \in Procs, call'[w] = NoCall
  PROVE  CallOK(w)' /\ (w \in Commands => Pending(w)')
BY DEF CallOK, Pending, NoCall

LEMMA InsertInsightKeepsInv ==
  ASSUME GatewayInv, NEW w \in Procs, InsertInsight(w), UNCHANGED <<faults, gateway>>
  PROVE  GatewayInv'
<1> DEFINE row == call[w].row
<1>1. /\ call \in [Procs -> Calls] /\ insights \in Seq(InsightRow)
      /\ opps \in Seq(OppRow) /\ prds \in Seq(PrdRow)
  BY DEF GatewayInv, TypeOK, DomainTypeOK
<1>2. /\ call[w].op = "insight" /\ insights' = Append(insights, row)
      /\ call' = [call EXCEPT ![w] = NoCall] /\ call'[w] = NoCall /\ NoCall \in Calls
      /\ UNCHANGED <<evidence, opps, prds, sources, deliveries, assess, hist, faults, gateway>>
  BY <1>1, CallForms DEF InsertInsight, Pend
<1>3. row \in InsightRow /\ row.cmd = Maker(w)
  BY <1>1, <1>2, CallTypes DEF GatewayInv, CallsOK, CallOK
<1> HIDE DEF row
<1>4. /\ insights' \in Seq(InsightRow)
      /\ \A d \in Commands : d # Maker(w) => Mine(insights', d) = Mine(insights, d)
      /\ \A d : Mine(insights, d) = {} => Sole(Mine(insights', d))
  BY <1>1, <1>2, <1>3, MineAppend
<1>5. RowsOK'
  BY <1>2 DEF GatewayInv, RowsOK, SaysTrue, DecidedPrds
<1>6. ASSUME w \in Commands
      PROVE  CommandOK(w)' /\ MadeOnce(w)'
  <2>1. CommandOK(w) /\ MadeOnce(w) /\ thread[w].pc = "opportunity" /\ Mine(insights, w) = {}
    BY <1>2, <1>6 DEF GatewayInv, CommandsOK, CommandOK, Pending
  <2>2. CommandOK(w)'
    BY <1>2, <1>6, <2>1, NoCallOK DEF CommandOK, gateway
  <2>3. MadeOnce(w)'
    BY <1>2, <1>4, <2>1 DEF MadeOnce, gateway, MineDelivered
  <2> QED BY <2>2, <2>3
<1>7. /\ opps' \in Seq(OppRow) /\ prds' \in Seq(PrdRow) /\ sources' \in Nat
      /\ deliveries' \in SUBSET DeliveryRow
      /\ hist' \in [approved : SUBSET Nat, passed : SUBSET Nat, waived : SUBSET Nat]
  BY <1>2 DEF GatewayInv, TypeOK, DomainTypeOK
<1>8. CallOK(w)'
  BY <1>2, NoCallOK
<1> QED BY <1>2, <1>4, <1>5, <1>6, <1>7, <1>8, WriteKeepsInv DEF MineDelivered

LEMMA InsertOppKeepsInv ==
  ASSUME GatewayInv, NEW w \in Procs, InsertOpp(w), UNCHANGED <<faults, gateway>>
  PROVE  GatewayInv'
<1> DEFINE row == call[w].row
<1>1. /\ call \in [Procs -> Calls] /\ opps \in Seq(OppRow)
      /\ insights \in Seq(InsightRow) /\ prds \in Seq(PrdRow)
  BY DEF GatewayInv, TypeOK, DomainTypeOK
<1>2. /\ call[w].op = "candidate" /\ opps' = Append(opps, row)
      /\ call' = [call EXCEPT ![w] = NoCall] /\ call'[w] = NoCall /\ NoCall \in Calls
      /\ UNCHANGED <<evidence, insights, prds, sources, deliveries, assess, hist, faults, gateway>>
  BY <1>1, CallForms DEF InsertOpp, Pend
<1>3. row \in OppRow /\ row.cmd = Maker(w) /\ row.status = "proposed"
  BY <1>1, <1>2, CallTypes DEF GatewayInv, CallsOK, CallOK
<1> HIDE DEF row
<1>4. /\ opps' \in Seq(OppRow)
      /\ DOMAIN opps' = DOMAIN opps \cup {Len(opps) + 1} /\ opps'[Len(opps) + 1] = row
      /\ \A o \in DOMAIN opps : opps'[o] = opps[o]
      /\ \A d \in Commands : d # Maker(w) => Mine(opps', d) = Mine(opps, d)
      /\ \A d : Mine(opps, d) = {} => Sole(Mine(opps', d))
  BY <1>1, <1>2, <1>3, MineAppend
<1>5. RowsOK'
  BY <1>2, <1>3, <1>4 DEF GatewayInv, RowsOK, SaysTrue, DecidedPrds
<1>6. ASSUME w \in Commands
      PROVE  CommandOK(w)' /\ MadeOnce(w)'
  <2>1. CommandOK(w) /\ MadeOnce(w) /\ thread[w].pc = "submit" /\ Mine(opps, w) = {}
    BY <1>2, <1>6 DEF GatewayInv, CommandsOK, CommandOK, Pending
  <2>2. CommandOK(w)'
    BY <1>2, <1>6, <2>1, NoCallOK DEF CommandOK, gateway
  <2>3. MadeOnce(w)'
    BY <1>2, <1>4, <2>1 DEF MadeOnce, gateway, MineDelivered
  <2> QED BY <2>2, <2>3
<1>7. /\ insights' \in Seq(InsightRow) /\ prds' \in Seq(PrdRow) /\ sources' \in Nat
      /\ deliveries' \in SUBSET DeliveryRow
      /\ hist' \in [approved : SUBSET Nat, passed : SUBSET Nat, waived : SUBSET Nat]
  BY <1>2 DEF GatewayInv, TypeOK, DomainTypeOK
<1>8. CallOK(w)'
  BY <1>2, NoCallOK
<1> QED BY <1>2, <1>4, <1>5, <1>6, <1>7, <1>8, WriteKeepsInv DEF MineDelivered

LEMMA InsertSourceKeepsInv ==
  ASSUME GatewayInv, NEW w \in Procs, InsertSource(w), UNCHANGED <<faults, gateway>>
  PROVE  GatewayInv'
<1> DEFINE row == [status |-> "draft", decision |-> "", truth |-> "", opp |-> call[w].opp,
                   source |-> sources + 1, cmd |-> call[w].cmd]
           now == [op |-> "prd", row |-> row]
<1>1. call \in [Procs -> Calls] /\ sources \in Nat
  BY DEF GatewayInv, TypeOK, DomainTypeOK
<1>2. /\ call[w].op = "source" /\ sources' = sources + 1 /\ call' = [call EXCEPT ![w] = now]
      /\ UNCHANGED <<evidence, insights, opps, prds, deliveries, assess, hist, faults, gateway>>
  BY DEF InsertSource, Pend
<1>3. /\ call[w].opp \in Nat /\ call[w].cmd \in Creators
      /\ call[w].opp \in hist.approved /\ call[w].cmd = Maker(w)
  BY <1>1, <1>2, CallTypes DEF GatewayInv, CallsOK, CallOK
<1>4. row \in PrdRow /\ row.status = "draft" /\ row.opp = call[w].opp /\ row.cmd = Maker(w)
  BY <1>1, <1>3 DEF PrdRow, Decisions
<1>5. now \in Calls /\ now.op = "prd" /\ now.row = row /\ call'[w] = now
  BY <1>1, <1>2, <1>4, CallForms
<1> HIDE DEF now, row
<1>6. RowsOK'
  BY <1>2 DEF GatewayInv, RowsOK, SaysTrue, DecidedPrds
<1>7. CallOK(w)'
  BY <1>2, <1>3, <1>4, <1>5 DEF CallOK
<1>8. ASSUME w \in Commands
      PROVE  CommandOK(w)' /\ MadeOnce(w)'
  <2>1. CommandOK(w) /\ MadeOnce(w) /\ thread[w].pc = "end" /\ Mine(prds, w) = {}
    BY <1>2, <1>8 DEF GatewayInv, CommandsOK, CommandOK, Pending
  <2>2. CommandOK(w)'
    BY <1>2, <1>5, <2>1 DEF CommandOK, Pending, gateway
  <2>3. MadeOnce(w)'
    BY <1>2, <2>1 DEF MadeOnce, gateway, MineDelivered
  <2> QED BY <2>2, <2>3
<1>9. /\ insights' \in Seq(InsightRow) /\ opps' \in Seq(OppRow) /\ prds' \in Seq(PrdRow)
      /\ sources' \in Nat /\ deliveries' \in SUBSET DeliveryRow
      /\ hist' \in [approved : SUBSET Nat, passed : SUBSET Nat, waived : SUBSET Nat]
  BY <1>2 DEF GatewayInv, TypeOK, DomainTypeOK
<1> QED BY <1>2, <1>5, <1>6, <1>7, <1>8, <1>9, WriteKeepsInv DEF MineDelivered

LEMMA InsertPrdKeepsInv ==
  ASSUME GatewayInv, NEW w \in Procs, InsertPrd(w), UNCHANGED <<faults, gateway>>
  PROVE  GatewayInv'
<1> DEFINE row == call[w].row
<1>1. /\ call \in [Procs -> Calls] /\ prds \in Seq(PrdRow)
      /\ insights \in Seq(InsightRow) /\ opps \in Seq(OppRow)
  BY DEF GatewayInv, TypeOK, DomainTypeOK
<1>2. /\ call[w].op = "prd" /\ prds' = Append(prds, row)
      /\ call' = [call EXCEPT ![w] = NoCall] /\ call'[w] = NoCall /\ NoCall \in Calls
      /\ UNCHANGED <<evidence, insights, opps, sources, deliveries, assess, hist, faults, gateway>>
  BY <1>1, CallForms DEF InsertPrd, Pend
<1>3. row \in PrdRow /\ row.cmd = Maker(w) /\ row.status = "draft" /\ row.opp \in hist.approved
  BY <1>1, <1>2, CallTypes DEF GatewayInv, CallsOK, CallOK
<1> HIDE DEF row
<1>4. /\ prds' \in Seq(PrdRow)
      /\ DOMAIN prds' = DOMAIN prds \cup {Len(prds) + 1} /\ prds'[Len(prds) + 1] = row
      /\ \A p \in DOMAIN prds : prds'[p] = prds[p]
      /\ \A d \in Commands : d # Maker(w) => Mine(prds', d) = Mine(prds, d)
      /\ \A d : Mine(prds, d) = {} => Sole(Mine(prds', d))
  BY <1>1, <1>2, <1>3, MineAppend
<1>5. RowsOK'
  BY <1>2, <1>3, <1>4 DEF GatewayInv, RowsOK, SaysTrue, Says, DecidedPrds, Decided
<1>6. ASSUME w \in Commands
      PROVE  CommandOK(w)' /\ MadeOnce(w)'
  <2>1. CommandOK(w) /\ MadeOnce(w) /\ thread[w].pc = "end" /\ Mine(prds, w) = {}
    BY <1>2, <1>6 DEF GatewayInv, CommandsOK, CommandOK, Pending
  <2>2. CommandOK(w)'
    BY <1>2, <1>6, <2>1, NoCallOK DEF CommandOK, gateway
  <2>3. MadeOnce(w)'
    BY <1>2, <1>4, <2>1 DEF MadeOnce, gateway, MineDelivered
  <2> QED BY <2>2, <2>3
<1>7. /\ insights' \in Seq(InsightRow) /\ opps' \in Seq(OppRow) /\ sources' \in Nat
      /\ deliveries' \in SUBSET DeliveryRow
      /\ hist' \in [approved : SUBSET Nat, passed : SUBSET Nat, waived : SUBSET Nat]
  BY <1>2 DEF GatewayInv, TypeOK, DomainTypeOK
<1>8. CallOK(w)'
  BY <1>2, NoCallOK
<1> QED BY <1>2, <1>4, <1>5, <1>6, <1>7, <1>8, WriteKeepsInv DEF MineDelivered

LEMMA UpdateOppKeepsInv ==
  ASSUME GatewayInv, NEW w \in Procs, UpdateOpp(w), UNCHANGED <<faults, gateway>>
  PROVE  GatewayInv'
<1> DEFINE row == call[w].row
           o == call[w].id
<1>1. /\ call \in [Procs -> Calls] /\ opps \in Seq(OppRow)
      /\ hist \in [approved : SUBSET Nat, passed : SUBSET Nat, waived : SUBSET Nat]
  BY DEF GatewayInv, TypeOK, DomainTypeOK
<1>2. /\ call[w].op = "transition" /\ opps' = [opps EXCEPT ![o] = row]
      /\ hist' = [hist EXCEPT !.approved = IF row.status = "approved" THEN @ \cup {o} ELSE @]
      /\ call' = [call EXCEPT ![w] = NoCall] /\ call'[w] = NoCall /\ NoCall \in Calls
      /\ UNCHANGED <<evidence, insights, prds, sources, deliveries, assess, faults, gateway>>
  BY <1>1, CallForms DEF UpdateOpp, Pend
<1>3. row \in OppRow /\ o \in DOMAIN opps /\ o \in Nat /\ row.cmd = opps[o].cmd
  BY <1>1, <1>2, CallTypes DEF GatewayInv, CallsOK, CallOK
<1> HIDE DEF row, o
<1>4. /\ hist' \in [approved : SUBSET Nat, passed : SUBSET Nat, waived : SUBSET Nat]
      /\ hist'.passed = hist.passed /\ hist'.waived = hist.waived
      /\ hist.approved \subseteq hist'.approved
      /\ row.status = "approved" => o \in hist'.approved
  BY <1>1, <1>2, <1>3
<1>5. /\ opps' \in Seq(OppRow) /\ DOMAIN opps' = DOMAIN opps
      /\ \A c : Mine(opps', c) = Mine(opps, c)
  <2>1. /\ [opps EXCEPT ![o] = row] \in Seq(OppRow)
        /\ DOMAIN [opps EXCEPT ![o] = row] = DOMAIN opps
        /\ \A c : Mine([opps EXCEPT ![o] = row], c) = Mine(opps, c)
    BY <1>1, <1>3, MineExcept
  <2> QED BY <1>2, <2>1
<1>6. \A q \in DOMAIN opps : opps'[q] = IF q = o THEN row ELSE opps[q]
  BY <1>2
<1>7. RowsOK'
  <2>1. \A q \in DOMAIN opps' : opps'[q].status = "approved" => q \in hist'.approved
    BY <1>4, <1>5, <1>6 DEF GatewayInv, RowsOK
  <2>2. /\ \A p \in DOMAIN prds : /\ Says(p, prds[p], hist')
                                  /\ prds[p].status = "quality_checked" => prds[p].decision # ""
                                  /\ prds[p].opp \in hist'.approved
        /\ \A d \in deliveries : d.prd \in hist'.passed \cup hist'.waived
    BY <1>4 DEF GatewayInv, RowsOK, SaysTrue, Says, DecidedPrds
  <2> QED BY <1>2, <2>1, <2>2 DEF RowsOK, SaysTrue, DecidedPrds
<1>8. ASSUME w \in Commands
      PROVE  CommandOK(w)' /\ MadeOnce(w)'
  <2>1. CommandOK(w) /\ MadeOnce(w) /\ thread[w].pc = "end"
    BY <1>2, <1>8 DEF GatewayInv, CommandsOK, CommandOK, Pending
  <2>2. CommandOK(w)'
    BY <1>2, <1>8, <2>1, NoCallOK DEF CommandOK, gateway
  <2>3. MadeOnce(w)'
    BY <1>2, <1>5, <2>1 DEF MadeOnce, gateway, MineDelivered
  <2> QED BY <2>2, <2>3
<1>9. /\ insights' \in Seq(InsightRow) /\ prds' \in Seq(PrdRow) /\ sources' \in Nat
      /\ deliveries' \in SUBSET DeliveryRow
  BY <1>2 DEF GatewayInv, TypeOK, DomainTypeOK
<1>10. CallOK(w)'
  BY <1>2, NoCallOK
<1>11. \A q \in DOMAIN opps : q \in DOMAIN opps' /\ opps'[q].cmd = opps[q].cmd
  BY <1>3, <1>5, <1>6
<1> QED BY <1>2, <1>4, <1>5, <1>7, <1>8, <1>9, <1>10, <1>11, WriteKeepsInv DEF MineDelivered

LEMMA UpdatePrdKeepsInv ==
  ASSUME GatewayInv, NEW w \in Procs, UpdatePrd(w), UNCHANGED <<faults, gateway>>
  PROVE  GatewayInv'
<1> DEFINE row == call[w].row
           p == call[w].id
<1>1. /\ call \in [Procs -> Calls] /\ prds \in Seq(PrdRow)
      /\ hist \in [approved : SUBSET Nat, passed : SUBSET Nat, waived : SUBSET Nat]
  BY DEF GatewayInv, TypeOK, DomainTypeOK
<1>2. /\ call[w].op = "status" /\ prds' = [prds EXCEPT ![p] = row]
      /\ hist' = [hist EXCEPT !.passed = IF row.status = "approved" THEN @ \cup {p} ELSE @,
                              !.waived = IF row.status = "waived" THEN @ \cup {p} ELSE @]
      /\ call' = [call EXCEPT ![w] = NoCall] /\ call'[w] = NoCall /\ NoCall \in Calls
      /\ UNCHANGED <<evidence, insights, opps, sources, deliveries, assess, faults, gateway>>
  BY <1>1, CallForms DEF UpdatePrd, Pend
<1>3. /\ row \in PrdRow /\ p \in DOMAIN prds /\ p \in Nat /\ row.cmd = prds[p].cmd
      /\ row.opp \in hist.approved /\ row.status \in Decided
      /\ row.status = "approved" => row.decision = "pass"
      /\ row.status = "ready_for_delivery" => Says(p, row, hist)
  BY <1>1, <1>2, CallTypes DEF GatewayInv, CallsOK, CallOK, SaysTrue
<1> HIDE DEF row, p
<1>4. /\ hist' \in [approved : SUBSET Nat, passed : SUBSET Nat, waived : SUBSET Nat]
      /\ hist'.approved = hist.approved
      /\ hist.passed \subseteq hist'.passed /\ hist.waived \subseteq hist'.waived
      /\ row.status = "approved" => p \in hist'.passed
      /\ row.status = "waived" => p \in hist'.waived
  BY <1>1, <1>2, <1>3
<1>5. Says(p, row, hist')
  BY <1>3, <1>4 DEF Says, Decided
<1>6. /\ prds' \in Seq(PrdRow) /\ DOMAIN prds' = DOMAIN prds
      /\ \A c : Mine(prds', c) = Mine(prds, c)
  <2>1. /\ [prds EXCEPT ![p] = row] \in Seq(PrdRow)
        /\ DOMAIN [prds EXCEPT ![p] = row] = DOMAIN prds
        /\ \A c : Mine([prds EXCEPT ![p] = row], c) = Mine(prds, c)
    BY <1>1, <1>3, MineExcept
  <2> QED BY <1>2, <2>1
<1>7. RowsOK'
  <2>1. RowsOK /\ row.status # "quality_checked"
    BY <1>3 DEF GatewayInv, Decided
  <2>2. \A d \in deliveries : d.prd \in hist.passed \cup hist.waived
    BY <2>1 DEF RowsOK, DecidedPrds
  <2> QED BY <1>1, <1>2, <1>3, <1>4, <1>5, <2>1, PrdRowsWritten
<1>8. ASSUME w \in Commands
      PROVE  CommandOK(w)' /\ MadeOnce(w)'
  <2>1. CommandOK(w) /\ MadeOnce(w) /\ thread[w].pc = "export"
    BY <1>2, <1>8 DEF GatewayInv, CommandsOK, CommandOK, Pending
  <2>2. CommandOK(w)'
    BY <1>2, <1>6, <1>8, <2>1, NoCallOK DEF CommandOK, gateway
  <2>3. MadeOnce(w)'
    BY <1>2, <1>6, <2>1 DEF MadeOnce, gateway, MineDelivered
  <2> QED BY <2>2, <2>3
<1>9. /\ insights' \in Seq(InsightRow) /\ opps' \in Seq(OppRow) /\ sources' \in Nat
      /\ deliveries' \in SUBSET DeliveryRow
  BY <1>2 DEF GatewayInv, TypeOK, DomainTypeOK
<1>10. CallOK(w)'
  BY <1>2, NoCallOK
<1>11. \A q \in DOMAIN prds : q \in DOMAIN prds' /\ prds'[q].cmd = prds[q].cmd
  BY <1>2, <1>3, <1>6
<1> QED BY <1>2, <1>4, <1>6, <1>7, <1>8, <1>9, <1>10, <1>11, WriteKeepsInv DEF MineDelivered

LEMMA UpsertDeliveryKeepsInv ==
  ASSUME GatewayInv, NEW w \in Procs, UpsertDelivery(w), UNCHANGED <<faults, gateway>>
  PROVE  GatewayInv'
<1> DEFINE row == call[w].row
<1>1. call \in [Procs -> Calls] /\ deliveries \in SUBSET DeliveryRow
  BY DEF GatewayInv, TypeOK, DomainTypeOK
<1>2. /\ call[w].op = "export" /\ deliveries' = deliveries \cup {row}
      /\ call' = [call EXCEPT ![w] = NoCall] /\ call'[w] = NoCall /\ NoCall \in Calls
      /\ UNCHANGED <<evidence, insights, opps, prds, sources, assess, hist, faults, gateway>>
  BY <1>1, CallForms DEF UpsertDelivery, Pend
<1>3. row \in DeliveryRow /\ row.cmd = Maker(w) /\ row.prd \in DecidedPrds
  BY <1>1, <1>2, CallTypes DEF GatewayInv, CallsOK, CallOK
<1> HIDE DEF row
<1>4. /\ deliveries' \in SUBSET DeliveryRow
      /\ \A d \in Commands : d # Maker(w) => MineDelivered(d)' = MineDelivered(d)
      /\ \A d \in Commands : MineDelivered(d) = {} => Sole(MineDelivered(d)')
  <2>1. deliveries' \in SUBSET DeliveryRow
    BY <1>1, <1>2, <1>3
  <2>2. \A d \in Commands : d # Maker(w) => MineDelivered(d)' = MineDelivered(d)
    BY <1>2, <1>3 DEF MineDelivered
  <2>3. ASSUME NEW d \in Commands, MineDelivered(d) = {}
        PROVE  Sole(MineDelivered(d)')
    <3>1. MineDelivered(d)' \subseteq {row}
      BY <1>2, <2>3 DEF MineDelivered
    <3> QED BY <3>1 DEF Sole
  <2> QED BY <2>1, <2>2, <2>3
<1>5. RowsOK'
  BY <1>2, <1>3 DEF GatewayInv, RowsOK, SaysTrue, DecidedPrds
<1>6. ASSUME w \in Commands
      PROVE  CommandOK(w)' /\ MadeOnce(w)'
  <2>1. /\ CommandOK(w) /\ MadeOnce(w) /\ thread[w].pc = "end"
        /\ w \notin hit => MineDelivered(w) = {}
    BY <1>2, <1>6 DEF GatewayInv, CommandsOK, CommandOK, Pending
  <2>2. CommandOK(w)'
    BY <1>2, <1>6, <2>1, NoCallOK DEF CommandOK, gateway
  <2>3. MadeOnce(w)'
    BY <1>2, <1>4, <1>6, <2>1 DEF MadeOnce, gateway
  <2> QED BY <2>2, <2>3
<1>7. /\ insights' \in Seq(InsightRow) /\ opps' \in Seq(OppRow) /\ prds' \in Seq(PrdRow)
      /\ sources' \in Nat
      /\ hist' \in [approved : SUBSET Nat, passed : SUBSET Nat, waived : SUBSET Nat]
  BY <1>2 DEF GatewayInv, TypeOK, DomainTypeOK
<1>8. CallOK(w)'
  BY <1>2, NoCallOK
<1> QED BY <1>2, <1>4, <1>5, <1>6, <1>7, <1>8, WriteKeepsInv

LEMMA WritesKeepInv ==
  ASSUME GatewayInv, NEW w \in Procs, Write(w), UNCHANGED <<faults, gateway>>
  PROVE  GatewayInv'
BY InsertInsightKeepsInv, InsertOppKeepsInv, UpdateOppKeepsInv, InsertSourceKeepsInv,
   InsertPrdKeepsInv, UpdatePrdKeepsInv, UpsertDeliveryKeepsInv DEF Write

----------------------------------------------------------------------------
(* The handlers. *)
LEMMA HandlersKeepInv ==
  ASSUME GatewayInv, Handlers, UNCHANGED gateway
  PROVE  GatewayInv'
<1>0. Loop \in Procs /\ Maker(Loop) = NoCommand /\ faults \in Nat
      /\ evidence \in [Evidence -> {"absent", "open", "confirmed"}]
  BY MakersDiffer DEF GatewayInv, TypeOK, DomainTypeOK
<1>1. ASSUME NEW e \in Evidence, Ingest(e) \/ \E b \in BOOLEAN : ConfirmEvidence(e, b)
      PROVE  GatewayInv'
  <2>1. /\ UNCHANGED <<insights, opps, prds, sources, deliveries, call, assess, hist, faults>>
        /\ evidence' \in [Evidence -> {"absent", "open", "confirmed"}]
    BY <1>0, <1>1 DEF Ingest, SyncEvidence, ConfirmEvidence
  <2>2. call' = [call EXCEPT ![Loop] = call[Loop]] /\ call[Loop] \in Calls
    BY <1>0, <2>1 DEF GatewayInv, TypeOK, DomainTypeOK
  <2>3. TypeOK'
    BY <2>1 DEF GatewayInv, TypeOK, DomainTypeOK, gateway
  <2>4. RowsOK'
    BY <2>1 DEF GatewayInv, RowsOK, SaysTrue, DecidedPrds
  <2>5. CallsOK'
    BY <2>1 DEF GatewayInv, CallsOK, CallOK, SaysTrue, DecidedPrds
  <2>6. CommandsOK'
    BY <2>1 DEF GatewayInv, CommandsOK, CommandOK, MadeOnce, Pending, MineDelivered, gateway
  <2> QED BY <2>3, <2>4, <2>5, <2>6 DEF GatewayInv
<1>2. ASSUME NEW now, Turns(Loop, now), CallOK(Loop)'
      PROVE  GatewayInv'
  BY <1>0, <1>2, LoopPends DEF Turns, Tables
<1>3. ASSUME NEW refs \in SUBSET Evidence, CreateInsight(Loop, refs, NoCommand)
      PROVE  GatewayInv'
  BY <1>0, <1>2, <1>3, CreateInsightPends
<1>4. ASSUME NEW ins \in SUBSET DOMAIN insights, NEW refs \in SUBSET Evidence,
             CreateCandidate(Loop, ins, refs, NoCommand)
      PROVE  GatewayInv'
  BY <1>0, <1>2, <1>4, CreateCandidatePends
<1>5. ASSUME NEW o \in DOMAIN opps,
             \/ SubmitForApproval(Loop, o) \/ ApproveOpp(o) \/ RejectOpp(o)
             \/ CreatePrd(Loop, o, NoCommand)
      PROVE  GatewayInv'
  <2>1. CASE CreatePrd(Loop, o, NoCommand)
    BY <1>0, <1>2, <2>1, CreatePrdPends
  <2>2. CASE SubmitForApproval(Loop, o) \/ ApproveOpp(o) \/ RejectOpp(o)
    <3>1. PICK status \in {"pending_approval", "approved", "rejected"} :
            Transition(Loop, o, status)
      BY <2>2 DEF SubmitForApproval, ApproveOpp, RejectOpp
    <3> QED BY <1>0, <1>2, <3>1, TransitionPends
  <2> QED BY <1>5, <2>1, <2>2
<1>6. ASSUME NEW p \in DOMAIN prds,
             \/ ApprovePrd(p) \/ WaivePrd(p) \/ MarkReady(Loop, p) \/ Export(Loop, p, NoCommand)
      PROVE  GatewayInv'
  <2>1. CASE Export(Loop, p, NoCommand)
    BY <1>0, <1>2, <2>1, ExportPends
  <2>2. CASE ApprovePrd(p) \/ WaivePrd(p) \/ MarkReady(Loop, p)
    BY <1>0, <1>2, <2>2, SetStatusPends
  <2> QED BY <1>6, <2>1, <2>2
<1>7. CASE Write(Loop) /\ UNCHANGED faults
  BY <1>0, <1>7, WritesKeepInv
<1>8. CASE Raise(Loop)
  <2>1. /\ call' = [call EXCEPT ![Loop] = NoCall] /\ faults' \in Nat
        /\ UNCHANGED <<evidence, insights, opps, prds, sources, deliveries, assess, hist>>
        /\ call'[Loop] = NoCall /\ NoCall \in Calls
    BY <1>0, <1>8, CallForms DEF Raise, Pend, GatewayInv, TypeOK, DomainTypeOK
  <2>2. CallOK(Loop)'
    BY <1>0, <2>1, NoCallOK
  <2> QED BY <2>1, <2>2, LoopPends
<1> QED BY <1>1, <1>3, <1>4, <1>5, <1>6, <1>7, <1>8, AssessKeepsInv DEF Handlers

----------------------------------------------------------------------------
(* The runs of the commands. *)
Late == {"link", "end", "done", "lost"}

LEMMA IdleThreads ==
  /\ \A pc \in {"new", "start", "insight", "opportunity", "submit", "create", "ready", "export",
                "link", "end", "failed", "denied", "done", "lost"} :
        Idle(pc) \in Threads /\ Idle(pc).pc = pc
  /\ \A pc \in {"insight", "create", "ready", "export"}, seen \in SUBSET Evidence, id \in Nat :
        [pc |-> pc, seen |-> seen, id |-> id] \in Threads
BY DEF Idle, Threads

LEMMA RestingIsFree ==
  ASSUME GatewayInv, NEW c \in Commands, thread[c].pc \in Resting \cup {"start"}
  PROVE  Free(c)
<1>1. call[c] \in Calls /\ Pending(c)
  BY MakersDiffer DEF GatewayInv, TypeOK, DomainTypeOK, CommandsOK, CommandOK
<1>2. call[c].op = "none"
  BY <1>1 DEF Pending, Resting
<1> QED BY <1>1, <1>2 DEF Calls, NoCall, Free

(* A run that has neither delivered nor started a review goes on. *)
LEMMA RunGoesOn ==
  ASSUME GatewayInv, NEW c \in Commands, NEW t \in Threads, Free(c), Proceed(c, t),
         thread[c].pc \notin Late,
         t.pc = "insight" => Mine(insights, c) = {},
         t.pc = "create" => t.id \in DOMAIN opps /\ Mine(prds, c) = {},
         t.pc \in {"ready", "export"} => t.id \in DOMAIN prds
  PROVE  GatewayInv'
<1>1. reviews[c] \in Nat /\ evidence \in [Evidence -> {"absent", "open", "confirmed"}]
      /\ reviews \in [Commands -> Nat]
  BY DEF GatewayInv, TypeOK, DomainTypeOK
<1>2. /\ thread' = [thread EXCEPT ![c] = t] /\ reviews' = [reviews EXCEPT ![c] = reviews[c]]
      /\ UNCHANGED <<evidence, insights, opps, prds, sources, deliveries, call, assess, hist,
                     faults, kind, hit>>
  BY <1>1 DEF Proceed, Goto, domain
<1>3. c \notin hit => MineDelivered(c) = {} /\ reviews[c] = 0
  BY DEF GatewayInv, CommandsOK, MadeOnce, Late
<1> QED BY <1>1, <1>2, <1>3, CommandProceeds

LEMMA RefusalKeepsInv ==
  ASSUME GatewayInv, NEW c \in Commands, Free(c), Refuse(c), thread[c].pc \notin Late
  PROVE  GatewayInv'
BY RunGoesOn, IdleThreads DEF Refuse, Stop, Proceed

(* It makes a call. *)
LEMMA RunCalls ==
  ASSUME GatewayInv, NEW c \in Commands, NEW t \in Threads, NEW now, Turns(c, now), CallOK(c)',
         thread' = [thread EXCEPT ![c] = t], UNCHANGED <<kind, hit, reviews>>,
         thread[c].pc \notin Late,
         \/ now.op = "insight" /\ t.pc = "opportunity" /\ Mine(insights, c) = {}
         \/ now.op = "candidate" /\ t.pc = "submit" /\ Mine(opps, c) = {}
         \/ now.op = "transition" /\ t.pc = "end"
         \/ now.op = "source" /\ t.pc = "end" /\ Mine(prds, c) = {}
         \/ now.op = "status" /\ t.pc = "export" /\ t.id \in DOMAIN prds
         \/ now.op = "export" /\ t.pc = "end"
  PROVE  GatewayInv'
<1>1. /\ reviews[c] \in Nat /\ reviews' = [reviews EXCEPT ![c] = reviews[c]]
      /\ evidence' \in [Evidence -> {"absent", "open", "confirmed"}] /\ faults' \in Nat
      /\ thread'[c] = t /\ call'[c] = now
      /\ UNCHANGED Tables
  BY DEF GatewayInv, TypeOK, DomainTypeOK, Turns, Tables
<1>2. /\ MadeOnce(c)
      /\ c \notin hit => MineDelivered(c) = {} /\ reviews[c] = 0
  BY DEF GatewayInv, CommandsOK, MadeOnce, Late
<1>3. CommandOK(c)'
  BY <1>1, <1>2 DEF CommandOK, Pending, Tables, MineDelivered
<1>4. MadeOnce(c)'
  BY <1>1, <1>2 DEF MadeOnce, Tables, MineDelivered
<1> QED BY <1>1, <1>3, <1>4, CommandMoves DEF Turns, Tables

LEMMA GenerateKeepsInv ==
  ASSUME GatewayInv, NEW c \in Commands,
         GenerateBegin(c) \/ GenerateInsight(c) \/ GenerateOpportunity(c) \/ GenerateSubmit(c)
  PROVE  GatewayInv'
<1>0. c \in Procs /\ Maker(c) = c /\ thread[c] \in Threads /\ Confirmed \in SUBSET Evidence
      /\ CommandOK(c)
  BY MakersDiffer DEF GatewayInv, TypeOK, Confirmed, CommandsOK
<1>1. CASE GenerateBegin(c)
  <2>1. Free(c) /\ thread[c].pc = "start" /\ thread[c].pc \notin Late
    BY <1>1 DEF GenerateBegin, At, Late
  <2>2. \/ Refuse(c)
        \/ Proceed(c, Idle("opportunity"))
        \/ /\ Mine(insights, c) = {}
           /\ Proceed(c, [pc |-> "insight", seen |-> Confirmed, id |-> 0])
    BY <1>1 DEF GenerateBegin
  <2>3. CASE Refuse(c)
    BY <2>1, <2>3, RefusalKeepsInv
  <2>4. CASE Proceed(c, Idle("opportunity"))
    BY <2>1, <2>4, RunGoesOn, IdleThreads
  <2>5. CASE /\ Mine(insights, c) = {}
             /\ Proceed(c, [pc |-> "insight", seen |-> Confirmed, id |-> 0])
    <3>1. [pc |-> "insight", seen |-> Confirmed, id |-> 0] \in Threads
      BY <1>0, IdleThreads
    <3> QED BY <2>1, <2>5, <3>1, RunGoesOn
  <2> QED BY <2>2, <2>3, <2>4, <2>5
<1>2. CASE GenerateInsight(c)
  <2>1. Free(c) /\ thread[c].pc = "insight" /\ thread[c].pc \notin Late
    BY <1>2 DEF GenerateInsight, At, Late
  <2>2. CASE Refuse(c)
    BY <2>1, <2>2, RefusalKeepsInv
  <2>3. CASE ~Refuse(c)
    <3>1. /\ CreateInsight(c, thread[c].seen, c)
          /\ thread' = [thread EXCEPT ![c] = Idle("opportunity")]
          /\ UNCHANGED <<kind, hit, reviews>>
      BY <1>2, <2>3 DEF GenerateInsight, Goto
    <3>2. thread[c].seen \in SUBSET Evidence /\ Mine(insights, c) = {}
      BY <1>0, <2>1 DEF Threads, CommandOK
    <3>3. PICK now : Turns(c, now) /\ now.op = "insight" /\ CallOK(c)'
      BY <1>0, <3>1, <3>2, CreateInsightPends
    <3> QED BY <2>1, <3>1, <3>2, <3>3, RunCalls, IdleThreads
  <2> QED BY <2>2, <2>3
<1>3. CASE GenerateOpportunity(c)
  <2>1. Free(c) /\ thread[c].pc = "opportunity" /\ thread[c].pc \notin Late
    BY <1>3 DEF GenerateOpportunity, At, Late
  <2>2. CASE Mine(opps, c) # {}
    BY <1>3, <2>1, <2>2, RunGoesOn, IdleThreads DEF GenerateOpportunity
  <2>3. CASE Mine(opps, c) = {}
    <3>1. /\ CreateCandidate(c, Mine(insights, c), {}, c)
          /\ thread' = [thread EXCEPT ![c] = Idle("submit")]
          /\ UNCHANGED <<kind, hit, reviews>>
      BY <1>3, <2>3 DEF GenerateOpportunity, Goto
    <3>2. Mine(insights, c) \in SUBSET DOMAIN insights /\ {} \in SUBSET Evidence
      BY DEF Mine
    <3>3. PICK now : Turns(c, now) /\ now.op = "candidate" /\ CallOK(c)'
      BY <1>0, <3>1, <3>2, CreateCandidatePends
    <3> QED BY <2>1, <2>3, <3>1, <3>3, RunCalls, IdleThreads
  <2> QED BY <2>2, <2>3
<1>4. CASE GenerateSubmit(c)
  <2>1. Free(c) /\ thread[c].pc = "submit" /\ thread[c].pc \notin Late
    BY <1>4 DEF GenerateSubmit, At, Late
  <2>2. CASE Refuse(c)
    BY <2>1, <2>2, RefusalKeepsInv
  <2>3. CASE ~Refuse(c)
    <3>1. PICK o \in Mine(opps, c) : SubmitForApproval(c, o)
      BY <1>4, <2>3 DEF GenerateSubmit
    <3>2. /\ thread' = [thread EXCEPT ![c] = Idle("end")] /\ UNCHANGED <<kind, hit, reviews>>
      BY <1>4, <2>3 DEF GenerateSubmit, Goto
    <3>3. o \in DOMAIN opps /\ Transition(c, o, "pending_approval")
      BY <3>1 DEF Mine, SubmitForApproval
    <3>4. PICK now : Turns(c, now) /\ now.op = "transition" /\ CallOK(c)'
      BY <1>0, <3>3, TransitionPends
    <3> QED BY <2>1, <3>2, <3>4, RunCalls, IdleThreads
  <2> QED BY <2>2, <2>3
<1> QED BY <1>1, <1>2, <1>3, <1>4

LEMMA PrdKeepsInv ==
  ASSUME GatewayInv, NEW c \in Commands, PrdBegin(c) \/ PrdCreate(c)
  PROVE  GatewayInv'
<1>0. c \in Procs /\ Maker(c) = c /\ CommandOK(c)
  BY MakersDiffer DEF GatewayInv, CommandsOK
<1>1. CASE PrdBegin(c)
  <2>1. Free(c) /\ thread[c].pc = "start" /\ thread[c].pc \notin Late
    BY <1>1 DEF PrdBegin, At, Late
  <2>2. CASE Refuse(c)
    BY <2>1, <2>2, RefusalKeepsInv
  <2>3. CASE Proceed(c, Idle("end"))
    BY <2>1, <2>3, RunGoesOn, IdleThreads
  <2>4. ASSUME NEW o \in DOMAIN opps, Mine(prds, c) = {},
               Proceed(c, [pc |-> "create", seen |-> {}, id |-> o])
        PROVE  GatewayInv'
    <3>1. o \in Nat
      BY DEF GatewayInv, TypeOK, DomainTypeOK
    <3>2. [pc |-> "create", seen |-> {}, id |-> o] \in Threads
      BY <3>1, IdleThreads
    <3> QED BY <2>1, <2>4, <3>2, RunGoesOn
  <2> QED BY <1>1, <2>2, <2>3, <2>4 DEF PrdBegin
<1>2. CASE PrdCreate(c)
  <2>1. Free(c) /\ thread[c].pc = "create" /\ thread[c].pc \notin Late
    BY <1>2 DEF PrdCreate, At, Late
  <2>2. CASE Refuse(c)
    BY <2>1, <2>2, RefusalKeepsInv
  <2>3. CASE ~Refuse(c)
    <3>1. /\ CreatePrd(c, thread[c].id, c) /\ thread' = [thread EXCEPT ![c] = Idle("end")]
          /\ UNCHANGED <<kind, hit, reviews>>
      BY <1>2, <2>3 DEF PrdCreate, Goto
    <3>2. thread[c].id \in DOMAIN opps /\ Mine(prds, c) = {}
      BY <1>0, <2>1 DEF CommandOK
    <3>3. PICK now : Turns(c, now) /\ now.op = "source" /\ CallOK(c)'
      BY <1>0, <3>1, <3>2, CreatePrdPends
    <3> QED BY <2>1, <3>1, <3>2, <3>3, RunCalls, IdleThreads
  <2> QED BY <2>2, <2>3
<1> QED BY <1>1, <1>2

LEMMA DeliveryKeepsInv ==
  ASSUME GatewayInv, NEW c \in Commands,
         DeliveryBegin(c) \/ DeliveryReady(c) \/ DeliveryExport(c)
  PROVE  GatewayInv'
<1>0. c \in Procs /\ Maker(c) = c /\ CommandOK(c) /\ thread[c] \in Threads
      /\ DOMAIN prds \subseteq Nat
  BY MakersDiffer DEF GatewayInv, CommandsOK, TypeOK, DomainTypeOK
<1>1. CASE DeliveryBegin(c)
  <2>1. Free(c) /\ thread[c].pc = "start" /\ thread[c].pc \notin Late
    BY <1>1 DEF DeliveryBegin, At, Late
  <2>2. \/ Refuse(c)
        \/ \E p \in DOMAIN prds, pc \in {"ready", "export"} :
              Proceed(c, [pc |-> pc, seen |-> {}, id |-> p])
    BY <1>1 DEF DeliveryBegin
  <2>3. CASE Refuse(c)
    BY <2>1, <2>3, RefusalKeepsInv
  <2>4. ASSUME NEW p \in DOMAIN prds, NEW pc \in {"ready", "export"},
               Proceed(c, [pc |-> pc, seen |-> {}, id |-> p])
        PROVE  GatewayInv'
    <3>1. [pc |-> pc, seen |-> {}, id |-> p] \in Threads
      BY <1>0, IdleThreads
    <3> QED BY <2>1, <2>4, <3>1, RunGoesOn
  <2> QED BY <2>2, <2>3, <2>4
<1> DEFINE p == thread[c].id
           t == [thread[c] EXCEPT !.pc = "export"]
<1>2. CASE DeliveryReady(c)
  <2>1. Free(c) /\ thread[c].pc = "ready" /\ thread[c].pc \notin Late
    BY <1>2 DEF DeliveryReady, At, Late
  <2>2. p \in DOMAIN prds
    BY <1>0, <2>1 DEF CommandOK
  <2>3. t \in Threads /\ t.pc = "export" /\ t.id = p
    BY <1>0 DEF Threads
  <2>4. CASE Refuse(c)
    BY <2>1, <2>4, RefusalKeepsInv
  <2>5. CASE Proceed(c, t)
    <3> HIDE DEF t, p
    <3> QED BY <2>1, <2>2, <2>3, <2>5, RunGoesOn
  <2>6. CASE MarkReady(c, p) /\ Goto(c, t) /\ UNCHANGED <<kind, hit, reviews>>
    <3>1. PICK now : Turns(c, now) /\ now.op = "status" /\ CallOK(c)'
      BY <1>0, <2>2, <2>6, SetStatusPends
    <3>2. thread' = [thread EXCEPT ![c] = t]
      BY <2>6 DEF Goto
    <3> HIDE DEF t, p
    <3> QED BY <2>1, <2>2, <2>3, <2>6, <3>1, <3>2, RunCalls
  <2> QED BY <1>2, <2>4, <2>5, <2>6 DEF DeliveryReady
<1>3. CASE DeliveryExport(c)
  <2>1. Free(c) /\ thread[c].pc = "export" /\ thread[c].pc \notin Late
    BY <1>3 DEF DeliveryExport, At, Late
  <2>2. p \in DOMAIN prds
    BY <1>0, <2>1 DEF CommandOK
  <2>3. CASE Refuse(c)
    BY <2>1, <2>3, RefusalKeepsInv
  <2>4. CASE ~Refuse(c)
    <3>1. /\ Export(c, p, c) /\ thread' = [thread EXCEPT ![c] = Idle("end")]
          /\ UNCHANGED <<kind, hit, reviews>>
      BY <1>3, <2>4 DEF DeliveryExport, Goto
    <3>2. PICK now : Turns(c, now) /\ now.op = "export" /\ CallOK(c)'
      BY <1>0, <2>2, <3>1, ExportPends
    <3> QED BY <2>1, <3>1, <3>2, RunCalls, IdleThreads
  <2> QED BY <2>3, <2>4
<1> QED BY <1>1, <1>2, <1>3

(* The other steps of a run: it begins, fetches a document, starts a review, *)
(* and ends.                                                                 *)
LEMMA OtherStepsKeepInv ==
  ASSUME GatewayInv, NEW c \in Commands,
         Execute(c) \/ Connect(c) \/ ReviewBegin(c) \/ ReviewLink(c) \/ End(c)
  PROVE  GatewayInv'
<1>0. /\ reviews[c] \in Nat /\ reviews = [reviews EXCEPT ![c] = reviews[c]]
      /\ reviews \in [Commands -> Nat]
      /\ evidence \in [Evidence -> {"absent", "open", "confirmed"}] /\ MadeOnce(c)
  BY DEF GatewayInv, TypeOK, DomainTypeOK, CommandsOK
<1>1. CASE Execute(c)
  <2>1. thread[c].pc \in Resting /\ thread[c].pc \notin Late /\ Proceed(c, Idle("start"))
    BY <1>1 DEF Execute, Resting, Late, Proceed
  <2> QED BY <2>1, RestingIsFree, RunGoesOn, IdleThreads
<1>2. CASE Connect(c)
  <2>1. Free(c) /\ thread[c].pc = "start" /\ thread[c].pc \notin Late
    BY <1>2 DEF Connect, At, Late
  <2>2. CASE Refuse(c)
    BY <2>1, <2>2, RefusalKeepsInv
  <2>3. CASE ~Refuse(c)
    <3>1. /\ SyncEvidence(EvidenceBy[c]) /\ thread' = [thread EXCEPT ![c] = Idle("end")]
          /\ UNCHANGED <<kind, hit, reviews>>
      BY <1>2, <2>3 DEF Connect, Goto
    <3>2. /\ UNCHANGED <<insights, opps, prds, sources, deliveries, call, assess, hist, faults>>
          /\ evidence' \in [Evidence -> {"absent", "open", "confirmed"}]
      BY <1>0, <3>1 DEF SyncEvidence
    <3>3. c \notin hit => MineDelivered(c) = {} /\ reviews[c] = 0
      BY <1>0, <2>1 DEF MadeOnce, Late
    <3>4. reviews' = [reviews EXCEPT ![c] = reviews[c]]
      BY <1>0, <3>1
    <3> QED BY <1>0, <2>1, <3>1, <3>2, <3>3, <3>4, IdleThreads, CommandProceeds
  <2> QED BY <2>2, <2>3
<1>3. CASE ReviewBegin(c)
  <2>1. Free(c) /\ thread[c].pc = "start" /\ thread[c].pc \notin Late
    BY <1>3 DEF ReviewBegin, At, Late
  <2>2. CASE Refuse(c)
    BY <2>1, <2>2, RefusalKeepsInv
  <2>3. CASE Proceed(c, Idle("denied"))
    BY <2>1, <2>3, RunGoesOn, IdleThreads
  <2>4. CASE /\ thread' = [thread EXCEPT ![c] = Idle("link")]
             /\ reviews' = [reviews EXCEPT ![c] = @ + 1]
             /\ UNCHANGED <<domain, kind, hit>>
    <3>1. c \notin hit => MineDelivered(c) = {} /\ reviews[c] = 0
      BY <1>0, <2>1 DEF MadeOnce, Late
    <3>2. UNCHANGED <<evidence, insights, opps, prds, sources, deliveries, call, assess, hist,
                      faults, kind, hit>>
      BY <2>4 DEF domain
    <3>3. reviews[c] + 1 \in Nat /\ (c \notin hit => reviews[c] + 1 = 1)
      BY <1>0, <3>1
    <3> QED BY <1>0, <2>1, <2>4, <3>1, <3>2, <3>3, IdleThreads, CommandProceeds
  <2> QED BY <1>3, <2>2, <2>3, <2>4 DEF ReviewBegin, Stop, Goto, Proceed
<1>4. CASE ReviewLink(c) \/ End(c)
  <2>1. PICK pc \in {"end", "done"} :
          /\ Free(c) /\ Proceed(c, Idle(pc))
          /\ thread[c].pc \in {"link", "end"}
    BY <1>4 DEF ReviewLink, End, At
  <2>2. /\ thread' = [thread EXCEPT ![c] = Idle(pc)] /\ reviews' = [reviews EXCEPT ![c] = reviews[c]]
        /\ UNCHANGED <<evidence, insights, opps, prds, sources, deliveries, call, assess, hist,
                       faults, kind, hit>>
    BY <1>0, <2>1 DEF Proceed, Goto, domain
  <2>3. c \notin hit => reviews[c] = 0 \/ reviews[c] = 1
    BY <1>0 DEF MadeOnce
  <2> QED BY <1>0, <2>1, <2>2, <2>3, IdleThreads, CommandProceeds
<1> QED BY <1>1, <1>2, <1>3, <1>4

(* A statement of a run raises, or the process dies: what the run had to    *)
(* write is not written, and the command is one a fault hit or a lost one.  *)
LEMMA RunRaisesKeepsInv ==
  ASSUME GatewayInv, NEW c \in Commands, RunRaises(c)
  PROVE  GatewayInv'
<1>1. /\ c \in Procs /\ call \in [Procs -> Calls] /\ faults \in Nat /\ reviews[c] \in Nat
      /\ reviews \in [Commands -> Nat] /\ thread \in [Commands -> Threads]
      /\ evidence \in [Evidence -> {"absent", "open", "confirmed"}] /\ MadeOnce(c)
  BY MakersDiffer DEF GatewayInv, TypeOK, DomainTypeOK, CommandsOK
<1>2. /\ call' = [call EXCEPT ![c] = NoCall] /\ call'[c] = NoCall /\ faults' \in Nat
      /\ thread' = [thread EXCEPT ![c] = Idle("failed")] /\ thread'[c] = Idle("failed")
      /\ hit' = hit \cup {c} /\ reviews' = [reviews EXCEPT ![c] = reviews[c]]
      /\ UNCHANGED <<evidence, insights, opps, prds, sources, deliveries, assess, hist, kind>>
  BY <1>1 DEF RunRaises, Raise, Pend, Stop, Goto
<1>3. /\ CallOK(c)' /\ Pending(c)'
  BY <1>1, <1>2, NoCallOK
<1>4. CommandOK(c)' /\ MadeOnce(c)'
  BY <1>1, <1>2, <1>3, IdleThreads DEF CommandOK, MadeOnce
<1> QED BY <1>1, <1>2, <1>3, <1>4, IdleThreads, CallForms, CommandMoves

LEMMA CrashKeepsInv ==
  ASSUME GatewayInv, GCrash
  PROVE  GatewayInv'
<1>1. /\ call' = [w \in Procs |-> NoCall] /\ assess' = [a \in Assessors |-> 0]
      /\ UNCHANGED <<evidence, insights, opps, prds, sources, deliveries, hist, kind, hit, reviews>>
      /\ thread' = [c \in Commands |-> IF thread[c].pc \in Resting THEN thread[c] ELSE Idle("lost")]
      /\ faults' = faults + 1
  BY DEF GCrash, Crash
<1>2. TypeOK'
  <2>1. thread' \in [Commands -> Threads]
    BY <1>1, IdleThreads DEF GatewayInv, TypeOK
  <2>2. call' \in [Procs -> Calls] /\ assess' \in [Assessors -> Nat] /\ faults' \in Nat
    BY <1>1, CallForms DEF GatewayInv, TypeOK, DomainTypeOK
  <2> QED BY <1>1, <2>1, <2>2 DEF GatewayInv, TypeOK, DomainTypeOK
<1>3. RowsOK'
  BY <1>1 DEF GatewayInv, RowsOK, SaysTrue, DecidedPrds
<1>4. CallsOK'
  BY <1>1, NoCallOK DEF CallsOK
<1>5. ASSUME NEW c \in Commands
      PROVE  CommandOK(c)' /\ MadeOnce(c)'
  <2>1. /\ call'[c] = NoCall /\ c \in Procs /\ MadeOnce(c)
        /\ thread'[c].pc \in Resting
        /\ thread'[c].pc = thread[c].pc \/ thread'[c].pc = "lost"
    BY <1>1, MakersDiffer, IdleThreads DEF GatewayInv, CommandsOK, Resting
  <2>2. CommandOK(c)'
    BY <2>1, NoCallOK DEF CommandOK, Resting
  <2>3. MadeOnce(c)'
    BY <1>1, <2>1 DEF MadeOnce, MineDelivered
  <2> QED BY <2>2, <2>3
<1> QED BY <1>2, <1>3, <1>4, <1>5 DEF GatewayInv, CommandsOK

LEMMA InitHasInv == GInit => GatewayInv
<1> SUFFICES ASSUME GInit
             PROVE  GatewayInv
  OBVIOUS
<1>1. Init /\ thread = [c \in Commands |-> Idle("new")] /\ hit = {}
      /\ reviews = [c \in Commands |-> 0] /\ kind \in [Commands -> Kinds \cup {"none"}]
  BY DEF GInit
<1>2. \A w \in Procs : call[w] = NoCall /\ NoCall.op = "none"
  BY <1>1, CallForms DEF Init
<1>3. TypeOK
  <2>1. DomainTypeOK
    BY <1>1, CallForms DEF Init, DomainTypeOK
  <2> QED BY <1>1, <2>1, IdleThreads DEF TypeOK
<1>4. RowsOK
  BY <1>1 DEF Init, RowsOK
<1>5. CallsOK
  BY <1>2 DEF CallsOK, CallOK
<1>6. ASSUME NEW c \in Commands
      PROVE  CommandOK(c) /\ MadeOnce(c)
  <2>1. call[c].op = "none" /\ thread[c].pc = "new" /\ reviews[c] = 0
    BY <1>1, <1>2, MakersDiffer, IdleThreads
  <2>2. Mine(insights, c) = {} /\ Mine(opps, c) = {} /\ Mine(prds, c) = {} /\ MineDelivered(c) = {}
    BY <1>1 DEF Init, Mine, MineDelivered
  <2> QED BY <2>1, <2>2 DEF CommandOK, MadeOnce, Pending, Sole
<1> QED BY <1>3, <1>4, <1>5, <1>6 DEF GatewayInv, CommandsOK

LEMMA GatewayInvHolds == GSpec => []GatewayInv
<1>1. GatewayInv /\ [GNext]_vars => GatewayInv'
  <2> SUFFICES ASSUME GatewayInv, [GNext]_vars
               PROVE  GatewayInv'
    OBVIOUS
  <2>1. CASE UNCHANGED vars
    <3>1. TypeOK'
      BY <2>1 DEF vars, domain, gateway, GatewayInv, TypeOK, DomainTypeOK
    <3>2. RowsOK'
      BY <2>1 DEF vars, domain, GatewayInv, RowsOK, SaysTrue, DecidedPrds
    <3>3. CallsOK'
      BY <2>1 DEF vars, domain, GatewayInv, CallsOK, CallOK, SaysTrue, DecidedPrds
    <3>4. CommandsOK'
      BY <2>1 DEF vars, domain, gateway, GatewayInv, CommandsOK, CommandOK, MadeOnce, Pending,
                  MineDelivered
    <3> QED BY <3>1, <3>2, <3>3, <3>4 DEF GatewayInv
  <2>2. ASSUME NEW c \in Commands, Run(c)
        PROVE  GatewayInv'
    <3>1. CASE Commit(c)
      BY <3>1, WritesKeepInv, MakersDiffer DEF Commit
    <3> QED BY <2>2, <3>1, OtherStepsKeepInv, GenerateKeepsInv, PrdKeepsInv, DeliveryKeepsInv,
               RunRaisesKeepsInv DEF Run
  <2> QED BY <2>1, <2>2, HandlersKeepInv, CrashKeepsInv DEF GNext
<1> QED BY <1>1, InitHasInv, PTL DEF GSpec

----------------------------------------------------------------------------
(* Rows, calls and commands keep their types, for any rows, users and faults. *)
THEOREM TypeCorrect == GSpec => []TypeOK
BY GatewayInvHolds, PTL DEF GatewayInv

(* Whatever was ready or delivered had been approved or waived by an owner,  *)
(* however late assessments end and however old the rows are that two        *)
(* processes write back.                                                     *)
THEOREM DeliveredWereDecided == GSpec => []DeliveredIsDecided
<1>1. GatewayInv => DeliveredIsDecided
  BY DEF GatewayInv, RowsOK, SaysTrue, Says, DecidedPrds, DeliveredIsDecided
<1> QED BY <1>1, GatewayInvHolds, PTL

(* A decided PRD that nobody waived carries the gate's pass. *)
THEOREM OnlyPassedAreApproved == GSpec => []ApprovedPassed
<1>1. GatewayInv => ApprovedPassed
  BY DEF GatewayInv, RowsOK, SaysTrue, Says, ApprovedPassed
<1> QED BY <1>1, GatewayInvHolds, PTL

(* Every PRD, whoever wrote it, is of an opportunity an owner approved. *)
THEOREM PrdsAreOfApproved == GSpec => []PrdHasApprovedOpp
<1>1. GatewayInv => PrdHasApprovedOpp
  BY DEF GatewayInv, RowsOK, PrdHasApprovedOpp
<1> QED BY <1>1, GatewayInvHolds, PTL

(* A set with no two elements has one at most. *)
LEMMA SoleIsOne ==
  ASSUME NEW set, Sole(set)
  PROVE  Cardinality(set) <= 1
<1>1. CASE set = {}
  BY <1>1, FS_EmptySet
<1>2. ASSUME NEW x \in set
      PROVE  Cardinality(set) = 1
  <2>1. set = {x}
    BY <1>2 DEF Sole
  <2> QED BY <2>1, FS_Singleton
<1> QED BY <1>1, <1>2

(* However often a command is run again after a fault, it has made one       *)
(* insight, one opportunity and one PRD at most; one never hit by a fault    *)
(* delivered and started one review at most.                                 *)
THEOREM CommandsMakeOne == GSpec => []CommandMakesOne
<1>1. GatewayInv => CommandMakesOne
  <2> SUFFICES ASSUME GatewayInv, NEW c \in Commands
               PROVE  /\ Cardinality(Mine(insights, c)) <= 1
                      /\ Cardinality(Mine(opps, c)) <= 1
                      /\ Cardinality(Mine(prds, c)) <= 1
                      /\ c \notin hit => /\ Cardinality({d \in deliveries : d.cmd = c}) <= 1
                                        /\ reviews[c] <= 1
    BY DEF CommandMakesOne
  <2>1. MadeOnce(c)
    BY DEF GatewayInv, CommandsOK
  <2>2. c \notin hit => reviews[c] <= 1
    BY <2>1 DEF MadeOnce
  <2>3. c \notin hit => Cardinality({d \in deliveries : d.cmd = c}) <= 1
    BY <2>1, SoleIsOne DEF MadeOnce, MineDelivered
  <2> QED BY <2>1, <2>2, <2>3, SoleIsOne DEF MadeOnce
<1> QED BY <1>1, GatewayInvHolds, PTL

=============================================================================
