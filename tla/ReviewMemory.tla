---------------------------- MODULE ReviewMemory ----------------------------
(***************************************************************************)
(* The file of past review cases that the server and the command line      *)
(* share: read whole, changed and written whole, with no lock.             *)
(*   review/memory_store.py, run_review.py                                 *)
(* One review of a process at a time touches the file: the calls have no   *)
(* await in them.                                                          *)
(***************************************************************************)
EXTENDS Naturals, FiniteSets

CONSTANTS MemoryProcesses, Reviews, Seeds,
          MaxKills              \* bound on the processes killed in a write

ASSUME ReviewMemoryAssumption == MaxKills \in Nat

VARIABLES
    casesFile,   \* the file: [text: none, whole or torn; records, imported: sets]
    teller,      \* per process: what it does with the file
    reviewOf,    \* per review: waiting, the process that does it, ended or failed
    kills,
    remembered,  \* history: the reviews whose case was stored
    disturbed    \* history: two processes met at the file, or one was killed in a write

reviewMemoryVars == <<casesFile, teller, reviewOf, kills, remembered, disturbed>>

AtDesk == [step |-> "idle"]
Empty == [text |-> "whole", records |-> {}, imported |-> {}]

ReviewMemoryInit ==
    /\ casesFile = [Empty EXCEPT !.text = "none"]
    /\ teller = [p \in MemoryProcesses |-> AtDesk]
    /\ reviewOf = [r \in Reviews |-> "waiting"]
    /\ kills = 0 /\ remembered = {} /\ disturbed = FALSE

(* _load_payload: a file that is missing or does not parse counts as empty. *)
LoadPayload == IF casesFile.text = "whole" THEN casesFile ELSE Empty

(* import_seeds: each seed once, however often a review begins or ends. *)
ImportSeeds(payload) ==
    [payload EXCEPT !.records = @ \cup (Seeds \ payload.imported),
                    !.imported = @ \cup Seeds]

(* store_review_case: the case of this run replaces its earlier one. *)
StoreOfItself(payload, r) == [payload EXCEPT !.records = {r}]   \* Mutant: keeps no other
StoreCase(payload, r) == [payload EXCEPT !.records = @ \cup {r}]

(* Each of the two loads the file, then writes it: retrieve_similar's seeds *)
(* at the start of a review; its seeds and then its case at the end.        *)
Others(p) == {q \in MemoryProcesses \ {p} : teller[q] # AtDesk}
Meets(p) == disturbed' = (disturbed \/ Others(p) # {})

Load(p, r, task, payload) ==
    /\ teller' = [teller EXCEPT ![p] =
          [step |-> "loaded", task |-> task, review |-> r, payload |-> payload]]
    /\ Meets(p)

RetrieveSimilar(p, r) ==
    /\ teller[p] = AtDesk /\ reviewOf[r] \in {"waiting", p}
    /\ Load(p, r, "retrieve", ImportSeeds(LoadPayload))
    /\ reviewOf' = [reviewOf EXCEPT ![r] = p]
    /\ UNCHANGED <<casesFile, kills, remembered>>

EndOfReview(p, r) ==
    /\ teller[p] = AtDesk /\ reviewOf[r] = p
    /\ Load(p, r, "import", ImportSeeds(LoadPayload))
    /\ UNCHANGED <<casesFile, reviewOf, kills, remembered>>

StoreReviewCase(p) ==
    /\ teller[p].step = "imported"
    /\ Load(p, teller[p].review, "store", StoreCase(LoadPayload, teller[p].review))
    /\ UNCHANGED <<casesFile, reviewOf, kills, remembered>>

(* _write_payload: write_text empties the file, then fills it. *)
EmptyFile(p) ==
    /\ teller[p].step = "loaded"
    /\ casesFile' = [Empty EXCEPT !.text = "torn"]
    /\ teller' = [teller EXCEPT ![p].step = "writing"]
    /\ Meets(p)
    /\ UNCHANGED <<reviewOf, kills, remembered>>

(* Two writers at once may leave the end of the longer text behind. *)
After(p) ==
    CASE teller[p].task = "import" -> [step |-> "imported", review |-> teller[p].review]
      [] OTHER -> AtDesk

FillFile(p) ==
    /\ teller[p].step = "writing"
    /\ \/ casesFile' = teller[p].payload
       \/ /\ \E q \in Others(p) : teller[q].step = "writing"
          /\ casesFile' = [Empty EXCEPT !.text = "torn"]
    /\ teller' = [teller EXCEPT ![p] = After(p)]
    /\ IF teller[p].task = "store"
       THEN /\ remembered' = remembered \cup {teller[p].review}
            /\ reviewOf' = [reviewOf EXCEPT ![teller[p].review] = "ended"]
       ELSE UNCHANGED <<remembered, reviewOf>>
    /\ Meets(p)
    /\ UNCHANGED kills

(* A file that cannot be opened for writing keeps its text; the exception  *)
(* takes the review with it, before any of its outputs is written.         *)
WriteRefused(p) ==
    /\ teller[p].step = "loaded"
    /\ reviewOf' = [reviewOf EXCEPT ![teller[p].review] = "failed"]
    /\ teller' = [teller EXCEPT ![p] = AtDesk]
    /\ UNCHANGED <<casesFile, kills, remembered, disturbed>>

Killed(p) ==
    /\ teller[p] # AtDesk /\ kills < MaxKills
    /\ kills' = kills + 1
    /\ disturbed' = (disturbed \/ teller[p].step = "writing")
    /\ reviewOf' = [r \in Reviews |-> IF reviewOf[r] = p THEN "failed" ELSE reviewOf[r]]
    /\ teller' = [teller EXCEPT ![p] = AtDesk]
    /\ UNCHANGED <<casesFile, remembered>>

ReviewMemoryNext ==
    \E p \in MemoryProcesses :
        \/ \E r \in Reviews : RetrieveSimilar(p, r) \/ EndOfReview(p, r)
        \/ StoreReviewCase(p) \/ EmptyFile(p) \/ FillFile(p) \/ WriteRefused(p) \/ Killed(p)

----------------------------------------------------------------------------
(* The case of a review stays in the file, and no seed is lost, unless two *)
(* processes met at the file or one was killed while it wrote: reviews one *)
(* after the other, refused writes and killed readers lose nothing.        *)
AloneKeepsCases ==
    ~disturbed /\ casesFile.text = "whole"
        => remembered \cup Seeds \subseteq casesFile.records
=============================================================================
