-------------------------- MODULE ProjectMaterials --------------------------
(***************************************************************************)
(* The materials of one project and the reviews started from them.         *)
(*   service/materials_service.py, server/project_space.py,                *)
(*   server/command_gateway.py (connect_feishu)                            *)
(* Requests run on the event loop, one at a time between awaits; the sync  *)
(* worker's thread writes versions beside them.  A new version is three    *)
(* transactions: the version is read, the row inserted, the event recorded. *)
(* Rows are numbered in the order of their insertion.                      *)
(***************************************************************************)
EXTENDS Integers, Sequences, FiniteSets, SequencesExt, FiniteSetsExt

CONSTANTS Titles,
          Limits     \* the bounds looked at: rows inserted, reviews, restarts

ASSUME MaterialsAssumption == Limits \subseteq [rows : Nat, reviews : Nat, crashes : Nat]

VARIABLES
    sources,     \* project_sources: a row per id, or Deleted
    events,      \* project_events: what the timeline tells of which row
    writer,      \* how far the loop's and the worker's write has come
    reviews,     \* per request: what was read and whether its run is linked
    crashes,     \* restarts so far
    limit        \* the bounds of this behaviour

materialsVars == <<sources, events, writer, reviews, crashes, limit>>

Writers == {"loop", "worker"}
Deleted == [title |-> "deleted"]
Idle == [step |-> "idle"]

(* content: the row that first had this text, its checksum with it, or what   *)
(* connect_feishu found.  url: the row has one.  counted: the version is one  *)
(* more than the highest its title had when the version was read, with the    *)
(* first "seen" rows inserted.                                                *)
Own == 0
Document == -1

Source(title, url, version, parent, counted) ==
    [title |-> title, content |-> Own, url |-> url, version |-> version,
     parent |-> parent, counted |-> counted, seen |-> Len(sources)]

InsertedAs(row, id) == IF row.content = Own THEN [row EXCEPT !.content = id] ELSE row

Present == {s \in DOMAIN sources : sources[s] # Deleted}
OfTitle(title) == {s \in Present : sources[s].title = title}

MaterialsInit ==
    /\ limit \in Limits
    /\ sources = <<>> /\ events = {}
    /\ writer = [w \in Writers |-> Idle]
    /\ reviews = [r \in 1 .. limit.reviews |-> [step |-> "none"]]
    /\ crashes = 0

----------------------------------------------------------------------------
(* Every handler of the event loop begins when no other is between awaits. *)
LoopIsFree == writer["loop"] = Idle
Room == Len(sources) + Cardinality({w \in Writers : writer[w].step = "read"}) < limit.rows

(* resolve_version_info without a parent *)
NextVersion(title) == 1 + Max({0} \cup {sources[s].version : s \in OfTitle(title)})
Latest(title) ==
    IF OfTitle(title) = {} THEN 0
    ELSE CHOOSE s \in OfTitle(title) :
           \A t \in OfTitle(title) : sources[t].version <= sources[s].version

CountedUp(title, url) ==
    Source(title, url, NextVersion(title), Latest(title), TRUE)

(* resolve_version_info with a parent: its title, whatever was asked for *)
Under(parent, url) ==
    Source(sources[parent].title, url, sources[parent].version + 1, parent, FALSE)

BeginSource(w, source) ==
    /\ writer[w] = Idle /\ Room
    /\ writer' = [writer EXCEPT ![w] = [step |-> "read", source |-> source]]
    /\ UNCHANGED <<sources, events, reviews, crashes, limit>>

(* POST /sources and /sources/upload: under a parent or counted.  A text with *)
(* issues is stored all the same.                                             *)
AddSource(title, url) ==
    \/ BeginSource("loop", CountedUp(title, url))
    \/ \E p \in Present : BeginSource("loop", Under(p, url))

(* POST /sources/from-url, and the worker's handler: the fetch has answered. *)
FetchSource(w, title) == BeginSource(w, CountedUp(title, TRUE))

(* rollback_source: the old row again, above the highest of its title *)
Again(s, version) == [sources[s] EXCEPT !.version = version, !.parent = s, !.counted = TRUE,
                                        !.seen = Len(sources)]

RollBackInPlace(s) ==             \* Mutant: one more than the row rolled back to
    s \in Present /\ BeginSource("loop", Again(s, sources[s].version + 1))

RollBack(s) == s \in Present /\ BeginSource("loop", Again(s, NextVersion(sources[s].title)))

(* insert_source, then record_event *)
InsertSource(w) ==
    /\ writer[w].step = "read"
    /\ sources' = Append(sources, InsertedAs(writer[w].source, Len(sources) + 1))
    /\ writer' = [writer EXCEPT ![w] = [step |-> "wrote", kind |-> "arrived",
                                        id |-> Len(sources) + 1]]
    /\ UNCHANGED <<events, reviews, crashes, limit>>

RecordEvent(w) ==
    /\ writer[w].step = "wrote"
    /\ events' = events \cup {[kind |-> writer[w].kind, id |-> writer[w].id]}
    /\ writer' = [writer EXCEPT ![w] = Idle]
    /\ UNCHANGED <<sources, reviews, crashes, limit>>

(* PATCH of a source; its event is left out. *)
UpdateSource(s, title, url) ==
    /\ LoopIsFree /\ s \in Present
    /\ sources' = [sources EXCEPT ![s].title = title, ![s].url = url,
                                  ![s].counted = @ /\ title = sources[s].title]
    /\ UNCHANGED <<events, writer, reviews, crashes, limit>>

(* DELETE of a source: the row, then the event *)
DeleteSource(s) ==
    /\ LoopIsFree /\ s \in Present
    /\ sources' = [sources EXCEPT ![s] = Deleted]
    /\ writer' = [writer EXCEPT !["loop"] = [step |-> "wrote", kind |-> "deleted", id |-> s]]
    /\ UNCHANGED <<events, reviews, crashes, limit>>

----------------------------------------------------------------------------
(* _connect_feishu, after its fetch, in one transaction: the newest row with *)
(* the URL gets the document's text, its version kept; without one, a first  *)
(* version is inserted, whatever versions the title has.                     *)
Newest(s) == s \in Present /\ sources[s].url
                /\ \A t \in Present : sources[t].url => t <= s

ConnectAgain(s) ==
    /\ LoopIsFree /\ Newest(s)
    /\ sources' = [sources EXCEPT ![s].content = Document]
    /\ UNCHANGED <<events, writer, reviews, crashes, limit>>

InsertFirst(title, url) ==
    /\ LoopIsFree /\ Room
    /\ sources' = Append(sources, InsertedAs(Source(title, url, 1, 0, FALSE), Len(sources) + 1))
    /\ events' = events \cup {[kind |-> "arrived", id |-> Len(sources) + 1]}
    /\ UNCHANGED <<writer, reviews, crashes, limit>>

ConnectFirst(title) ==
    /\ \A s \in Present : ~sources[s].url
    /\ InsertFirst(title, TRUE)

(* _write_project_source: a confirmed PRD becomes a source. *)
Materialize(title) == InsertFirst(title, FALSE)

----------------------------------------------------------------------------
(* POST /reviews: the named source or the newest, any kind of source.  The  *)
(* text is read now; with a URL, the run reads the document there instead.  *)
AskReview(r, s) ==
    /\ LoopIsFree /\ s \in Present /\ reviews[r].step = "none"
    /\ reviews' = [reviews EXCEPT ![r] =
                     [step |-> "asked", id |-> s, live |-> sources[s].url,
                      text |-> sources[s].content]]
    /\ UNCHANGED <<sources, events, writer, crashes, limit>>

(* enqueue_review: the run's directory is allocated and its task created, *)
(* with awaits before and after.                                          *)
StartRun(r) ==
    /\ LoopIsFree /\ reviews[r].step = "asked"
    /\ reviews' = [reviews EXCEPT ![r].step = "started"]
    /\ UNCHANGED <<sources, events, writer, crashes, limit>>

LinkNewest(r) ==                  \* Mutant: the source is chosen again after the await
    /\ LoopIsFree /\ reviews[r].step = "started"
    /\ \E s \in Present :
          /\ \A t \in Present : t <= s
          /\ reviews' = [reviews EXCEPT ![r].step = "linked", ![r].id = s]
    /\ UNCHANGED <<sources, events, writer, crashes, limit>>

LinkRun(r) ==
    /\ LoopIsFree /\ reviews[r].step = "started"
    /\ reviews' = [reviews EXCEPT ![r].step = "linked"]
    /\ UNCHANGED <<sources, events, writer, crashes, limit>>

(* The database stays locked past its timeout, or no directory is free: the *)
(* request fails, and a run that was started stays without a project.       *)
Failed(review) == [step |-> IF review.step = "asked" THEN "refused" ELSE "orphan"]

FailReview(r) ==
    /\ LoopIsFree /\ reviews[r].step \in {"asked", "started"}
    /\ reviews' = [reviews EXCEPT ![r] = Failed(@)]
    /\ UNCHANGED <<sources, events, writer, crashes, limit>>

(* The process dies: committed rows stay, what was to follow does not. *)
Crash ==
    /\ crashes < limit.crashes /\ crashes' = crashes + 1
    /\ writer' = [w \in Writers |-> Idle]
    /\ reviews' = [r \in DOMAIN reviews |->
                     IF reviews[r].step \in {"asked", "started"} THEN Failed(reviews[r])
                                                                 ELSE reviews[r]]
    /\ UNCHANGED <<sources, events, limit>>

MaterialsNext ==
    \/ \E title \in Titles :
          \/ \E url \in BOOLEAN : AddSource(title, url)
          \/ \E w \in Writers : FetchSource(w, title)
          \/ ConnectFirst(title) \/ Materialize(title)
    \/ \E s \in DOMAIN sources :
          \/ RollBack(s) \/ DeleteSource(s)
          \/ \E title \in Titles, url \in BOOLEAN : UpdateSource(s, title, url)
          \/ ConnectAgain(s)
          \/ \E r \in DOMAIN reviews : AskReview(r, s)
    \/ \E w \in Writers : InsertSource(w) \/ RecordEvent(w)
    \/ \E r \in DOMAIN reviews : StartRun(r) \/ LinkRun(r) \/ FailReview(r)
    \/ Crash

----------------------------------------------------------------------------
(* Two rows counted up under one title share a version only when the later  *)
(* one was read before the earlier one was inserted, the sync worker beside *)
(* a request: never by rolling back, deleting or uploading in some order.   *)
VersionsApart ==
    \A s, t \in Present :
        /\ s < t /\ sources[s].counted /\ sources[t].counted
        /\ sources[s].title = sources[t].title /\ sources[s].version = sources[t].version
        => sources[t].seen < s

(* A row is a later version than the row it was made from, whatever was     *)
(* renamed, rolled back or overwritten since.                               *)
VersionAboveParent ==
    \A s \in Present : sources[s].parent \in Present
        => sources[s].version > sources[sources[s].parent].version

(* A run that reviewed stored text is linked to the row that holds exactly  *)
(* that text, as long as the row is there and connect_feishu has not put    *)
(* a document's text in it.                                                 *)
ReviewedTextKept ==
    \A r \in DOMAIN reviews :
        reviews[r].step = "linked" /\ ~reviews[r].live /\ reviews[r].id \in Present
        /\ sources[reviews[r].id].content # Document
        => sources[reviews[r].id].content = reviews[r].text

(* The timeline tells how every row came and that a row has gone, except    *)
(* for a write still under way and, after a restart, one per writer cut off. *)
Untold == {s \in DOMAIN sources :
             \/ [kind |-> "arrived", id |-> s] \notin events
             \/ sources[s] = Deleted /\ [kind |-> "deleted", id |-> s] \notin events}

TimelineTells ==
    Cardinality(Untold) <= Cardinality({w \in Writers : writer[w].step = "wrote"})
                             + crashes * Cardinality(Writers)
=============================================================================
