-------------------------- MODULE ArtifactVersions --------------------------
(***************************************************************************)
(* The versions of a workspace's artifacts: rows of a database that are    *)
(* only added, a row for the workspace with a pointer to the current       *)
(* version of each artifact, and the files the versions' contents are in.  *)
(* Four calls make versions or rewrite the workspace: a patch of a         *)
(* version, a version derived from another, the review of a version, a new *)
(* roadmap.  All are coroutines of one process; each database operation is *)
(* one transaction and an await, and other calls run between any two.  The *)
(* transactions may fail, and the process may end, at each.                *)
(***************************************************************************)
EXTENDS Naturals, Sequences, SequencesExt, FiniteSetsExt

CONSTANTS
  Callers,      \* coroutines that serve calls
  Patches,      \* sequences of operations a patch may consist of
  FirstBlocks,  \* the blocks of the document the first version is of
  Missing,      \* a file or row that is not there
  Torn,         \* the content of a file opened for writing and not written out
  Failed,       \* what operations that do not fit leave
  MaxVersions, MaxCalls, MaxFaults, MaxCrashes   \* bounds of the model

ASSUME VersionsAssumption ==
  /\ MaxVersions \in Nat /\ MaxCalls \in 0..(MaxVersions - 1)
  /\ MaxFaults \in Nat /\ MaxCrashes \in Nat
  /\ Missing # Torn

VARIABLES
  versions,   \* artifact_versions: the row of each version id
  workspace,  \* the row in workspaces
  links,      \* artifact_review_runs: version reviewed, version of the result
  disk,       \* content_path -> content
  job,        \* the call each coroutine is inside of
  issued,     \* version ids given out so far
  children,   \* history: how many calls have made something of each version
  planned,    \* history: the roadmap saved last
  calm,       \* history: no two calls overlapped, nothing failed, no crash
  calls, faults, crashes

rows == <<versions, workspace, links>>
counters == <<calls, faults, crashes>>
avars == <<rows, disk, job, issued, children, planned, calm, counters>>

-----------------------------------------------------------------------------
(* Documents and patches.  A document is a version and blocks, a block an  *)
(* id and a text; an operation names a target block and what it expects.   *)

Ids(blocks) == {blocks[i].id : i \in DOMAIN blocks}
Place(blocks, id) == CHOOSE i \in DOMAIN blocks : blocks[i].id = id

SetField(blocks, i, op) ==
  IF blocks[i].text = op.old THEN ReplaceAt(blocks, i, [blocks[i] EXCEPT !.text = op.new]) ELSE Failed
AppendField(blocks, i, op) == ReplaceAt(blocks, i, [blocks[i] EXCEPT !.text = @ \o op.new])
InsertBlock(blocks, i, op) ==
  IF op.block.id \in Ids(blocks) THEN Failed ELSE InsertAt(blocks, i, op.block)
DeleteBlock(blocks, i, op) ==
  IF blocks[i].text = op.old THEN RemoveAt(blocks, i) ELSE Failed

ApplyOp(blocks, op) ==
  IF op.target \notin Ids(blocks) THEN Failed
  ELSE LET i == Place(blocks, op.target)
       IN CASE op.action \in {"set_field", "replace_text"} -> SetField(blocks, i, op)
            [] op.action = "append_text"         -> AppendField(blocks, i, op)
            [] op.action = "insert_block_before" -> InsertBlock(blocks, i, op)
            [] op.action = "insert_block_after"  -> InsertBlock(blocks, i + 1, op)
            [] op.action = "delete_block"        -> DeleteBlock(blocks, i, op)

(* All the operations, each on what those before it left, or none. *)
ApplyPatch(blocks, ops) ==
  FoldLeft(LAMBDA b, op : IF b = Failed THEN Failed ELSE ApplyOp(b, op), blocks, ops)

IsDocument(d) == d \notin {Missing, Torn} /\ d.version > 0
Report == [version |-> 0, blocks |-> <<>>]   \* what a review writes is no document

-----------------------------------------------------------------------------
(* Rows, paths and calls.                                                  *)

Prd == "prd"
Result == "prd.review_result"
Keys == {Prd, Result}
VersionIds == 1..MaxVersions

Original == <<"original", 0>>
PatchPath(doc) == <<"patches", doc.version>>
ReportPath(run) == <<"runs", run>>
Paths == {Original} \cup {<<"patches", n>> : n \in 1..(MaxVersions + 1)}
                    \cup {ReportPath(run) : run \in 1..MaxCalls}

FirstDocument == [version |-> 1, blocks |-> FirstBlocks]
FirstRow == [key |-> Prd, number |-> 1, parent |-> 0, path |-> Original, sum |-> FirstDocument]

NoPointers == [k \in Keys |-> 0]

\* A workspace that is not there is none that is.
ASSUME WorkspaceAssumption == Missing \notin [current : [Keys -> Nat], roadmap : Nat]

(* Rows are inserted or replaced, one or several in a transaction. *)
Upon(new, table) ==
  [v \in DOMAIN new \cup DOMAIN table |-> IF v \in DOMAIN new THEN new[v] ELSE table[v]]
Put(id, row, table) == Upon([v \in {id} |-> row], table)

NoCall == [at |-> "none"]   \* of a coroutine that serves none

(* One version, written by hand, of an artifact whose workspace may be missing. *)
AInit ==
  /\ versions = Put(1, FirstRow, <<>>) /\ issued = 1
  /\ workspace \in {Missing, [current |-> [NoPointers EXCEPT ![Prd] = 1], roadmap |-> 0]}
  /\ links = {}
  /\ disk = [p \in Paths |-> IF p = Original THEN FirstDocument ELSE Missing]
  /\ job = [c \in Callers |-> NoCall]
  /\ children = [v \in VersionIds |-> 0]
  /\ planned = 0 /\ calm = TRUE
  /\ calls = 0 /\ faults = 0 /\ crashes = 0

At(c, step) == job[c].at = step
Goto(c, j) == job' = [job EXCEPT ![c] = j]
Leave(c) == Goto(c, NoCall)
Over(c, result) == Goto(c, [at |-> "over", result |-> result])

(* A call on version v; run names the review, or the roadmap, it is to make. *)
Started(op, v, run) == [at |-> op, src |-> v, id |-> 0, new |-> Missing, copy |-> Missing,
                        doc |-> Missing, run |-> run]

Fault == faults < MaxFaults /\ faults' = faults + 1 /\ calm' = FALSE
NoFault == UNCHANGED <<faults, calm>>

(* A version id is made with the row it is for. *)
Issue(c, row, j, step) ==
  /\ issued' = issued + 1
  /\ Goto(c, [j EXCEPT !.id = issued + 1, !.new = row, !.at = step])

(* What get_workspace returns: the workspace with all the versions it has. *)
Copy == [current |-> workspace.current, roadmap |-> workspace.roadmap, rows |-> versions]

(* upsert_workspace: the row, and every version of the copy, whatever came in between. *)
SaveRowOnly(copy) ==
  /\ workspace' = [current |-> copy.current, roadmap |-> copy.roadmap]
  /\ UNCHANGED versions
SaveWorkspace(copy) ==
  /\ workspace' = [current |-> copy.current, roadmap |-> copy.roadmap]
  /\ versions' = Upon(copy.rows, versions)

WithAside(copy, j) == [copy EXCEPT !.rows = Put(j.id, j.new, @)]
With(copy, j) ==
  [copy EXCEPT !.rows = Put(j.id, j.new, @), !.current = [@ EXCEPT ![j.new.key] = j.id]]

MadeOf(v) == children' = [children EXCEPT ![v] = @ + 1]

-----------------------------------------------------------------------------
(* apply_artifact_patch_async, started by the clarification handlers.      *)

Source(c) == versions[job[c].src]
Fits(row, key, base, ops) == key = row.key /\ base = row.number /\ ops # <<>>

PatchRejected(c, key, base, ops) ==
  LET doc == disk[Source(c).path]
  IN /\ At(c, "patch")
     /\ \/ ~Fits(Source(c), key, base, ops)
        \/ IsDocument(doc) /\ ApplyPatch(doc.blocks, ops) = Failed
     /\ Over(c, "rejected")
     /\ UNCHANGED <<rows, disk, issued, children, planned, calm, counters>>

PatchRaised(c) ==
  /\ At(c, "patch")
  /\ \/ ~IsDocument(disk[Source(c).path]) /\ NoFault
     \/ Fault
  /\ Over(c, "raised")
  /\ UNCHANGED <<rows, disk, issued, children, planned, calls, crashes>>

(* The file is opened: what it held is gone. *)
PatchOpen(c, key, base, ops) ==
  LET doc  == disk[Source(c).path]
      next == [version |-> doc.version + 1, blocks |-> ApplyPatch(doc.blocks, ops)]
  IN /\ At(c, "patch")
     /\ Fits(Source(c), key, base, ops)
     /\ IsDocument(doc) /\ next.blocks # Failed
     /\ disk' = [disk EXCEPT ![PatchPath(next)] = Torn]
     /\ MadeOf(job[c].src)
     /\ Goto(c, [job[c] EXCEPT !.doc = next, !.at = "write"])
     /\ UNCHANGED <<rows, issued, planned, calm, counters>>

PatchWrite(c) ==
  LET doc == job[c].doc
      row == [key |-> Source(c).key, number |-> Source(c).number + 1, parent |-> job[c].src,
              path |-> PatchPath(doc), sum |-> doc]
  IN /\ At(c, "write")
     /\ disk' = [disk EXCEPT ![PatchPath(doc)] = doc]
     /\ Issue(c, row, [job[c] EXCEPT !.doc = Missing], "insert")
     /\ UNCHANGED <<rows, children, planned, calm, counters>>

InsertRow(c, step) ==
  /\ versions' = Put(job[c].id, job[c].new, versions)
  /\ Goto(c, [job[c] EXCEPT !.at = step])
  /\ NoFault

PatchInsert(c) ==
  /\ At(c, "insert")
  /\ \/ InsertRow(c, "merge")
     \/ Over(c, "raised") /\ Fault /\ UNCHANGED versions
  /\ UNCHANGED <<workspace, links, disk, issued, children, planned, calls, crashes>>

(* A workspace that cannot be read is taken for one that is not there. *)
PatchMerge(c) ==
  LET anew == [current |-> NoPointers, roadmap |-> 0, rows |-> Put(job[c].src, Source(c), <<>>)]
  IN /\ At(c, "merge")
     /\ \/ /\ Goto(c, [job[c] EXCEPT !.at = "save", !.copy =
                        With(IF workspace = Missing THEN anew ELSE Copy, job[c])])
           /\ NoFault
        \/ /\ Goto(c, [job[c] EXCEPT !.at = "save", !.copy = With(anew, job[c])])
           /\ Fault
     /\ UNCHANGED <<rows, disk, issued, children, planned, calls, crashes>>

PatchSave(c) ==
  /\ At(c, "save")
  /\ \/ SaveWorkspace(job[c].copy) /\ Over(c, "applied") /\ NoFault
     \/ Over(c, "raised") /\ Fault /\ UNCHANGED <<workspace, versions>>
  /\ UNCHANGED <<links, disk, issued, children, planned, calls, crashes>>

-----------------------------------------------------------------------------
(* Deriving a version and replacing the roadmap, over HTTP.  What either   *)
(* writes is built on the workspace read first, and neither asks whether   *)
(* its transactions succeeded.                                             *)

DeriveLoad(c) ==
  /\ At(c, "derive")
  /\ \/ /\ workspace # Missing /\ NoFault
        /\ LET n == Max({0} \cup {versions[v].number : v \in {w \in DOMAIN versions :
                                   versions[w].key = Source(c).key}})
           IN Issue(c, [Source(c) EXCEPT !.number = n + 1, !.parent = job[c].src],
                    [job[c] EXCEPT !.copy = Copy], "derive_insert")
        /\ MadeOf(job[c].src)
     \/ /\ workspace = Missing /\ NoFault /\ Leave(c) /\ UNCHANGED <<issued, children>>
     \/ /\ Fault /\ Leave(c) /\ UNCHANGED <<issued, children>>
  /\ UNCHANGED <<rows, disk, planned, calls, crashes>>

DeriveInsert(c) ==
  /\ At(c, "derive_insert")
  /\ \/ versions' = Put(job[c].id, job[c].new, versions) /\ NoFault
     \/ UNCHANGED versions /\ Fault
  /\ Goto(c, [job[c] EXCEPT !.copy = With(@, job[c]), !.at = "blind_save"])
  /\ UNCHANGED <<workspace, links, disk, issued, children, planned, calls, crashes>>

RoadmapLoad(c) ==
  /\ At(c, "roadmap")
  /\ \/ /\ workspace # Missing /\ NoFault
        /\ Goto(c, [job[c] EXCEPT !.copy = [Copy EXCEPT !.roadmap = job[c].run], !.at = "blind_save"])
     \/ workspace = Missing /\ NoFault /\ Leave(c)
     \/ Fault /\ Leave(c)
  /\ UNCHANGED <<rows, disk, issued, children, planned, calls, crashes>>

BlindSave(c) ==
  /\ At(c, "blind_save")
  /\ \/ SaveWorkspace(job[c].copy) /\ planned' = job[c].copy.roadmap /\ NoFault
     \/ UNCHANGED <<workspace, versions, planned>> /\ Fault
  /\ Leave(c)
  /\ UNCHANGED <<links, disk, issued, children, calls, crashes>>

-----------------------------------------------------------------------------
(* review_artifact_version_async: a review of the version's text, minutes  *)
(* long, whose report becomes a version of another artifact.               *)

ReviewDone(c) ==
  /\ At(c, "review")
  /\ disk' = [disk EXCEPT ![ReportPath(job[c].run)] = Report]
  /\ Goto(c, [job[c] EXCEPT !.at = "review_list"])
  /\ UNCHANGED <<rows, issued, children, planned, calm, counters>>

ReviewFailed(c) ==
  /\ At(c, "review") /\ Leave(c)
  /\ UNCHANGED <<rows, disk, issued, children, planned, calm, counters>>

(* The last of the rows ordered by number, among those with the highest any. *)
Latest ==
  LET results == {v \in DOMAIN versions : versions[v].key = Result}
  IN {v \in results : \A w \in results : versions[w].number <= versions[v].number}

ResultRow(number, parent, run) ==
  [key |-> Result, number |-> number, parent |-> parent, path |-> ReportPath(run), sum |-> Report]

ReviewList(c) ==
  /\ At(c, "review_list")
  /\ \/ /\ Latest = {} /\ NoFault
        /\ Issue(c, ResultRow(1, 0, job[c].run), job[c], "review_insert")
     \/ /\ NoFault
        /\ \E v \in Latest :
             Issue(c, ResultRow(versions[v].number + 1, v, job[c].run), job[c], "review_insert")
     \/ Fault /\ Leave(c) /\ UNCHANGED issued
  /\ UNCHANGED <<rows, disk, children, planned, calls, crashes>>

ReviewInsert(c) ==
  /\ At(c, "review_insert")
  /\ \/ InsertRow(c, "review_merge")
     \/ Leave(c) /\ Fault /\ UNCHANGED versions
  /\ UNCHANGED <<workspace, links, disk, issued, children, planned, calls, crashes>>

(* Here only a workspace that is not there is made anew. *)
ReviewMerge(c) ==
  LET anew == [current |-> [NoPointers EXCEPT ![Source(c).key] = job[c].src],
               roadmap |-> 0, rows |-> Put(job[c].src, Source(c), <<>>)]
  IN /\ At(c, "review_merge")
     /\ \/ /\ Goto(c, [job[c] EXCEPT !.at = "review_save", !.copy =
                        With(IF workspace = Missing THEN anew ELSE Copy, job[c])])
           /\ NoFault
        \/ Leave(c) /\ Fault
     /\ UNCHANGED <<rows, disk, issued, children, planned, calls, crashes>>

ReviewSave(c) ==
  /\ At(c, "review_save")
  /\ \/ SaveWorkspace(job[c].copy) /\ Goto(c, [job[c] EXCEPT !.at = "link"]) /\ NoFault
     \/ Leave(c) /\ Fault /\ UNCHANGED <<workspace, versions>>
  /\ UNCHANGED <<links, disk, issued, children, planned, calls, crashes>>

ReviewLink(c) ==
  /\ At(c, "link")
  /\ \/ links' = links \cup {<<job[c].src, job[c].id>>} /\ NoFault
     \/ UNCHANGED links /\ Fault
  /\ Leave(c)
  /\ UNCHANGED <<versions, workspace, disk, issued, children, planned, calls, crashes>>

-----------------------------------------------------------------------------
StepOfPatch(c) ==
  \/ \E key \in Keys, base \in VersionIds, ops \in Patches \cup {<<>>} :
       PatchRejected(c, key, base, ops) \/ PatchOpen(c, key, base, ops)
  \/ PatchRaised(c) \/ PatchWrite(c) \/ PatchInsert(c) \/ PatchMerge(c) \/ PatchSave(c)

StepOfCall(c) ==
  \/ DeriveLoad(c) \/ DeriveInsert(c) \/ RoadmapLoad(c) \/ BlindSave(c)
  \/ ReviewDone(c) \/ ReviewFailed(c) \/ ReviewList(c) \/ ReviewInsert(c)
  \/ ReviewMerge(c) \/ ReviewSave(c) \/ ReviewLink(c)

-----------------------------------------------------------------------------
Row(r) ==
  /\ r.key \in Keys /\ r.number \in VersionIds /\ r.parent \in 0..issued
  /\ r.path \in Paths /\ r.sum.version \in 0..MaxVersions

Pointers == [Keys -> 0..MaxVersions]

VersionsTypeOK ==
  /\ issued \in VersionIds
  /\ DOMAIN versions \subseteq 1..issued
  /\ \A v \in DOMAIN versions : Row(versions[v])
  /\ workspace # Missing => workspace.current \in Pointers /\ workspace.roadmap \in 0..MaxCalls
  /\ links \subseteq VersionIds \X VersionIds
  /\ \A p \in Paths : disk[p] \notin {Missing, Torn} => disk[p].version \in 0..MaxVersions
  /\ children \in [VersionIds -> 0..MaxCalls]
  /\ planned \in 0..MaxCalls /\ calm \in BOOLEAN
  /\ calls \in 0..MaxCalls /\ faults \in 0..MaxFaults /\ crashes \in 0..MaxCrashes

(* Whatever is named is there: current versions, parents, both ends of a     *)
(* review's link.  A version is of its parent's artifact and comes after it. *)
PointersResolve ==
  /\ workspace # Missing => \A k \in Keys : workspace.current[k] # 0 =>
       /\ workspace.current[k] \in DOMAIN versions
       /\ versions[workspace.current[k]].key = k
  /\ \A v \in DOMAIN versions : versions[v].parent # 0 =>
       /\ versions[v].parent \in DOMAIN versions
       /\ versions[versions[v].parent].key = versions[v].key
       /\ versions[versions[v].parent].number < versions[v].number
  /\ \A l \in links : l[1] \in DOMAIN versions /\ l[2] \in DOMAIN versions

(* No row is changed or lost, though a workspace is saved with every version *)
(* of a copy read before, in place of those inserted since.                  *)
RowsAreKept ==
  [][ /\ DOMAIN versions \subseteq DOMAIN versions'
      /\ \A v \in DOMAIN versions : versions'[v] = versions[v] ]_versions

(* While no version has been patched or derived from twice, the file of each *)
(* holds what its checksum is of.  Two patches of one version share a file.  *)
LinearKeepsSnapshots ==
  (\A v \in VersionIds : children[v] <= 1) =>
    \A v \in DOMAIN versions : disk[versions[v].path] = versions[v].sum

(* No two blocks of a document share an id, after any patches: a document *)
(* in which two do is never read again.                                   *)
BlockIdsUnique ==
  \A p \in Paths : IsDocument(disk[p]) =>
    \A i, j \in DOMAIN disk[p].blocks :
      disk[p].blocks[i].id = disk[p].blocks[j].id => i = j

(* Alone, a workspace points at the version of each artifact made last. *)
PointersAreLast ==
  workspace # Missing =>
    /\ \A k \in Keys :
         workspace.current[k] = Max({0} \cup {v \in DOMAIN versions : versions[v].key = k})
    /\ workspace.roadmap = planned
=============================================================================
