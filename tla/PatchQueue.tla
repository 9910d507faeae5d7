------------------------------ MODULE PatchQueue ------------------------------
(***************************************************************************)
(* The patch queue on disk: the .patch files of a directory and the rows of *)
(* patches.json beside them, and every command that has to move the two    *)
(* together: export, export at a place, reorder, compact, update, delete,   *)
(* the rebuild of the manifest. A command runs under the patch directory    *)
(* lock (FileLock), so one runs at a time; what it cannot exclude is that   *)
(* one of its file operations fails half-way, that an undo step fails too,  *)
(* or that the process dies between two of them.                            *)
(*                                                                         *)
(* A file operation is one step: writes go through a temporary file and a   *)
(* rename, so each of them happens or does not. A patch is known by an      *)
(* identity; its body and its row each carry a version, standing for the    *)
(* diff and for the filesAffected that must describe it. Retired and        *)
(* reserved slots, policies, lint gates and the history log are left out.   *)
(***************************************************************************)
EXTENDS Naturals, Sequences, FiniteSets, FiniteSetsExt, Functions, SequencesExt, TLC

CONSTANTS
  Patches,      \* identities of patches
  Listed,       \* those the queue starts with, in this order (a sequence)
  Slug,         \* the category-name part of the file name of a patch
  MaxOrder,     \* bound: the highest order number
  MaxCommands,  \* bound: commands run
  MaxFaults,    \* bound: file operations that fail
  MaxCrashes    \* bound: commands that die half-way

VARIABLES
  disk,     \* the .patch files: a function from the names present to bodies
  rows,     \* patches.json
  pc,       \* where the running command is, "idle" when the lock is free
  cmd,      \* what it computed before it touched anything
  at,       \* the renames of a renumbering it has started, counted from 1
  undo,     \* the compensating steps it still has to take
  before,   \* the directory as the lock was taken
  outcome,  \* how the last command ended
  spoiled,  \* TRUE once a compensating step has failed (and was warned of)
  commands, faults, crashes

vars == <<disk, rows, pc, cmd, at, undo, before, outcome, spoiled,
          commands, faults, crashes>>
counts == <<commands, faults, crashes>>

Orders == 1 .. MaxOrder

\* A file name: NNN-category-name.patch, or the staging name a renumbering
\* gives it, unique to the run (run > 0).
FileName == [order : Orders, slug : {Slug[p] : p \in Patches}, run : 0 .. MaxCommands]
NameOf(order, p) == [order |-> order, slug |-> Slug[p], run |-> 0]
Staging(n) == [n EXCEPT !.run = commands]

Body == [id : Patches, ver : {0, 1}]
NoBody == [id |-> "none", ver |-> 0]
Row == [id : Patches, ver : {0, 1}, name : FileName]

Placed == {r \in rows : r.name.run = 0}
Ids == {disk[n].id : n \in DOMAIN disk} \cup {r.id : r \in rows}

\* The directory after one file operation.
Put(d, n, b) == [m \in DOMAIN d \cup {n} |-> IF m = n THEN b ELSE d[m]]
Without(d, n) == Restrict(d, DOMAIN d \ {n})
Renamed(d, from, to) == Put(Without(d, from), to, d[from])

-----------------------------------------------------------------------------
(* Which patches a command renames, and to what.                             *)

Move(r, order) == [from |-> r.name, to |-> [r.name EXCEPT !.order = order]]
At(R, order) == CHOOSE r \in R : r.name.order = order

\* The first free order from one on.
Gap(R, order) == Min({k \in order .. MaxOrder + 1 : \A r \in R : r.name.order # k})

\* Making room at an order: the run of occupied orders that starts there moves
\* up by one and the first gap absorbs it.
Shifted(R, order) ==
  [i \in 1 .. Gap(R, order) - order |-> Move(At(R, order + i - 1), order + i)]

ReorderMoves(r, order) == Append(Shifted(Placed \ {r}, order), Move(r, order))

\* Compaction: the rows past the first gap close up, in their order.
Ranked(rank) ==
  CHOOSE r \in Placed : Cardinality({s \in Placed : s.name.order <= r.name.order}) = rank
(* Mutant: the ranks count from zero. *)
CompactFromZero ==
  [i \in 1 .. Cardinality(Placed) |-> Move(Ranked(i), i - 1)]
CompactMoves ==
  LET gap == Gap(Placed, 1) IN
  [i \in 1 .. Cardinality(Placed) + 1 - gap |-> Move(Ranked(gap + i - 1), gap + i - 1)]

\* Where a default export goes: one past the highest number on disk.
NextOrder == Max({n.order : n \in {m \in DOMAIN disk : m.run = 0}} \cup {0}) + 1

Inverted(moves) == [i \in DOMAIN moves |-> [from |-> moves[i].to, to |-> moves[i].from]]

\* The shape a renumbered manifest must have before it is saved.
WellFormed(R) ==
  /\ \A r \in R : r.name.run = 0
  /\ \A r, s \in R : r.name.order = s.name.order => r = s

RowsAfter(moves) ==
  {LET ms == {i \in DOMAIN moves : moves[i].from = r.name}
   IN IF ms = {} THEN r ELSE [r EXCEPT !.name = moves[CHOOSE i \in ms : TRUE].to] : r \in rows}

-----------------------------------------------------------------------------
(* Steps of compensation.                                                    *)

Back(from, to) == [do |-> "rename", from |-> from, to |-> to]
Rewrite(n, b) == [do |-> "put", name |-> n, body |-> b]
Unlinked(n) == [do |-> "remove", name |-> n]
Invert == [do |-> "inverse"]
RestoreRows == [do |-> "save"]

\* The target file as it was: its old content, or no file.
PutBack(n) ==
  IF n \in DOMAIN before.disk THEN <<Rewrite(n, before.disk[n])>> ELSE <<Unlinked(n)>>

(* Mutant: the body already written is left. *)
CleanupKeepsBody ==
  CASE cmd.kind = "export" ->
         SetToSeq({Rewrite(n, before.disk[n]) : n \in cmd.drop}) \o <<RestoreRows>>
    [] cmd.kind = "place" ->
         (IF cmd.committed THEN <<Invert>> ELSE <<>>) \o <<RestoreRows>>
    [] cmd.kind \in {"inverse", "delete"} -> <<RestoreRows>>
    [] OTHER -> <<>>

\* What the body of the command does in its catch. A placement undoes its
\* renumbering only if that one was committed.
Cleanup ==
  CASE cmd.kind = "export" ->
         PutBack(cmd.name) \o
         SetToSeq({Rewrite(n, before.disk[n]) : n \in cmd.drop}) \o <<RestoreRows>>
    [] cmd.kind = "place" ->
         PutBack(cmd.name) \o (IF cmd.committed THEN <<Invert>> ELSE <<>>) \o <<RestoreRows>>
    [] cmd.kind = "inverse" -> <<RestoreRows>>
    [] cmd.kind = "update" -> IF pc = "row" THEN PutBack(cmd.name) ELSE <<>>
    [] cmd.kind = "delete" -> IF pc = "unlink" THEN <<RestoreRows>> ELSE <<>>
    [] OTHER -> <<>>

\* The renames of a renumbering, all files aside first, then all into place.
Half == Len(cmd.moves)
RenameAt(i) ==
  IF i <= Half
  THEN [from |-> cmd.moves[i].from, to |-> Staging(cmd.moves[i].from)]
  ELSE [from |-> Staging(cmd.moves[i - Half].from), to |-> cmd.moves[i - Half].to]

BackFrom(first, last) ==
  [i \in 1 .. last + 1 - first |->
     LET s == RenameAt(first - 1 + i) IN Back(s.to, s.from)]

\* A failure in the first phase puts the staged files back; one in the second
\* stages the placed ones again and then puts all back; one in the manifest
\* write renames each file from its new name to its old one.
Unwind ==
  IF at <= Half THEN BackFrom(1, at - 1) ELSE BackFrom(Half + 1, at - 1) \o BackFrom(1, Half)
Unplace == [i \in DOMAIN cmd.moves |-> Back(cmd.moves[i].to, cmd.moves[i].from)]

-----------------------------------------------------------------------------
Plan(kind, name, body, moves, drop) ==
  [kind |-> kind, name |-> name, body |-> body, moves |-> moves, drop |-> drop,
   committed |-> FALSE]
NoName == NameOf(1, Listed[1])
NoCommand == Plan("none", NoName, NoBody, <<>>, {})

Init ==
  /\ disk = [n \in {NameOf(i, Listed[i]) : i \in DOMAIN Listed} |->
               [id |-> Listed[n.order], ver |-> 0]]
  /\ rows = {[id |-> Listed[i], ver |-> 0, name |-> NameOf(i, Listed[i])] : i \in DOMAIN Listed}
  /\ pc = "idle" /\ cmd = NoCommand /\ at = 1 /\ undo = <<>>
  /\ before = [disk |-> disk, rows |-> rows]
  /\ outcome = "none" /\ spoiled = FALSE
  /\ commands = 0 /\ faults = 0 /\ crashes = 0

(* The commands. Each takes the lock, reads the directory and computes its  *)
(* plan before it changes anything; a plan it refuses never starts.         *)

Begin(c, label) ==
  /\ pc = "idle" /\ commands < MaxCommands
  /\ commands' = commands + 1
  /\ cmd' = c /\ pc' = label /\ at' = 1 /\ undo' = <<>>
  /\ before' = [disk |-> disk, rows |-> rows] /\ outcome' = "running"
  /\ UNCHANGED <<disk, rows, spoiled, faults, crashes>>

Fresh(p) == p \notin Ids
NewBody(p) == [id |-> p, ver |-> 0]

\* A new patch at the end of the queue, superseding those it covers.
Export(p) ==
  /\ Fresh(p) /\ NextOrder \in Orders
  /\ \E covered \in SUBSET ({r.name : r \in rows} \cap DOMAIN disk) :
       Begin(Plan("export", NameOf(NextOrder, p), NewBody(p), <<>>, covered), "write")

\* A new patch at a place in the queue. (Bound: renumberings start from a
\* manifest whose slots are distinct, and move no row recovered under a staging
\* name; a manifest that is otherwise takes an unrepaired crash.)
Place(p, order) ==
  LET moves == Shifted(Placed, order) IN
  /\ Fresh(p) /\ WellFormed(Placed) /\ \A i \in DOMAIN moves : moves[i].to.order \in Orders
  /\ Begin(Plan("place", NameOf(order, p), NewBody(p), moves, {}),
           IF moves = <<>> THEN "write" ELSE "rename")

Reorder(r, order) ==
  LET moves == ReorderMoves(r, order) IN
  /\ WellFormed(Placed) /\ order # r.name.order
  /\ order <= Max({s.name.order : s \in Placed \ {r}} \cup {0}) + 1
  /\ order >= Min({s.name.order : s \in Placed})
  /\ \A i \in DOMAIN moves : moves[i].to.order \in Orders
  /\ Begin(Plan("renumber", NoName, NoBody, moves, {}), "rename")

Compact ==
  /\ WellFormed(Placed) /\ CompactMoves # <<>>
  /\ Begin(Plan("renumber", NoName, NoBody, CompactMoves, {}), "rename")

\* A body and its row rewritten together.
Update(r) ==
  /\ r.name \in DOMAIN disk /\ r.ver = 0
  /\ Begin(Plan("update", r.name, [id |-> r.id, ver |-> 1], <<>>, {}), "write")

\* delete, and retire but for the slot it leaves.
Delete(r) == Begin(Plan("delete", r.name, NoBody, <<>>, {}), "unrow")

\* The rebuild of patches.json from the files: one row per file, the staging
\* names a dead renumbering left included, a row that exists keeping the rest.
Repair ==
  /\ pc = "idle" /\ commands < MaxCommands
  /\ commands' = commands + 1 /\ outcome' = "repaired"
  /\ rows' = {[id |-> IF \E r \in rows : r.name = n
                      THEN (CHOOSE r \in rows : r.name = n).id ELSE disk[n].id,
               ver |-> disk[n].ver, name |-> n] : n \in DOMAIN disk}
  /\ before' = [disk |-> disk, rows |-> rows]
  /\ UNCHANGED <<disk, pc, cmd, at, undo, spoiled, faults, crashes>>

-----------------------------------------------------------------------------
(* Their steps.                                                              *)

End(how) == pc' = "idle" /\ outcome' = how /\ cmd' = NoCommand /\ at' = 1 /\ undo' = <<>>
Goto(label) == pc' = label /\ UNCHANGED <<cmd, at, undo, outcome>>

\* A step fails and the command turns to compensation, or on with it when the
\* step was one of the inverse renumbering.
Compensate(steps) ==
  /\ pc' = "undo" /\ undo' = steps /\ at' = 1
  /\ spoiled' = (spoiled \/ cmd.kind = "inverse")
  /\ UNCHANGED <<disk, rows, cmd, before, outcome, commands, crashes>>
Fault == faults < MaxFaults /\ faults' = faults + 1

CanRename ==
  LET s == RenameAt(at) IN s.from \in DOMAIN disk /\ (at > Half => s.to \notin DOMAIN disk)

RenameNext ==
  /\ pc = "rename" /\ CanRename
  /\ disk' = Renamed(disk, RenameAt(at).from, RenameAt(at).to)
  /\ at' = at + 1 /\ pc' = IF at = 2 * Half THEN "save" ELSE "rename"
  /\ UNCHANGED <<rows, cmd, undo, before, outcome, spoiled, counts>>

RenameFails ==
  /\ pc = "rename"
  /\ IF CanRename THEN Fault ELSE UNCHANGED faults
  /\ Compensate(Unwind \o Cleanup)

\* The manifest write that makes a renumbering visible.
SaveRenumbered ==
  /\ pc = "save" /\ WellFormed(RowsAfter(cmd.moves))
  /\ rows' = RowsAfter(cmd.moves) /\ at' = 1
  /\ CASE cmd.kind = "renumber" -> End("done")
       [] cmd.kind = "place" -> /\ pc' = "write" /\ cmd' = [cmd EXCEPT !.committed = TRUE]
                                /\ UNCHANGED <<undo, outcome>>
       [] cmd.kind = "inverse" -> /\ pc' = "undo" /\ undo' = Cleanup
                                  /\ UNCHANGED <<cmd, outcome>>
  /\ UNCHANGED <<disk, before, spoiled, counts>>

(* Mutant: the files stay where the renumbering put them. *)
SaveFailsInPlace ==
  /\ pc = "save"
  /\ IF WellFormed(RowsAfter(cmd.moves)) THEN Fault ELSE UNCHANGED faults
  /\ Compensate(Cleanup)

SaveFails ==
  /\ pc = "save"
  /\ IF WellFormed(RowsAfter(cmd.moves)) THEN Fault ELSE UNCHANGED faults
  /\ Compensate(Unplace \o Cleanup)

WriteBody ==
  /\ pc = "write" /\ disk' = Put(disk, cmd.name, cmd.body) /\ Goto("row")
  /\ UNCHANGED <<rows, before, spoiled, counts>>

(* Mutant: the superseded rows are not removed. *)
WriteRowBeside ==
  /\ pc = "row"
  /\ rows' = {r \in rows : r.name # cmd.name}
             \cup {[id |-> cmd.body.id, ver |-> cmd.body.ver, name |-> cmd.name]}
  /\ IF cmd.drop = {} THEN End("done") ELSE Goto("drop")
  /\ UNCHANGED <<disk, before, spoiled, counts>>

\* The row, with the superseded rows removed in the same write.
WriteRow ==
  /\ pc = "row"
  /\ rows' = IF cmd.kind = "update"
             THEN {IF r.name = cmd.name THEN [r EXCEPT !.ver = cmd.body.ver] ELSE r : r \in rows}
             ELSE {r \in rows : r.name \notin cmd.drop \cup {cmd.name}}
                  \cup {[id |-> cmd.body.id, ver |-> cmd.body.ver, name |-> cmd.name]}
  /\ IF cmd.drop = {} THEN End("done") ELSE Goto("drop")
  /\ UNCHANGED <<disk, before, spoiled, counts>>

DropSuperseded ==
  /\ pc = "drop"
  /\ \E n \in cmd.drop \cap DOMAIN disk :
       /\ disk' = Without(disk, n)
       /\ IF cmd.drop \cap DOMAIN disk = {n} THEN End("done") ELSE Goto("drop")
  /\ UNCHANGED <<rows, before, spoiled, counts>>

RemoveRow ==
  /\ pc = "unrow" /\ rows' = {r \in rows : r.name # cmd.name} /\ Goto("unlink")
  /\ UNCHANGED <<disk, before, spoiled, counts>>

Unlink ==
  /\ pc = "unlink" /\ disk' = Without(disk, cmd.name) /\ End("done")
  /\ UNCHANGED <<rows, before, spoiled, counts>>

StepFails ==
  /\ pc \in {"write", "row", "drop", "unrow", "unlink"} /\ Fault
  /\ Compensate(Cleanup)

\* One compensating step.
Compensation ==
  LET s == Head(undo) IN
  CASE s.do = "rename" -> /\ s.from \in DOMAIN disk
                          /\ disk' = Renamed(disk, s.from, s.to) /\ UNCHANGED rows
    [] s.do = "put"    -> disk' = Put(disk, s.name, s.body) /\ UNCHANGED rows
    [] s.do = "remove" -> disk' = Without(disk, s.name) /\ UNCHANGED rows
    [] s.do = "save"   -> rows' = before.rows /\ UNCHANGED disk
    [] s.do = "inverse" -> FALSE

UndoStep ==
  /\ pc = "undo" /\ undo # <<>> /\ Compensation
  /\ undo' = Tail(undo)
  /\ UNCHANGED <<pc, cmd, at, before, outcome, spoiled, counts>>

\* One that fails is warned of and skipped.
UndoFails ==
  /\ pc = "undo" /\ undo # <<>> /\ Head(undo).do # "inverse"
  /\ IF Head(undo).do = "rename" /\ Head(undo).from \notin DOMAIN disk
     THEN UNCHANGED faults ELSE Fault
  /\ spoiled' = TRUE /\ undo' = Tail(undo)
  /\ UNCHANGED <<disk, rows, pc, cmd, at, before, outcome, commands, crashes>>

\* A failed placement renumbers back, which is a renumbering like any other.
StartInverse ==
  /\ pc = "undo" /\ undo # <<>> /\ Head(undo).do = "inverse"
  /\ cmd' = [cmd EXCEPT !.kind = "inverse", !.moves = Inverted(cmd.moves)]
  /\ pc' = "rename" /\ at' = 1 /\ undo' = <<>>
  /\ UNCHANGED <<disk, rows, before, outcome, spoiled, counts>>

Failed ==
  /\ pc = "undo" /\ undo = <<>> /\ End("failed")
  /\ UNCHANGED <<disk, rows, before, spoiled, counts>>

\* The process dies, or a signal ends it: the next command finds what is there.
Crash ==
  /\ pc # "idle" /\ crashes < MaxCrashes /\ crashes' = crashes + 1
  /\ End("crashed")
  /\ UNCHANGED <<disk, rows, before, spoiled, commands, faults>>

Command ==
  \/ \E p \in Patches : Export(p)
  \/ \E p \in Patches, order \in Orders : Place(p, order)
  \/ \E r \in Placed, order \in Orders : Reorder(r, order)
  \/ Compact
  \/ \E r \in rows : Update(r)
  \/ \E r \in rows : Delete(r)
  \/ Repair

Step ==
  \/ RenameNext \/ RenameFails \/ SaveRenumbered \/ SaveFails
  \/ WriteBody \/ WriteRow \/ DropSuperseded \/ RemoveRow \/ Unlink \/ StepFails
  \/ UndoStep \/ UndoFails \/ StartInverse \/ Failed

Next == Command \/ Step \/ Crash

Spec == Init /\ [][Next]_vars

-----------------------------------------------------------------------------
(* Properties.                                                               *)

\* Every variable stays in its range (patch-manifest-io.ts, patch-export.ts).
TypeOK ==
  /\ DOMAIN disk \subseteq FileName /\ Range(disk) \subseteq Body /\ rows \subseteq Row
  /\ pc \in {"idle", "rename", "save", "write", "row", "drop", "unrow", "unlink", "undo"}
  /\ cmd.kind \in {"none", "export", "place", "renumber", "inverse", "update", "delete"}
  /\ at \in 1 .. 2 * Half + 1 /\ spoiled \in BOOLEAN
  /\ outcome \in {"none", "running", "done", "failed", "crashed", "repaired"}
  /\ commands <= MaxCommands /\ faults <= MaxFaults /\ crashes <= MaxCrashes

\* No command loses the body of a patch it leaves in the manifest: whatever step
\* fails and wherever the process dies, a body that was in the directory as the
\* lock was taken is still in some file of it while a row lists the patch. A
\* renumbering may leave it under another name, never nowhere
\* (renumberPatchesInManifest, commitExportedPatch, removePatchFileAndManifest).
HasBody(d, p) == \E n \in DOMAIN d : d[n].id = p
ListedIsKept ==
  ~spoiled => \A r \in rows : HasBody(before.disk, r.id) => HasBody(disk, r.id)

\* A command that fails leaves the directory and the manifest as it found them,
\* as long as its own compensation did not fail (the failure semantics written
\* above renumberPatchesInManifest and in the rollback of both exports).
FailedRestores ==
  pc = "idle" /\ outcome = "failed" /\ ~spoiled => disk = before.disk /\ rows = before.rows

\* Between commands no file is untracked, no row dangles and each row describes
\* the body beside it, unless a process died or a compensation failed
\* (validatePatchesManifestConsistency).
AgreeAtRest ==
  pc = "idle" /\ crashes = 0 /\ ~spoiled =>
    rows = {[id |-> disk[n].id, ver |-> disk[n].ver, name |-> n] : n \in DOMAIN disk}
=============================================================================
