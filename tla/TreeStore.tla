----------------------------- MODULE TreeStore -----------------------------
(***************************************************************************)
(* A verification tree: a copy of the primary project under                 *)
(* .fireforge/trees/<name>/, taken under the engine session lock (and the   *)
(* build lock, when the build is copied too), with a marker written last.   *)
(* Sources: core/tree-store.ts, core/tree-guard.ts, commands/tree.ts.       *)
(*                                                                         *)
(* Commands that change the primary's engine hold the engine session lock;  *)
(* editors, `rebase` and `download` do not.  A content is the number of the *)
(* write it comes from.  `tree create` may fail or be killed at any step,   *)
(* `tree remove` and a command be killed.                                   *)
(***************************************************************************)
EXTENDS Naturals

CONSTANTS
    Entries,                           \* of the project
    MaxWrites, MaxCreates, MaxStops    \* bounds

VARIABLES
    primary,    \* the primary's entries
    pending,    \* entries the command that holds the session lock has not written
    build,      \* a build of the primary is running (it holds the build lock)
    session,    \* who holds the engine session lock
    create,     \* what `tree create` does next
    withObjdir, \* ... --with-objdir
    there,      \* the tree's directory exists
    copied,     \* ... its entries, as far as it has them
    objdir,     \* ... its build: absent, torn, naming the primary, or relocated
    marker,     \* ... tree.json
    remove,     \* what `tree remove` does next
    test,       \* an in-tree test, by the tree's own session lock
    raced,      \* history: an entry was written without the lock during the copy
    doomed,     \* history: the test began after the removal had looked
    cut,        \* history: a removal was killed half-way
    writes, creates, stops

primaries == <<primary, pending, build>>
creation  == <<create, withObjdir>>
tree      == <<there, copied, objdir, marker>>
past      == <<raced, doomed, cut>>
bounds    == <<writes, creates, stops>>
vars      == <<primaries, session, creation, tree, remove, test, past, bounds>>

Missing  == MaxWrites + 1       \* no content
NoMarker == [there |-> FALSE, print |-> [e \in Entries |-> Missing], objdir |-> FALSE]
NoCopy   == [e \in Entries |-> Missing]

TypeOK ==
    /\ primary \in [Entries -> 0..MaxWrites] /\ pending \subseteq Entries /\ build \in BOOLEAN
    /\ session \in {"free", "command", "create"}
    /\ create \in {"idle", "lock", "copy", "objdir", "rewrite", "configure", "mark", "undo"}
    /\ withObjdir \in BOOLEAN /\ there \in BOOLEAN
    /\ copied \in [Entries -> 0..Missing]
    /\ objdir \in {"none", "torn", "primary", "tree"}
    /\ marker \in [there : BOOLEAN, print : [Entries -> 0..Missing], objdir : BOOLEAN]
    /\ remove \in {"idle", "rm"} /\ test \in {"none", "claimed", "running"}
    /\ raced \in BOOLEAN /\ doomed \in BOOLEAN /\ cut \in BOOLEAN
    /\ writes \in 0..MaxWrites /\ creates \in 0..MaxCreates /\ stops \in 0..MaxStops

Init ==
    /\ primary = [e \in Entries |-> 0] /\ pending = {} /\ build = FALSE /\ session = "free"
    /\ create = "idle" /\ withObjdir = FALSE
    /\ there = FALSE /\ copied = NoCopy /\ objdir = "none" /\ marker = NoMarker
    /\ remove = "idle" /\ test = "none"
    /\ raced = FALSE /\ doomed = FALSE /\ cut = FALSE
    /\ writes = 0 /\ creates = 0 /\ stops = 0

-----------------------------------------------------------------------------
(* The primary                                                              *)

(* A command takes the session lock and writes several entries.             *)
CommandBegins ==
    /\ session = "free" /\ session' = "command"
    /\ writes < MaxWrites /\ writes' = writes + 1
    /\ pending' = Entries
    /\ UNCHANGED <<primary, build, creation, tree, remove, test, past, creates, stops>>

CommandWrites(e) ==
    /\ e \in pending /\ pending' = pending \ {e}
    /\ primary' = [primary EXCEPT ![e] = writes]
    /\ UNCHANGED <<build, session, creation, tree, remove, test, past, bounds>>

CommandEnds ==
    /\ session = "command" /\ pending = {}
    /\ session' = "free"
    /\ UNCHANGED <<primaries, creation, tree, remove, test, past, bounds>>

(* A killed command leaves its work half done and its lock to whoever comes. *)
CommandKilled ==
    /\ session = "command" /\ session' = "free"
    /\ stops < MaxStops /\ stops' = stops + 1
    /\ pending' = {}
    /\ UNCHANGED <<primary, build, creation, tree, remove, test, past, writes, creates>>

(* An editor, or a command without the lock. *)
Edit(e) ==
    /\ writes < MaxWrites /\ writes' = writes + 1
    /\ pending = {}
    /\ primary' = [primary EXCEPT ![e] = writes']
    /\ raced' = (raced \/ create \notin {"idle", "lock"})
    /\ UNCHANGED <<pending, build, session, creation, tree, remove, test, doomed, cut,
                   creates, stops>>

(* withBuildLock: not while a build is being copied. *)
Building ==
    /\ withObjdir => create \in {"idle", "lock"}
    /\ build' = ~build
    /\ UNCHANGED <<primary, pending, session, creation, tree, remove, test, past, bounds>>

-----------------------------------------------------------------------------
(* tree create; the lifecycle lock keeps removals away.                     *)

Create ==
    /\ create = "idle" /\ remove = "idle" /\ ~there
    /\ creates < MaxCreates /\ creates' = creates + 1
    /\ create' = "lock" /\ withObjdir' \in BOOLEAN
    /\ UNCHANGED <<primaries, session, tree, remove, test, past, writes, stops>>

(* Mutant: the copy waits for nobody. *)
LockNothing ==
    /\ create = "lock"
    /\ withObjdir => ~build
    /\ session' = session /\ create' = "copy" /\ there' = TRUE
    /\ UNCHANGED <<primaries, withObjdir, copied, objdir, marker, remove, test, past, bounds>>

(* withEngineSessionLock, then withBuildLock. *)
Lock ==
    /\ create = "lock"
    /\ session = "free"
    /\ withObjdir => ~build
    /\ session' = "create" /\ create' = "copy" /\ there' = TRUE
    /\ UNCHANGED <<primaries, withObjdir, copied, objdir, marker, remove, test, past, bounds>>

(* cloneTree: the entries in any order, and of the build only the one asked  *)
(* for.                                                                      *)
CloneEntry(e) ==
    /\ create = "copy" /\ copied[e] = Missing
    /\ copied' = [copied EXCEPT ![e] = primary[e]]
    /\ UNCHANGED <<primaries, session, creation, there, objdir, marker, remove, test, past, bounds>>

Cloned ==
    /\ create = "copy" /\ \A e \in Entries : copied[e] # Missing
    /\ create' = IF withObjdir THEN "rewrite" ELSE "mark"
    /\ objdir' = CASE ~withObjdir -> "none" [] withObjdir /\ build -> "torn" [] OTHER -> "primary"
    /\ UNCHANGED <<primaries, session, withObjdir, there, copied, marker, remove, test, past, bounds>>

(* rewriteClonedObjdir: mozinfo.json; then mach configure for the rest.     *)
Rewrite ==
    /\ create = "rewrite" /\ create' = "configure"
    /\ UNCHANGED <<primaries, session, withObjdir, tree, remove, test, past, bounds>>

Reconfigure ==
    /\ create = "configure" /\ create' = "mark"
    /\ objdir' = IF objdir = "torn" THEN "torn" ELSE "tree"
    /\ UNCHANGED <<primaries, session, withObjdir, there, copied, marker, remove, test, past, bounds>>

(* The fingerprint is the primary's, taken after the copy.                  *)
Mark ==
    /\ create = "mark" /\ create' = "idle"
    /\ marker' = [there |-> TRUE, print |-> primary, objdir |-> withObjdir]
    /\ session' = IF session = "create" THEN "free" ELSE session
    /\ UNCHANGED <<primaries, withObjdir, there, copied, objdir, remove, test, past, bounds>>

CreateFails ==
    /\ create \in {"copy", "rewrite", "configure", "mark"}
    /\ stops < MaxStops /\ stops' = stops + 1
    /\ create' = "undo"
    /\ UNCHANGED <<primaries, session, withObjdir, tree, remove, test, past, writes, creates>>

(* A failed creation removes what there is of the tree.                     *)
Undo ==
    /\ create = "undo" /\ create' = "idle"
    /\ there' = FALSE /\ copied' = NoCopy /\ objdir' = "none" /\ marker' = NoMarker
    /\ session' = IF session = "create" THEN "free" ELSE session
    /\ raced' = FALSE
    /\ UNCHANGED <<primaries, withObjdir, remove, test, doomed, cut, bounds>>

CreateKilled ==
    /\ create # "idle"
    /\ stops < MaxStops /\ stops' = stops + 1
    /\ create' = "idle"
    /\ session' = IF session = "create" THEN "free" ELSE session
    /\ UNCHANGED <<primaries, withObjdir, tree, remove, test, past, writes, creates>>

-----------------------------------------------------------------------------
(* tree remove, and tests in the tree                                       *)

(* A holder refuses the removal; a lock without a readable owner does, too,  *)
(* unless --force is given.                                                  *)
Remove ==
    /\ remove = "idle" /\ create = "idle" /\ there
    /\ test # "running"
    /\ doomed' = (test = "claimed")
    /\ remove' = "rm"
    /\ UNCHANGED <<primaries, session, creation, tree, test, raced, cut, bounds>>

(* rm -r, entry by entry; a test that begins now has nothing to stand on.   *)
RemoveEntry(e) ==
    /\ remove = "rm" /\ copied[e] # Missing
    /\ copied' = [copied EXCEPT ![e] = Missing]
    /\ UNCHANGED <<primaries, session, creation, there, objdir, marker, remove, test, past, bounds>>

RemoveRest ==
    /\ remove = "rm" /\ remove' = "idle"
    /\ there' = FALSE /\ copied' = NoCopy /\ objdir' = "none" /\ marker' = NoMarker
    /\ raced' = FALSE /\ cut' = FALSE
    /\ UNCHANGED <<primaries, session, creation, test, doomed, bounds>>

RemoveKilled ==
    /\ remove = "rm" /\ remove' = "idle"
    /\ stops < MaxStops /\ stops' = stops + 1
    /\ cut' = TRUE
    /\ UNCHANGED <<primaries, session, creation, tree, test, raced, doomed, writes, creates>>

(* enforceTreeGuard lets a test without --build run where the marker names   *)
(* the copied build.  Its lock is a directory first, then a record.          *)
Test ==
    /\ test = "none" /\ marker.there /\ marker.objdir
    /\ test' = "claimed"
    /\ doomed' = (remove = "rm")
    /\ UNCHANGED <<primaries, session, creation, tree, remove, raced, cut, bounds>>

TestRecords ==
    /\ test = "claimed" /\ test' = "running"
    /\ UNCHANGED <<primaries, session, creation, tree, remove, past, bounds>>

TestEnds ==
    /\ test = "running" /\ test' = "none" /\ doomed' = FALSE
    /\ UNCHANGED <<primaries, session, creation, tree, remove, raced, cut, bounds>>

-----------------------------------------------------------------------------
Next ==
    \/ CommandBegins \/ CommandEnds \/ CommandKilled \/ Building
    \/ \E e \in Entries : CommandWrites(e) \/ Edit(e) \/ CloneEntry(e) \/ RemoveEntry(e)
    \/ Create \/ Lock \/ Cloned \/ Rewrite \/ Reconfigure \/ Mark
    \/ CreateFails \/ Undo \/ CreateKilled
    \/ Remove \/ RemoveRest \/ RemoveKilled
    \/ Test \/ TestRecords \/ TestEnds

Spec == Init /\ [][Next]_vars

-----------------------------------------------------------------------------
(* Properties *)

(* A tree with a marker is the primary the marker describes, never one a     *)
(* command was at work on, and its build is its own, unless somebody wrote   *)
(* without the session lock during the copy or its removal was killed; and a *)
(* test that began before a removal looked runs on such a tree.  What a      *)
(* killed command left half done is copied and described as it is.           *)
SnapshotTrue ==
    /\ marker.there /\ remove = "idle" /\ ~raced /\ ~cut =>
           copied = marker.print /\ (marker.objdir => objdir = "tree")
    /\ test = "running" /\ ~raced /\ ~cut /\ ~doomed =>
           copied = marker.print /\ objdir = "tree"
=============================================================================
