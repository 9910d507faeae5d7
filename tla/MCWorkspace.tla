---------------------------- MODULE MCWorkspace ----------------------------
(***************************************************************************)
(* The records a project keeps beside its engine, and the patches it lays   *)
(* over it, each by itself: state files, patch queue, import, parked edits, *)
(* the downloaded source and the copies of the tree.                        *)
(* They share no state that two of these modules describe, so `part` picks *)
(* one of them at the start and the others stay as they are.                *)
(***************************************************************************)
EXTENDS StateFile, Sequences, TLC

CONSTANTS
    p1, p2, p3, p4,
    Patches, Listed, Slug, MaxOrder, MaxCommands, MaxCrashes,
    PatchFiles, Created, Hunks, Labels, MaxEdits, MaxStops,
    MaxAttempts, Entries, MaxWrites, MaxCreates,
    f, g, n, h1, h2, h3, stale, edit, whole,
    EngineFiles, Order, Added, Changes, Edits, New, Needs, Clashes, Never, Starts,
    ImportPatches, NoPatch, MaxImports, MaxChanges, MaxGitFaults

VARIABLES
    part,
    disk, rows, qpc, cmd, at, undo, before, outcome, spoiled, qcommands, qfaults, crashes,
    source, parks, step, label, plan, todo, mode, made, praced, runs, edits, pstops,
    tree, bodies, unresolved, ipc, force, onward, until, i, attempt, saved, applied, firstFailed,
    seen, settled, disturbed, again, imports, changes, gitFaults,
    tarball, archive, metadata, tmp, fresh, engine, backups, stamp, furnace, dpc, dforce,
    replacing, tries, agreed, worked, late, dcommands, dfaults,
    primary, pending, build, session, create, withObjdir, there, copied, objdir, marker,
    remove, test, traced, doomed, cut, writes, creates, tstops

queueVars  == <<disk, rows, qpc, cmd, at, undo, before, outcome, spoiled, qcommands, qfaults,
                crashes>>
parkVars   == <<source, parks, step, label, plan, todo, mode, made, praced, runs, edits, pstops>>
importVars == <<tree, bodies, unresolved, ipc, force, onward, until, i, attempt, saved, applied,
                firstFailed, seen, settled, disturbed, again, imports, changes, gitFaults>>
sourceVars == <<tarball, archive, metadata, tmp, fresh, engine, backups, stamp, furnace, dpc,
                dforce, replacing, tries, agreed, worked, late, dcommands, dfaults>>
treeVars   == <<primary, pending, build, session, create, withObjdir, there, copied, objdir,
                marker, remove, test, traced, doomed, cut, writes, creates, tstops>>

Queue == INSTANCE PatchQueue WITH
    pc <- qpc, commands <- qcommands, faults <- qfaults

Park == INSTANCE ParkStore WITH
    Files <- PatchFiles, raced <- praced, stops <- pstops

Source == INSTANCE Download WITH
    part <- archive, force <- dforce, pc <- dpc, commands <- dcommands, faults <- dfaults

Trees == INSTANCE TreeStore WITH
    raced <- traced, stops <- tstops

QueueStart == <<p1, p2>>
OwnSlugs   == [p \in Patches |-> p]

ImportQueue == <<p1, p2, p3, p4>>

Body(inF, inG, inN) ==
    [x \in EngineFiles |-> CASE x = f -> inF [] x = g -> inG [] OTHER -> inN]

\* p1 and p2 share f, p2 and p4 share g, and p3 changes what p2 brought there.
Overlapping ==
    p1 :> Body({h1}, {}, {}) @@ p2 :> Body({h2}, {h2}, {}) @@
    p3 :> Body({}, {h3}, {}) @@ p4 :> Body({}, {h1}, {})

\* A hunk of p2 no longer matches HEAD; p3 changes what p1 brought to f; n is not the queue's.
Drifted ==
    p1 :> Body({h1}, {}, {}) @@ p2 :> Body({}, {h2, stale}, {}) @@
    p3 :> Body({h3}, {}, {}) @@ p4 :> Body({}, {h1}, {})

\* p1 and p2 share f, p3 and p4 share g; p2 creates n as well.
InPairs ==
    p1 :> Body({h1}, {}, {}) @@ p2 :> Body({h2}, {}, {whole}) @@
    p3 :> Body({}, {h1}, {}) @@ p4 :> Body({}, {h2}, {})

StartBodies == {Overlapping, Drifted, InPairs}
HunkNeeds   == {<<g, h3, h2>>, <<g, edit, h2>>, <<f, h3, h1>>}
HunkClashes == {<<f, edit, h1>>}

Import == INSTANCE Import WITH
    Patches <- ImportPatches, pc <- ipc, last <- until

Parts == {"state", "queue", "park", "import", "source", "trees"}

(* What the proofs ask of the constants: bounds are numbers, a download is   *)
(* tried at least once, no hunk is called what an absent file is, and the    *)
(* queue an import lays over the engine has a patch and is made of patches.  *)
ParkBounds ==
    /\ "absent" \notin Hunks
    /\ MaxCommands \in Nat /\ MaxEdits \in Nat /\ MaxStops \in Nat

SourceBounds == MaxCommands \in Nat /\ MaxFaults \in Nat /\ MaxAttempts \in Nat \ {0}

TreeBounds == MaxWrites \in Nat /\ MaxCreates \in Nat /\ MaxStops \in Nat

ImportBounds ==
    /\ Order \in Seq(ImportPatches) /\ Order # <<>> /\ NoPatch \notin ImportPatches
    /\ Starts \subseteq [ImportPatches -> [EngineFiles -> SUBSET Changes]]
    /\ New \in Changes /\ Edits \subseteq Changes
    /\ MaxImports \in Nat /\ MaxChanges \in Nat /\ MaxGitFaults \in Nat

QueueBounds ==
    /\ Listed \in Seq(Patches) /\ Listed # <<>> /\ Len(Listed) <= MaxOrder
    /\ \A j, k \in DOMAIN Listed : Listed[j] = Listed[k] => j = k
    /\ MaxOrder \in Nat /\ MaxCommands \in Nat /\ MaxFaults \in Nat /\ MaxCrashes \in Nat

ASSUME WorkspaceAssumption ==
    ParkBounds /\ SourceBounds /\ TreeBounds /\ ImportBounds /\ QueueBounds

workspaceVars == <<part, vars, queueVars, parkVars, importVars, sourceVars, treeVars>>

WorkspaceInit ==
    /\ part \in Parts
    /\ Init /\ Queue!Init /\ Park!Init /\ Import!Init /\ Source!Init /\ Trees!Init
    /\ part # "park" => label = (CHOOSE l \in Labels : TRUE)
    /\ part # "import" => bodies = (CHOOSE b \in Starts : TRUE)
    /\ part # "source" => stamp = Source!NoGen

Others(p) ==
    /\ part = p /\ part' = part
    /\ p # "state" => UNCHANGED vars
    /\ p # "queue" => UNCHANGED queueVars
    /\ p # "park" => UNCHANGED parkVars
    /\ p # "import" => UNCHANGED importVars
    /\ p # "source" => UNCHANGED sourceVars
    /\ p # "trees" => UNCHANGED treeVars

WorkspaceNext ==
    \/ Others("state") /\ Next
    \/ Others("queue") /\ Queue!Next
    \/ Others("park") /\ Park!Next
    \/ Others("import") /\ Import!Next
    \/ Others("source") /\ Source!Next
    \/ Others("trees") /\ Trees!Next

WorkspaceSpec == WorkspaceInit /\ [][WorkspaceNext]_workspaceVars

(* Bound of TLC: a failing git call of an import is one of its two changes from outside. *)
FewTroubles == changes + gitFaults <= MaxChanges

(* The variables of every store stay in their types. *)
StoreTypes ==
    /\ part = "state" => TypeOK
    /\ part = "queue" => Queue!TypeOK
    /\ part = "park" => Park!TypeOK
    /\ part = "import" => Import!TypeOK
    /\ part = "source" => Source!TypeOK
    /\ part = "trees" => Trees!TypeOK

(* The properties of each, stated in its module. *)
ListedIsKept   == part = "queue" => Queue!ListedIsKept
FailedRestores == part = "queue" => Queue!FailedRestores
AgreeAtRest    == part = "queue" => Queue!AgreeAtRest
ParkedKept     == part = "park" => Park!WorkKept
WorkKept       == part = "source" => Source!WorkKept
EngineWhole    == part = "source" => Source!EngineWhole
SnapshotTrue   == part = "trees" => Trees!SnapshotTrue
EditsKept      == part = "import" => Import!EditsKept
Delivers       == part = "import" => Import!Delivers
ForceRecovers  == part = "import" => Import!ForceRecovers
ReimportIsNoOp == part = "import" => Import!ReimportIsNoOp
=============================================================================
