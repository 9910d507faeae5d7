------------------------------- MODULE Import -------------------------------
(***************************************************************************)
(* `fireforge import` lays the patch queue over the engine's working tree, *)
(* patch by patch with git apply; resolve turns a conflict the operator has *)
(* fixed into the patch's new body; discard and reset take the tree back.   *)
(* HEAD is the pristine source, so a file is the set of hunks it has beyond *)
(* HEAD.  Import takes no lock: the operator may edit while it runs.        *)
(***************************************************************************)
EXTENDS Integers, Sequences, FiniteSets

CONSTANTS
    Patches,      \* patch files
    Order,        \* the queue: a sequence of all patches
    EngineFiles,  \* engine files the queue or the operator touches
    Added,        \* those of EngineFiles that HEAD does not have
    Changes,      \* hunks, in whatever file
    Edits,        \* those of Changes that the operator makes
    New,          \* the hunk that creates a file of Added
    Needs,        \* <<f, h, g>>: in f, hunk h changes lines that hunk g brought
    Clashes,      \* <<f, h, g>>: in f, hunks h and g change the same lines of HEAD
    Never,        \* hunks whose context HEAD no longer has
    Starts,       \* bodies the patches may start with
    NoPatch,
    MaxImports, MaxChanges, MaxGitFaults

VARIABLES
    tree,         \* engine file -> hunks in it
    bodies,       \* patch -> engine file -> the hunks its section for it has
    unresolved,   \* state.json's pendingResolution
    pc, force, onward, last,   \* the command: step, --force, --continue, index of --until
    i, attempt,   \* patch being applied; first, retry (new files overwritten) or reject
    saved,        \* contents overwritten for the retry: set of <<file, hunks>>
    applied,      \* applied so far: sequence of [patch, saved]
    firstFailed,
    seen, settled, disturbed, again,  \* observers, read by no action
    imports, changes, gitFaults

vars == <<tree, bodies, unresolved, pc, force, onward, last, i, attempt, saved, applied,
          firstFailed, seen, settled, disturbed, again, imports, changes, gitFaults>>

command  == <<force, onward, last>>
progress == <<i, attempt, saved, applied, firstFailed>>
watch    == <<seen, settled, disturbed, again>>
budget   == <<imports, changes, gitFaults>>

TypeOK ==
    /\ tree \in [EngineFiles -> SUBSET Changes]
    /\ bodies \in [Patches -> [EngineFiles -> SUBSET Changes]]
    /\ unresolved \in Patches \cup {NoPatch} /\ firstFailed \in Patches \cup {NoPatch}
    /\ pc \in {"idle", "check", "reverse", "checkout", "delete", "forward", "failed", "rollback",
               "report", "done", "unpend"}
    /\ force \in BOOLEAN /\ onward \in BOOLEAN /\ last \in 1..Len(Order)
    /\ i \in 1..Len(Order) + 1 /\ attempt \in {"first", "retry", "reject"}
    /\ saved \subseteq EngineFiles \X SUBSET Changes
    /\ applied \in Seq([patch : Patches, saved : SUBSET (EngineFiles \X SUBSET Changes)])
    /\ Len(applied) < i
    /\ settled \in BOOLEAN /\ disturbed \in BOOLEAN
    /\ again \in 0..MaxImports /\ imports \in 0..MaxImports
    /\ changes \in 0..MaxChanges /\ gitFaults \in 0..MaxGitFaults

(***************************************************************************)
(* What git apply makes of one section of a patch, and files and patches.   *)
(***************************************************************************)
\* The context of hunk h is there: it is not yet applied, and what it changes is present
\* or comes with the same section.
Matches(f, h, section, content) ==
    /\ h \notin content /\ h \notin Never
    /\ \A g \in Changes : <<f, h, g>> \in Needs => g \in content \cup section
    /\ \A g \in content : <<f, h, g>> \notin Clashes /\ <<f, g, h>> \notin Clashes

Fits(f, section, content) ==
    IF New \in section THEN content = {}
    ELSE \A h \in section : Matches(f, h, section, content) /\ (f \in Added => content # {})

\* Reversed, a section leaves what it applies to, and takes nothing a later hunk builds on.
Unfits(f, section, content) ==
    /\ section \subseteq content /\ Fits(f, section, content \ section)
    /\ \A h \in content \ section, g \in section : <<f, h, g>> \notin Needs

\* Changes of a section that build on each other share a hunk: all of them match, or none.
Matching(f, section, content) ==
    UNION {K \in SUBSET section :
             /\ \A h \in K : Matches(f, h, section, content)
             /\ \A h \in K, g \in section :
                    <<f, h, g>> \in Needs \/ <<f, g, h>> \in Needs => g \in K}

Touched(p) == {f \in EngineFiles : bodies[p][f] # {}}
Claimed    == UNION {Touched(p) : p \in Patches}
Protected  == UNION {Touched(applied[k].patch) : k \in DOMAIN applied}

\* createPatchedContentContext: HEAD folded through the patches that list the file;
\* "torn" when a hunk's context does not match.
Expected(f) ==
    LET fold[k \in 0..Len(Order)] ==
            IF k = 0 THEN [ok |-> TRUE, content |-> {}]
            ELSE LET before == fold[k - 1]
                     section == bodies[Order[k]][f]
                     absent == f \in Added /\ before.content = {} /\ New \notin section
                 IN  IF ~before.ok \/ absent THEN before
                     ELSE IF New \in section \/ Fits(f, section, before.content)
                     THEN [ok |-> TRUE, content |-> before.content \cup section]
                     ELSE [before EXCEPT !.ok = FALSE]
    IN  fold[Len(Order)]

Clean == [f \in EngineFiles |-> {}]

Init ==
    /\ tree = Clean /\ bodies \in Starts /\ unresolved = NoPatch
    /\ pc = "idle" /\ force = FALSE /\ onward = FALSE /\ last = Len(Order)
    /\ i = 1 /\ attempt = "first" /\ saved = {} /\ applied = <<>> /\ firstFailed = NoPatch
    /\ seen = Clean /\ settled = FALSE /\ disturbed = FALSE /\ again = 0
    /\ imports = 0 /\ changes = 0 /\ gitFaults = 0

Importing == pc \notin {"idle", "check", "unpend"}

Idle ==
    /\ pc' = "idle" /\ force' = FALSE /\ onward' = FALSE /\ last' = Len(Order)
    /\ i' = 1 /\ attempt' = "first" /\ saved' = {} /\ applied' = <<>> /\ firstFailed' = NoPatch
    /\ seen' = Clean /\ settled' = FALSE /\ disturbed' = FALSE

(***************************************************************************)
(* import.                                                                  *)
(***************************************************************************)
\* The drift, consistency and integrity gates change nothing; a prompt may be confirmed.
Start(until, withForce, withContinue) ==
    /\ pc = "idle" /\ imports < MaxImports
    /\ pc' = "check" /\ last' = until /\ force' = withForce /\ onward' = withContinue
    /\ imports' = imports + 1
    /\ UNCHANGED <<tree, bodies, unresolved, progress, watch, changes, gitFaults>>

\* Mutant: what git diff alone reports, without the files HEAD does not have.
DirtyTracked   == {f \in Claimed \ Added : tree[f] # {}}
DirtyFiles     == {f \in Claimed : tree[f] # {}}
UnmanagedFiles == {f \in DirtyFiles : tree[f] # Expected(f).content}

\* A dirty file whose baseline cannot be computed stops the import, forced or not.
Check ==
    /\ pc = "check"
    /\ IF \/ \E f \in DirtyFiles : ~Expected(f).ok
          \/ UnmanagedFiles # {} /\ ~force
       THEN Idle /\ UNCHANGED again
       ELSE /\ pc' = "reverse" /\ seen' = tree
            /\ settled' = (/\ last = Len(Order)
                           /\ \A f \in Claimed : Expected(f).ok /\ tree[f] = Expected(f).content)
            /\ UNCHANGED <<command, progress, disturbed, again>>
    /\ UNCHANGED <<tree, bodies, unresolved, budget>>

Current == Order[i]
Body    == bodies[Current]

\* Mutant: a patch that does not reverse is applied to what there is.
ReverseAlone ==
    /\ pc = "reverse" /\ i <= last /\ pc' = "forward"
    /\ tree' = IF \A f \in Touched(Current) : Unfits(f, Body[f], tree[f])
               THEN [f \in EngineFiles |-> tree[f] \ Body[f]] ELSE tree
    /\ UNCHANGED <<bodies, unresolved, command, progress, watch, budget>>

\* git apply is all or nothing: the whole patch reverses, or nothing does.
Reverse ==
    /\ pc = "reverse" /\ i <= last
    /\ IF \A f \in Touched(Current) : Unfits(f, Body[f], tree[f])
       THEN /\ tree' = [f \in EngineFiles |-> tree[f] \ Body[f]]
            /\ pc' = "forward"
       ELSE pc' = "checkout" /\ UNCHANGED tree
    /\ UNCHANGED <<bodies, unresolved, command, progress, watch, budget>>

\* Mutant: files of earlier patches are reset as well.
EveryFile  == Touched(Current)
Resettable == Touched(Current) \ Protected

\* What HEAD has of the patch's files, those of earlier patches of this run excepted.
Checkout ==
    /\ pc = "checkout"
    /\ tree' = [f \in EngineFiles |-> IF f \in Resettable \ Added THEN {} ELSE tree[f]]
    /\ pc' = "delete"
    /\ UNCHANGED <<bodies, unresolved, command, progress, watch, budget>>

CheckoutFails ==
    /\ pc = "checkout" /\ Resettable # {} /\ gitFaults < MaxGitFaults
    /\ pc' = "failed" /\ gitFaults' = gitFaults + 1 /\ disturbed' = TRUE
    /\ UNCHANGED <<tree, bodies, unresolved, command, progress, seen, settled, again, imports,
                   changes>>

Delete ==
    /\ pc = "delete"
    /\ tree' = [f \in EngineFiles |-> IF f \in Resettable \cap Added THEN {} ELSE tree[f]]
    /\ pc' = "forward"
    /\ UNCHANGED <<bodies, unresolved, command, progress, watch, budget>>

Advance == pc' = "reverse" /\ i' = i + 1 /\ attempt' = "first" /\ saved' = {}

Forward ==
    /\ pc = "forward" /\ attempt # "reject"
    /\ IF \A f \in Touched(Current) : Fits(f, Body[f], tree[f])
       THEN /\ tree' = [f \in EngineFiles |-> tree[f] \cup Body[f]]
            /\ applied' = Append(applied, [patch |-> Current, saved |-> saved])
            /\ Advance /\ UNCHANGED firstFailed
       ELSE pc' = "failed" /\ UNCHANGED <<tree, progress>>
    /\ UNCHANGED <<bodies, unresolved, command, watch, budget>>

FirstFailed == IF firstFailed = NoPatch THEN Current ELSE firstFailed

GiveUp ==
    /\ firstFailed' = FirstFailed
    /\ IF onward THEN Advance ELSE pc' = "rollback" /\ UNCHANGED <<i, attempt, saved>>
    /\ UNCHANGED applied

\* With --reject every hunk that matches is applied; the patch has failed all the same.
Reject ==
    /\ pc = "forward" /\ attempt = "reject"
    /\ tree' = [f \in EngineFiles |->
                  IF New \in Body[f] THEN (IF tree[f] = {} THEN Body[f] ELSE tree[f])
                  ELSE IF f \in Added /\ tree[f] = {} THEN {}
                  ELSE tree[f] \cup Matching(f, Body[f], tree[f])]
    /\ GiveUp
    /\ UNCHANGED <<bodies, unresolved, command, watch, budget>>

InTheWay == {f \in Touched(Current) : New \in Body[f] /\ tree[f] # {}}

\* New files that already exist are overwritten with the patch's content, and tried again.
Overwrite ==
    /\ pc = "failed" /\ attempt = "first" /\ InTheWay # {}
    /\ saved' = {<<f, tree[f]>> : f \in InTheWay}
    /\ tree' = [f \in EngineFiles |-> IF f \in InTheWay THEN Body[f] ELSE tree[f]]
    /\ pc' = "reverse" /\ attempt' = "retry"
    /\ UNCHANGED <<bodies, unresolved, command, i, applied, firstFailed, watch, budget>>

\* A section that cannot be extracted: what was overwritten is put back, no --reject.
OverwriteFails ==
    /\ pc = "failed" /\ attempt = "first" /\ InTheWay # {} /\ gitFaults < MaxGitFaults
    /\ gitFaults' = gitFaults + 1 /\ disturbed' = TRUE
    /\ GiveUp
    /\ UNCHANGED <<tree, bodies, unresolved, command, seen, settled, again, imports, changes>>

PutBack(originals) ==
    [f \in EngineFiles |->
        IF \E o \in originals : o[1] = f THEN (CHOOSE o \in originals : o[1] = f)[2] ELSE tree[f]]

TryReject ==
    /\ pc = "failed" /\ attempt # "reject" /\ (attempt = "first" => InTheWay = {})
    /\ tree' = PutBack(saved) /\ saved' = {}
    /\ pc' = "reverse" /\ attempt' = "reject"
    /\ UNCHANGED <<bodies, unresolved, command, i, applied, firstFailed, watch, budget>>

RejectFails ==
    /\ pc = "failed" /\ attempt = "reject"
    /\ GiveUp
    /\ UNCHANGED <<tree, bodies, unresolved, command, watch, budget>>

\* Best effort, the last applied first; what the retry overwrote comes back after it.
Rollback ==
    /\ pc = "rollback" /\ applied # <<>>
    /\ LET done == applied[Len(applied)]
           off == IF \A f \in Touched(done.patch) : Unfits(f, bodies[done.patch][f], tree[f])
                  THEN [f \in EngineFiles |-> tree[f] \ bodies[done.patch][f]]
                  ELSE tree
       IN  tree' = [f \in EngineFiles |->
                      IF \E o \in done.saved : o[1] = f
                      THEN (CHOOSE o \in done.saved : o[1] = f)[2] ELSE off[f]]
    /\ applied' = SubSeq(applied, 1, Len(applied) - 1)
    /\ UNCHANGED <<bodies, unresolved, pc, command, i, attempt, saved, firstFailed, watch, budget>>

RolledBack ==
    /\ pc = "rollback" /\ applied = <<>> /\ pc' = "report"
    /\ UNCHANGED <<tree, bodies, unresolved, command, progress, watch, budget>>

Finish ==
    /\ pc = "reverse" /\ i > last
    /\ pc' = IF firstFailed = NoPatch THEN "done" ELSE "report"
    /\ UNCHANGED <<tree, bodies, unresolved, command, progress, watch, budget>>

\* handlePatchFailures names the first patch that failed in state.json.
Report ==
    /\ pc = "report"
    /\ unresolved' = firstFailed
    /\ again' = IF force /\ ~onward /\ last = Len(Order) /\ ~disturbed THEN again + 1 ELSE 0
    /\ Idle
    /\ UNCHANGED <<tree, bodies, budget>>

Close == pc = "done" /\ Idle /\ again' = 0 /\ UNCHANGED <<tree, bodies, unresolved, budget>>

(***************************************************************************)
(* resolve, discard and reset.                                              *)
(***************************************************************************)
\* The staged diff of the patch's files against HEAD becomes its body.
Resolve ==
    LET files == IF unresolved = NoPatch THEN {} ELSE Touched(unresolved)
    IN  /\ pc = "idle" /\ \E f \in files : tree[f] # {}
        /\ bodies' = [bodies EXCEPT ![unresolved] =
                        [f \in EngineFiles |-> IF f \in files THEN tree[f] ELSE {}]]
        /\ pc' = "unpend" /\ again' = 0
        /\ UNCHANGED <<tree, unresolved, command, progress, seen, settled, disturbed, budget>>

Unpend ==
    /\ pc = "unpend" /\ pc' = "idle" /\ unresolved' = NoPatch
    /\ UNCHANGED <<tree, bodies, command, progress, watch, budget>>

\* A claimed file goes back to its patched baseline, to HEAD with --to-upstream or unclaimed.
Discard(f, toUpstream) ==
    /\ pc = "idle" /\ tree[f] # {} /\ changes < MaxChanges
    /\ f \in Claimed /\ ~toUpstream => Expected(f).ok
    /\ tree' = [tree EXCEPT ![f] =
                  IF f \in Claimed /\ ~toUpstream THEN Expected(f).content ELSE {}]
    /\ changes' = changes + 1 /\ again' = 0
    /\ UNCHANGED <<bodies, unresolved, pc, command, progress, seen, settled, disturbed, imports,
                   gitFaults>>

Reset ==
    /\ pc = "idle" /\ tree # Clean /\ changes < MaxChanges
    /\ tree' = Clean /\ changes' = changes + 1 /\ again' = 0
    /\ UNCHANGED <<bodies, unresolved, pc, command, progress, seen, settled, disturbed, imports,
                   gitFaults>>

(***************************************************************************)
(* The operator, and a kill.                                                *)
(***************************************************************************)
Edit(f, h) ==
    /\ changes < MaxChanges /\ Matches(f, h, {h}, tree[f])
    /\ tree' = [tree EXCEPT ![f] = @ \cup {h} \cup (IF f \in Added THEN {New} ELSE {})]
    /\ changes' = changes + 1 /\ disturbed' = (disturbed \/ Importing) /\ again' = 0
    /\ UNCHANGED <<bodies, unresolved, pc, command, progress, seen, settled, imports, gitFaults>>

Kill ==
    /\ pc # "idle" /\ gitFaults < MaxGitFaults
    /\ gitFaults' = gitFaults + 1 /\ Idle /\ again' = 0
    /\ UNCHANGED <<tree, bodies, unresolved, imports, changes>>

Next ==
    \/ \E l \in 1..Len(Order), f, c \in BOOLEAN : Start(l, f, c)
    \/ Check \/ Reverse \/ Checkout \/ CheckoutFails \/ Delete \/ Forward
    \/ Reject \/ Overwrite \/ OverwriteFails \/ TryReject \/ RejectFails
    \/ Rollback \/ RolledBack \/ Finish \/ Report \/ Close
    \/ Resolve \/ Unpend \/ Reset \/ Kill
    \/ \E f \in EngineFiles : \E u \in BOOLEAN : Discard(f, u)
    \/ \E f \in EngineFiles, h \in Edits : Edit(f, h)

Spec == Init /\ [][Next]_vars

(***************************************************************************)
(* Properties.                                                              *)
(***************************************************************************)
\* An import without --force removes no edit that was in the tree when it looked,
\* whatever it reverses, resets, overwrites or rolls back.
EditsKept ==
    Importing /\ ~force =>
        \A f \in EngineFiles, h \in Edits :
            h \in seen[f] /\ (\A p \in Patches : h \notin bodies[p][f]) => h \in tree[f]

\* Resolve records all that a file has beyond HEAD, so two patches may come to create one
\* file: only the later one counts.
CreatedFirst ==
    \A j, k \in DOMAIN Order, f \in EngineFiles :
        k < j /\ bodies[Order[k]][f] # {} => New \notin bodies[Order[j]][f]

\* What the first k patches bring to f, and a queue that git applies to HEAD patch by patch.
Laid(k, f) == UNION {bodies[Order[j]][f] : j \in 1..k}
Applies ==
    \A k \in DOMAIN Order : \A f \in Touched(Order[k]) :
        Fits(f, bodies[Order[k]][f], Laid(k - 1, f))

\* An import that reports success has every hunk of every patch in range in the tree:
\* recovering a later patch does not undo an earlier one.  One of a whole queue, with no
\* --force, leaves no more than that either: each file is what the gate expects of it.
Delivers ==
    pc = "done" /\ ~disturbed =>
        /\ CreatedFirst =>
               \A k \in 1..last, f \in EngineFiles : bodies[Order[k]][f] \subseteq tree[f]
        /\ ~force /\ last = Len(Order) /\ Applies =>
               \A f \in Claimed : tree[f] = Expected(f).content

\* Forced imports of a queue that applies to HEAD recover: every one that fails, fails at
\* least two patches further than the one before, so at most every second patch costs one.
ForceRecovers == 2 * again <= Len(Order) \/ ~Applies

\* What commands/import.ts:147-153 says of an engine that matches the stack: importing
\* again changes nothing.
ReimportIsNoOp ==
    settled /\ ~disturbed =>
        pc # "report" /\ (pc = "done" => tree = seen)
=============================================================================
