---------------------------- MODULE TestSession ----------------------------
(***************************************************************************)
(* `fireforge build` and `fireforge test` over one engine: the engine      *)
(* session lock, the objdir and its baseline (.fireforge/last-build.json), *)
(* the gates before a dispatch, the generation check around it, and the    *)
(* negative control with its journal.  Sources: commands/build.ts,         *)
(* test.ts, test-orchestrate.ts, test-build-phase.ts, test-stale-gate.ts,  *)
(* test-dispatch.ts, test-control-restore.ts, core/build-baseline.ts,      *)
(* test-stale-check.ts, engine-changes.ts, negative-control.ts.            *)
(*                                                                         *)
(* One engine file stands for all.  It is `compiled` into the binary,      *)
(* `copied` into the package, or `live` (the objdir links to it).  Peers   *)
(* edit it without any lock, as editors do.                                *)
(*                                                                         *)
(* Simplifications: the lock is what SharedLock promises; the build lock   *)
(* is only ever taken inside it; HEAD does not move; the test passes or    *)
(* fails as it likes; coverage claims and ports are left out.              *)
(***************************************************************************)
EXTENDS Naturals, FiniteSets

CONSTANTS
    Procs,          \* FireForge processes
    Nobody,         \* nobody holds the lock, no stamp
    MaxEdits,       \* bound on edits by peers
    MaxCommands,    \* bound on commands
    MaxKills        \* bound on processes killed

VARIABLES
    kind,       \* how the file reaches the runtime
    file,       \* its content in engine/
    built,      \* the content the objdir carries
    obj,        \* the content its object file was compiled from
    newer,      \* its mtime is later than the binary's last link
    objOld,     \* its mtime is later than its object file
    baseline,   \* last-build.json
    journal,    \* .fireforge/negative-control/
    lock,       \* the engine session lock
    run,        \* per process: the running command
    control,    \* per process: a restore and what it works from
    verdict,    \* the last verdict printed, and what it is about
    lost,       \* history: edits overwritten by a control
    windowed,   \* history: edits made between a control's read and its write
    unseen,     \* history: a change neither build, baseline nor token can tell
    edits, commands, kills

vars == <<kind, file, built, obj, newer, objOld, baseline, journal, lock, run, control,
          verdict, lost, windowed, unseen, edits, commands, kills>>

-----------------------------------------------------------------------------
(* Contents: a version, 0 being HEAD's, with or without the control's lines. *)

Contents == [v : 0..(MaxEdits + 1), neut : BOOLEAN]
Clean    == [v |-> 0, neut |-> FALSE]
Neuter(c) == [c EXCEPT !.neut = TRUE]

(* git reports the file as changed against HEAD *)
Dirty(c) == c # Clean

NoPrint  == [none |-> TRUE]
NoJournal == [none |-> TRUE]
Journals == [orig : Contents, mut : Contents] \cup {NoJournal}
Baselines == [there : BOOLEAN, fp : Contents \cup {NoPrint}, stamp : Procs \cup {Nobody}]

(* fp is only recorded for a file that is dirty when the baseline is written *)
Fingerprint(c) == IF Dirty(c) THEN c ELSE NoPrint

Commands == {"build", "ui", "test", "shared", "testbuild", "control"}

PCs == {"idle", "lock", "recover", "recovering", "gate", "prepare", "journal", "mutate",
        "compile", "link", "record", "snapshot", "dispatch", "verify", "restore", "rebuild"}

Runs == [pc : PCs, cmd : Commands, full : BOOLEAN, again : BOOLEAN, seen : Contents,
         about : Contents, tested : Contents, status : BOOLEAN, based : BOOLEAN, sig : BOOLEAN]

Idle == [pc |-> "idle", cmd |-> "build", full |-> FALSE, again |-> FALSE, seen |-> Clean,
         about |-> Clean, tested |-> Clean, status |-> FALSE, based |-> FALSE, sig |-> FALSE]

(* step: applied (not being restored), or where the restore is *)
Controls == [step : {"none", "applied", "look", "put", "remove", "done", "failed"},
             own : BOOLEAN, job : Journals]

NoControl == [step |-> "none", own |-> FALSE, job |-> NoJournal]

TypeOK ==
    /\ kind \in {"compiled", "copied", "live"}
    /\ file \in Contents /\ built \in Contents /\ obj \in Contents
    /\ newer \in BOOLEAN /\ objOld \in BOOLEAN
    /\ baseline \in Baselines
    /\ journal \in Journals
    /\ lock \in [excl : Procs \cup {Nobody}, sharers : SUBSET Procs]
    /\ run \in [Procs -> Runs] /\ control \in [Procs -> Controls]
    /\ verdict \in [there : BOOLEAN, tested : Contents, about : Contents, ctl : BOOLEAN,
                    based : BOOLEAN]
    /\ lost \subseteq 0..(MaxEdits + 1) /\ windowed \subseteq 0..(MaxEdits + 1)
    /\ unseen \in BOOLEAN
    /\ edits \in 0..MaxEdits /\ commands \in 0..MaxCommands /\ kills \in 0..MaxKills

NoVerdict == [there |-> FALSE, tested |-> Clean, about |-> Clean, ctl |-> FALSE, based |-> FALSE]

(* After a download, or after a build of a clean or of a patched engine. *)
Init ==
    /\ kind \in {"compiled", "copied", "live"}
    /\ \E v \in {0, 1}, known \in BOOLEAN :
         LET c == [v |-> v, neut |-> FALSE] IN
         /\ file = c /\ built = c /\ obj = c
         /\ baseline = [there |-> known, stamp |-> Nobody,
                        fp |-> IF known THEN Fingerprint(c) ELSE NoPrint]
    /\ newer = FALSE /\ objOld = FALSE
    /\ journal = NoJournal
    /\ lock = [excl |-> Nobody, sharers |-> {}]
    /\ run = [p \in Procs |-> Idle]
    /\ control = [p \in Procs |-> NoControl]
    /\ verdict = NoVerdict
    /\ lost = {} /\ windowed = {} /\ unseen = FALSE
    /\ edits = 0 /\ commands = 0 /\ kills = 0

-----------------------------------------------------------------------------
(* Helpers *)

At(p, pc) == run[p].pc = pc
Goto(p, pc) == run' = [run EXCEPT ![p].pc = pc]

source  == <<file, newer, objOld>>
objdir  == <<built, obj, baseline>>
history == <<verdict, lost, windowed, unseen>>
bounds  == <<kind, edits, commands, kills>>

(* A write to the source file: what it overwrites, and its new mtime. *)
Write(content, fresh) ==
    /\ file' = content
    /\ newer' = (newer \/ fresh)
    /\ objOld' = (objOld \/ fresh)

(* The edits a control's write takes away without having read them. *)
Overwrite(read) ==
    lost' = IF file.v # read.v THEN lost \cup {file.v} ELSE lost

(* A build ends with its copies made, or its control linked, and no baseline *)
(* that says so.                                                             *)
Unrecorded(p) ==
    \/ kind = "copied" /\ run[p].pc \in {"link", "record"}
    \/ At(p, "record") /\ run[p].cmd = "control" /\ ~run[p].again

(* The process is done with its command: the lock is released. *)
Finish(p) ==
    /\ run' = [run EXCEPT ![p] = Idle]
    /\ control' = [control EXCEPT ![p] = NoControl]
    /\ lock' = [excl |-> IF lock.excl = p THEN Nobody ELSE lock.excl,
                sharers |-> lock.sharers \ {p}]

-----------------------------------------------------------------------------
(* Taking the lock.  A build-less run may take it shared. *)

Start(p, c) ==
    /\ At(p, "idle") /\ commands < MaxCommands
    /\ commands' = commands + 1
    /\ run' = [run EXCEPT ![p] = [Idle EXCEPT !.pc = "lock", !.cmd = c]]
    /\ UNCHANGED <<source, objdir, journal, lock, control, history, kind, edits, kills>>

Exclusive(p) == run[p].cmd # "shared"

Enter(p) ==
    /\ At(p, "lock")
    /\ lock.excl = Nobody
    /\ Exclusive(p) => lock.sharers = {}
    /\ lock' = IF Exclusive(p) THEN [lock EXCEPT !.excl = p]
               ELSE [lock EXCEPT !.sharers = @ \cup {p}]
    /\ run' = [run EXCEPT ![p] =
                  [@ EXCEPT !.pc = IF run[p].cmd \in {"build", "ui"} THEN "compile" ELSE "recover",
                            !.full = run[p].cmd = "build"]]
    /\ UNCHANGED <<source, objdir, journal, control, history, bounds>>

-----------------------------------------------------------------------------
(* The restore of a control, by the run itself, by its signal handler or,   *)
(* from the journal on disk, by a later run.                                *)

(* Mutant: overwrites whatever is there. *)
LookAway(p) ==
    /\ control[p].step = "look"
    /\ control' = [control EXCEPT ![p].step = "put"]
    /\ UNCHANGED <<source, objdir, journal, lock, run, history, bounds>>

(* restoreEntry reads the file and decides. *)
Look(p) ==
    /\ control[p].step = "look"
    /\ LET job == control[p].job IN
       control' = [control EXCEPT ![p].step =
            CASE file = job.orig -> "remove"
              [] file # job.orig /\ file = job.mut -> "put"
              [] OTHER -> "failed"]
    /\ UNCHANGED <<source, objdir, journal, lock, run, history, bounds>>

(* ... and writes the backup back, with a fresh mtime for compiled source.   *)
Put(p) ==
    /\ control[p].step = "put"
    /\ \/ /\ journal # NoJournal
          /\ Write(control[p].job.orig, kind = "compiled")
          /\ Overwrite(control[p].job.mut)
          /\ control' = [control EXCEPT ![p].step = "remove"]
       \/ /\ journal = NoJournal    \* another run has removed the backups
          /\ control' = [control EXCEPT ![p].step = "failed"]
          /\ UNCHANGED <<source, lost>>
    /\ UNCHANGED <<objdir, journal, lock, run, verdict, windowed, unseen, bounds>>

(* Mutant: the backups go although the file was left alone. *)
RemoveAnyway(p) ==
    /\ control[p].step \in {"remove", "failed"} /\ journal # NoJournal
    /\ journal' = NoJournal
    /\ control' = [control EXCEPT ![p].step = "done"]
    /\ UNCHANGED <<source, objdir, lock, run, history, bounds>>

Remove(p) ==
    /\ control[p].step = "remove"
    /\ journal' = NoJournal
    /\ control' = [control EXCEPT ![p].step = "done"]
    /\ UNCHANGED <<source, objdir, lock, run, history, bounds>>

(* recoverPendingNegativeControl, before anything else a test does. *)
Recover(p) ==
    /\ At(p, "recover")
    /\ \/ /\ journal = NoJournal
          /\ \/ /\ run[p].cmd \in {"test", "shared"} /\ Goto(p, "gate")
             \/ /\ run[p].cmd = "control"
                /\ Goto(p, IF kind = "compiled" THEN "prepare" ELSE "gate")
             \/ /\ run[p].cmd = "testbuild"
                (* describeCompiledEscalation *)
                /\ run' = [run EXCEPT ![p] =
                              [@ EXCEPT !.pc = "compile",
                                        !.full = \/ kind = "compiled" /\ newer /\ Dirty(file)
                                                 \/ baseline.stamp # Nobody]]
          /\ UNCHANGED control
       \/ /\ journal # NoJournal
          /\ Goto(p, "recovering")
          /\ control' = [control EXCEPT ![p] = [step |-> "look", own |-> FALSE, job |-> journal]]
    /\ UNCHANGED <<source, objdir, journal, lock, history, bounds>>

Recovered(p) ==
    /\ At(p, "recovering")
    /\ control[p].step \in {"done", "failed"}
    /\ IF control[p].step = "done"
       THEN /\ Goto(p, "recover")
            /\ control' = [control EXCEPT ![p] = NoControl]
            /\ UNCHANGED lock
       ELSE Finish(p)       \* refuses: negative-control-pending
    /\ UNCHANGED <<source, objdir, journal, history, bounds>>

-----------------------------------------------------------------------------
(* Applying a control. *)

Prepare(p) ==
    /\ At(p, "prepare")
    /\ IF file.neut
       THEN Finish(p)       \* the hunks do not apply
       ELSE /\ run' = [run EXCEPT ![p] = [@ EXCEPT !.seen = file, !.pc = "journal"]]
            /\ UNCHANGED <<control, lock>>
    /\ UNCHANGED <<source, objdir, journal, history, bounds>>

(* Backups and journal are on disk, and the handler knows of the control,    *)
(* before the first mutated byte.                                            *)
WriteJournal(p) ==
    /\ At(p, "journal")
    /\ LET j == [orig |-> run[p].seen, mut |-> Neuter(run[p].seen)] IN
       /\ journal' = j
       /\ control' = [control EXCEPT ![p] = [step |-> "applied", own |-> TRUE, job |-> j]]
    /\ Goto(p, "mutate")
    /\ UNCHANGED <<source, objdir, lock, history, bounds>>

(* A compiled control goes in before a full build, any other before dispatch. *)
Mutate(p) ==
    /\ At(p, "mutate")
    /\ Write(Neuter(run[p].seen), TRUE)
    /\ Overwrite(run[p].seen)
    /\ run' = [run EXCEPT ![p] =
                  [@ EXCEPT !.pc = IF kind = "compiled" THEN "compile" ELSE "snapshot",
                            !.full = kind = "compiled"]]
    /\ UNCHANGED <<objdir, journal, lock, control, verdict, windowed, unseen, bounds>>

MutateFails(p) ==
    /\ At(p, "mutate")
    /\ Goto(p, "restore")
    /\ UNCHANGED <<source, objdir, journal, lock, control, history, bounds>>

-----------------------------------------------------------------------------
(* Building.  mach reads the source, links, and the baseline is recorded     *)
(* from what the source is by then.  `mach build faster` compiles nothing.   *)
(* A signal shuts the child down before the handler does anything else.      *)

Reads(p) == kind = "copied" \/ (kind = "compiled" /\ run[p].full /\ objOld)

Compile(p) ==
    /\ At(p, "compile") /\ ~run[p].sig
    /\ built' = IF kind = "copied" THEN file ELSE built
    /\ obj' = IF kind = "compiled" /\ Reads(p) THEN file ELSE obj
    /\ objOld' = (objOld /\ ~run[p].full)
    /\ run' = [run EXCEPT ![p] = [@ EXCEPT !.pc = "link", !.about = file]]
    (* somebody else's control, which only a test run would have recovered *)
    /\ unseen' = (unseen \/ (/\ kind = "copied" \/ (kind = "compiled" /\ run[p].full)
                             /\ file.neut /\ run[p].cmd # "control"))
    /\ UNCHANGED <<file, newer, baseline, journal, lock, control, verdict, lost, windowed, bounds>>

Link(p) ==
    /\ At(p, "link") /\ ~run[p].sig
    /\ newer' = (newer /\ ~run[p].full)
    /\ built' = IF kind = "compiled" /\ run[p].full THEN obj ELSE built
    /\ Goto(p, "record")
    /\ UNCHANGED <<file, obj, objOld, baseline, journal, lock, control, history, bounds>>

(* Where a build continues. *)
AfterBuild(p, ok) ==
    CASE run[p].cmd \in {"build", "ui"} \/ run[p].again -> "finish"
      [] run[p].cmd = "control" /\ ~run[p].again -> IF ok THEN "snapshot" ELSE "restore"
      [] OTHER -> IF ok THEN "snapshot" ELSE "finish"

Continue(p, pc) ==
    IF pc = "finish" THEN Finish(p)
    ELSE Goto(p, pc) /\ UNCHANGED <<lock, control>>

BuildFails(p) ==
    /\ run[p].pc \in {"compile", "link"}
    /\ Continue(p, AfterBuild(p, FALSE))
    /\ unseen' = (unseen \/ Unrecorded(p))
    /\ UNCHANGED <<source, objdir, journal, verdict, lost, windowed, bounds>>

(* Which builds keep, set or drop the control-built stamp. *)
Stamp(p) ==
    CASE run[p].cmd = "ui" -> baseline.stamp
      [] run[p].cmd = "control" /\ ~run[p].again -> p
      [] OTHER -> Nobody

Record(p) ==
    /\ At(p, "record")
    /\ \/ /\ baseline' = [there |-> TRUE, fp |-> Fingerprint(file), stamp |-> Stamp(p)]
          /\ UNCHANGED unseen
       \/ /\ unseen' = (unseen \/ Unrecorded(p))   \* a failed write never fails the build
          /\ UNCHANGED baseline
    /\ Continue(p, AfterBuild(p, TRUE))
    /\ UNCHANGED <<source, built, obj, journal, verdict, lost, windowed, bounds>>

-----------------------------------------------------------------------------
(* The gates of a build-less run. *)

(* checkStaleBuildForTest: only files that are dirty now are compared *)
StalePackage ==
    /\ kind = "copied" /\ baseline.there
    /\ Dirty(file) /\ baseline.fp # file

(* findCompiledSourcesNewerThanBinary: likewise *)
StaleCompiled == kind = "compiled" /\ Dirty(file) /\ newer

ControlBuilt == baseline.stamp # Nobody

Gate(p) ==
    /\ At(p, "gate")
    /\ IF StalePackage \/ StaleCompiled \/ ControlBuilt
       THEN Finish(p)
       ELSE /\ run' = [run EXCEPT ![p] =
                          [@ EXCEPT !.about = file, !.based = baseline.there,
                                    !.pc = IF run[p].cmd = "control" THEN "prepare"
                                           ELSE "snapshot"]]
            /\ UNCHANGED <<control, lock>>
    /\ UNCHANGED <<source, objdir, journal, history, bounds>>

-----------------------------------------------------------------------------
(* Dispatching, between two readings of the engine generation.               *)

Snapshot(p) ==
    /\ At(p, "snapshot")
    /\ run' = [run EXCEPT ![p] =
                  [@ EXCEPT !.status = Dirty(file), !.pc = "dispatch",
                            !.about = IF kind = "live" THEN file ELSE run[p].about,
                            !.based = run[p].based \/ run[p].cmd \notin {"test", "shared"}]]
    /\ UNCHANGED <<source, objdir, journal, lock, control, history, bounds>>

Dispatch(p) ==
    /\ At(p, "dispatch") /\ ~run[p].sig
    /\ run' = [run EXCEPT ![p] =
                  [@ EXCEPT !.tested = IF kind = "live" THEN file ELSE built, !.pc = "verify"]]
    /\ UNCHANGED <<source, objdir, journal, lock, control, history, bounds>>

(* Mutant: every drift is tolerated. *)
AnythingGoes(p) == TRUE

(* The token is git's status, not contents; files the running browser cannot *)
(* see are tolerated (runGenerationTolerance).                               *)
Unmoved(p) == run[p].status = Dirty(file) \/ kind # "live"

Verify(p) ==
    /\ At(p, "verify")
    /\ verdict' = IF Unmoved(p) /\ ~run[p].sig
                  THEN [there |-> TRUE, tested |-> run[p].tested, about |-> run[p].about,
                        ctl |-> run[p].cmd = "control", based |-> run[p].based]
                  ELSE verdict
    /\ IF run[p].cmd = "control" THEN Goto(p, "restore") /\ UNCHANGED <<lock, control>>
       ELSE Finish(p)
    /\ UNCHANGED <<source, objdir, journal, lost, windowed, unseen, bounds>>

-----------------------------------------------------------------------------
(* After a controlled run. *)

BeginRestore(p) ==
    /\ control[p].step = "applied" /\ control[p].own
    /\ At(p, "restore") \/ (run[p].sig /\ ~At(p, "mutate"))
    /\ control' = [control EXCEPT ![p].step = "look"]
    /\ UNCHANGED <<source, objdir, journal, lock, run, history, bounds>>

(* A restored compiled control is rebuilt, if its build was recorded. *)
Restored(p) ==
    /\ At(p, "restore")
    /\ control[p].step \in {"done", "failed"}
    /\ IF /\ control[p].step = "done" /\ ~run[p].sig
          /\ baseline.stamp = p
       THEN /\ run' = [run EXCEPT ![p] = [@ EXCEPT !.pc = "compile", !.full = TRUE, !.again = TRUE]]
            /\ UNCHANGED <<lock, control>>
       ELSE Finish(p)
    /\ UNCHANGED <<source, objdir, journal, history, bounds>>

-----------------------------------------------------------------------------
(* The outside: edits, signals, kills. *)

(* Someone is between reading the file and writing it. *)
InWindow ==
    \E p \in Procs : run[p].pc \in {"journal", "mutate"} \/ control[p].step = "put"

(* A file built and then reverted to HEAD (the gates look at dirty files     *)
(* only), a build that has read the source and not recorded it yet, one that *)
(* has decided to compile nothing, a control taken out before it has been    *)
(* read, or, during a run, an edit that leaves the file as dirty or as clean *)
(* as the token has recorded it.                                             *)
Unseen(c) ==
    \/ kind # "live" /\ c = Clean
    \/ \E p \in Procs :
            \/ At(p, "compile") /\ kind = "compiled" /\ ~run[p].full
            \/ run[p].pc \in {"link", "record"}
            \/ run[p].pc \in {"compile", "snapshot"} /\ file.neut /\ ~c.neut
            \/ run[p].pc \in {"dispatch", "verify"} /\ kind = "live" /\ Dirty(c) = run[p].status

Edit ==
    /\ edits < MaxEdits
    /\ edits' = edits + 1
    /\ \E c \in {[file EXCEPT !.v = edits + 2], Clean} :
         /\ c # file
         /\ Write(c, TRUE)
         /\ unseen' = (unseen \/ Unseen(c))
         /\ windowed' = IF InWindow THEN windowed \cup {c.v} ELSE windowed
    /\ UNCHANGED <<objdir, journal, lock, run, control, verdict, lost, kind, commands, kills>>

Signal(p) ==
    /\ ~At(p, "idle") /\ ~run[p].sig
    /\ kills < MaxKills
    /\ kills' = kills + 1
    /\ run' = [run EXCEPT ![p].sig = TRUE]
    /\ UNCHANGED <<source, objdir, journal, lock, control, history, kind, edits, commands>>

(* The handler exits once its critical section and its control are done. *)
Exit(p) ==
    /\ run[p].sig
    /\ run[p].pc \notin {"journal", "mutate"}
    /\ control[p].own => control[p].step \in {"done", "failed"}
    /\ Finish(p)
    /\ unseen' = (unseen \/ Unrecorded(p))
    /\ UNCHANGED <<source, objdir, journal, verdict, lost, windowed, bounds>>

Kill(p) ==
    /\ ~At(p, "idle")
    /\ kills < MaxKills
    /\ kills' = kills + 1
    /\ Finish(p)
    /\ unseen' = (unseen \/ Unrecorded(p))
    /\ UNCHANGED <<source, objdir, journal, verdict, lost, windowed, kind, edits, commands>>

-----------------------------------------------------------------------------
Step(p) ==
    \/ Enter(p) \/ Recover(p) \/ Recovered(p)
    \/ Look(p) \/ Put(p) \/ Remove(p)
    \/ Prepare(p) \/ WriteJournal(p) \/ Mutate(p) \/ MutateFails(p)
    \/ Compile(p) \/ Link(p) \/ BuildFails(p) \/ Record(p)
    \/ Gate(p) \/ Snapshot(p) \/ Dispatch(p) \/ Verify(p)
    \/ BeginRestore(p) \/ Restored(p) \/ Exit(p)

Next ==
    \/ \E p \in Procs : Step(p) \/ Signal(p) \/ Kill(p)
    \/ \E p \in Procs, c \in Commands : Start(p, c)
    \/ Edit

Spec == Init /\ [][Next]_vars

-----------------------------------------------------------------------------
(* Properties *)

(* A verdict is about what the engine held when it was checked: the runtime  *)
(* that was tested carries that content, and that of a controlled run the    *)
(* control.  The blind spots: what sets `unseen`, no baseline to compare     *)
(* with, and a control on a file that is copied into the package.            *)
VerdictTrue ==
    LET v == verdict IN
    v.there /\ ~unseen /\ ~(v.ctl /\ kind = "copied") =>
        /\ (v.based => v.tested = v.about)
        /\ (v.ctl => v.tested.neut)

(* As long as the control's lines are in the engine, what was there before   *)
(* them is on disk for a later run, whoever is killed when.                  *)
BytesKept ==
    file.neut => journal # NoJournal /\ ~journal.orig.neut

(* No control, and no restore, overwrites an edit, unless the edit fell      *)
(* between its reading of the file and its writing of it.                    *)
EditsSurvive ==
    lost \subseteq windowed
=============================================================================
