# FireForge: TLA+ models and proofs

FireForge keeps a customised Firefox: a queue of patches over a pinned source
tree (`engine/`), custom UI components ("furnace") that are copied into that tree,
and commands that download, patch, build, test, rebase and re-export it all. It is a
command-line program; every invocation is a process of its own, several may run at
once, and all state is in files. What makes it hard is that state moves in several
file operations, any of which may fail, that a process may be interrupted by
Ctrl+C or killed between two of them while another waits for its lock, and that an
editor, which takes no lock at all, changes the same tree.

The modules here describe that part: the locks, the lifecycle of a mutation and
its rollback, the state files, the patch queue and its import, the rebase, test
sessions with their negative controls and the processes they start, and the stores beside the engine (downloads,
parked edits, verification trees). Each is translated from the code named in
`PROJECT.json` ("map"), checked with TLC on small instances, and, where stated
below, proved for every value of its constants with TLAPS.

    cd tla
    tlc -workers 2 -config FileLock_all.cfg MCFileLock.tla
    tlapm FileLock_proofs.tla

## 1. Inventory

| Component | State | Operations | What makes it correct |
|---|---|---|---|
| Directory lock (`core/file-lock.ts`, `file-lock-owner.ts`) | the lock directory, its owner record, directories renamed aside by reapers | acquire (mkdir, write record, read it back), probe and reap a stale lock, release, signal sweep | one operation at a time; a dead owner is reclaimed; a live one is not evicted |
| Waiter queue (`file-lock-queue.ts`) | one ticket file per waiter, refreshed every 5 s | register, read (and prune), refresh, deregister | grant in arrival order; no live waiter loses its place; nobody waits behind a dead one |
| Shared holds (`file-lock-shared.ts`) | a directory per shared holder beside the lock | take the turnstile, record a hold, return it, drain | a writer is alone; a drain ends |
| Engine session lock (`engine-session-lock.ts`, `engine-changes.ts`) | a directory lock with a wait budget; a generation token of the engine | acquire exclusive or shared with a budget that is renewed while the queue moves; compare tokens | the budget is neither endless nor lost; a changed engine is noticed |
| State files (`config-state.ts`, `state-file.ts`, `furnace-config.ts`) | `state.json` and `furnace-state.json`, their sidecar locks, copies set aside | read, read-modify-write under a lock, recover field by field, quarantine | no completed update is lost: what a recovery displaces is in a copy set aside |
| Furnace mutation (`furnace-operation.ts`, `furnace-rollback.ts`) | active operations, their journals, who claimed the rollback; `pendingRepair` in the furnace state | run, roll back on throw, roll back on signal, mark | a mutation that does not finish restores the engine or says so |
| Signal handling (`bin/fireforge.ts`, `signal-critical.ts`) | the sections and children it waits for | roll back, drain, restore controls, sweep locks, exit | bounded; the section that was open completes |
| Rebase (`commands/rebase`, `rebase-session.ts`) | the session file, the engine, patch files and version stamps, `pendingResolution`, furnace state | start, apply a patch, continue, abort, re-export, stamp | the session matches the engine; every interruption can be continued or aborted; stamps are true |
| Patch queue (`patch-manifest-io.ts`, `patch-export.ts`, `export-flow.ts`, `commands/patch`) | `.patch` files and the rows of `patches.json` | export, placed export, reorder, compact, update, delete, rebuild (and slots, split, move, rename) | files and rows agree; a failed command changes nothing; no body is lost |
| Import and resolve (`commands/import.ts`, `patch-apply.ts`, `resolve.ts`, `discard.ts`, `reset.ts`) | the engine's working tree, patch bodies, `pendingResolution` | import (`--force`, `--continue`, `--until`), resolve, discard, reset | what success reports is in the tree; edits survive; a failure can be recovered from |
| Build and test sessions (`build.ts`, `test*.ts`, `build-baseline.ts`, `negative-control.ts`) | the objdir, its baseline, a control's journal with backups, neutered engine files | build, gate, dispatch, compare generations, apply and restore a control, recover after a kill | a verdict is about the engine it names; every byte comes back, no edit is overwritten |
| Download and cache (`download.ts`, `firefox*.ts`, `git.ts`) | archives with a sidecar, extractions, the engine and its backup, the baseline of `state.json` | fetch, verify, extract, activate, commit, record, put back, resume | nothing unverified is used; an engine is replaced whole or not at all |
| Parks (`park-store.ts`, `commands/park.ts`) | bodies and an index per label | park, restore, drop, list | a session's edits are in the engine or in a park |
| Verification trees (`tree-store.ts`, `tree-guard.ts`, `commands/tree.ts`) | copies of the project, with or without its build, and their markers | create, test in it, remove | an unfinished tree is not taken for a finished one; it is a state the primary was in |
| Test harness and process groups (`utils/process.ts`, `process-group.ts`, `parent-exit-watchdog.ts`, `core/harness-*.ts`) | spawned processes and their groups, tracked pids | run, time out, retry, clean up, forward signals | no process outlives the run that started it; no foreign process is killed |
| Furnace apply (`furnace-apply.ts`) | component files in the engine, checksums | apply, undeploy | checksums describe what is there |
| Lint, policies, tokens, wiring, reports, CLI | none beyond single files | pure functions, text edits, output | |

**How they interact.** A furnace command that touches the engine (apply, deploy, sync)
takes the engine session lock, then the furnace lock; create, scan, remove,
preview, refresh, override, rename and doctor take the furnace lock only. Builds, control
runs, parks and clones hold the session lock alone, build-less test runs share it;
builds take the build lock inside it. Commands on the queue take the patch directory
lock. All are the directory lock, whose waiters queue by ticket; state files have
sidecar locks of the same make. Import, resolve, discard, a rebase (across its loop) and a
download take no engine lock, and neither does an editor: what other commands read
may change between their reading and their writing, and several properties below
say how far that can reach. The signal handler runs in the interrupted process, beside
the command, and calls into the furnace lifecycle, the critical sections, the
child processes, the negative controls and both lock sweeps, in that order.

**What is hard** is listed line by line as "hazards" in `PROJECT.json`: races between
probe and rename; a record written by path; compensation that fails or runs in
the wrong order; a handler that races the command it interrupts; a crash between
two writes; a snapshot of open sections while others open; a tree read at one time and
written at another.

## 2. Modules

| Module | Models | State in the model | Abstract parts |
|---|---|---|---|
| `ExclusiveLock` | what `withFileLock` promises its callers | who is inside, whether a fault has happened, whether the lock is broken | |
| `FileLock` | `withFileLock`, `reapStaleLock`, `writeLockOwner`, `releaseLock`, the sweep | a directory as (maker, record, past the stale age); a program counter per attempt; what each reaper has set aside | queue, shared mode, clock, reused process ids |
| `WaiterQueue` | tickets and turns of the wait loop | tickets, registration, arrival times, coarse clock, who was queued when each waiter arrived (history) | the lock is `ExclusiveLock` |
| `SharedLock` | `runWhileHeld`, shared holds, the drain | turnstile, holds, records, entries a drain has still to look at | the turnstile is `ExclusiveLock`; the queue |
| `StateFile` | `loadState`, `updateState`, recovery and quarantine of one state file | the file, copies set aside, its lock, what each process has read | a value is the number of its update; writes rename |
| `FurnaceMutation` | `runFurnaceMutation`, both rollbacks, the signal handler, the exits | per process: body, handler, claim, journal, what is left in the engine | the lock is `ExclusiveLock`; a journal is one value, a restore two steps |
| `TestSession` | `build`, `test` and negative controls over one engine file | the file, what the objdir carries, baseline, journal, session lock, a command per process | the lock is what `SharedLock` shows; one file; what the test finds |
| `Harness` | the processes of a test command: dispatch, group sweep, reap, retries, workers, forwarder and handler, parent watchdog | processes alive and which group or session they are in, a step and a set of targets per worker, closures the handler waits for | a dispatch has one of each kind of helper; what tests do |
| `Rebase` | the four commands of a rebase, `runInSignalCriticalSection` | session, engine, bodies, stamps, furnace state, pending resolution | patches are 1..N; how an apply comes out is a free choice |
| `PatchQueue` | the commands on the queue with their compensation | directory, manifest, running command with the undo steps it has left | contents are a version number; policies, history |
| `Import` | `import`, `resolve`, `discard`, `reset` | each engine file as the hunks it has beyond HEAD, patch bodies, the running command | diffs are sets of hunks with what they need and clash with |
| `Download` | `download`, fetch, verification or its waiver, extraction, activation, baseline commit, resume | the cached archive, the trees beside `engine/` by generation, `state.json`, the applied checksums | one command at a time; a tree is whole or torn |
| `ParkStore` | `park`, `--restore`, `--drop` | each file as the session hunks in it, the directories of the labels | hunks; one patch |
| `TreeStore` | `tree create`, `tree remove`, tests in a tree | the primary's entries, the copy, its objdir and marker, the session lock | a content is the number of its write |

`MCFileLock`, `MCWaiterQueue`, `MCSharedLock`, `MCFurnaceMutation` and `MCPatchQueue`
give the constants values for TLC. `MCEngine` and `MCWorkspace` put modules that
describe different aspects of one workspace side by side: a variable `part` picks one at
the start, and the others stand still, because they share no state with it. One run
then checks them all; a property `P` of a part is stated there as `part = "..." => M!P`.
The `*_proofs` modules hold the theorems: one for `FileLock`, `WaiterQueue`, `SharedLock`,
`FurnaceMutation` and `TestSession` each, `Engine_proofs` for `Rebase`, for `Harness` and for `MCEngine` as a
whole, `PatchQueue_proofs` for the invariant of the patch queue, and `Workspace_proofs`, which extends it, for
the other stores and for `MCWorkspace` as a whole. Operators named
like an action with a suffix and commented "Mutant" are plausible wrong versions
of the code; no specification uses them. They show, for each property, a change
of the code that would violate it.

One action is one atomic step of the code: a file operation together with the
synchronous code up to the next `await`. Reads and writes that happen in different
operations are different steps, so every interleaving the file system allows is
there. Sequences that the code runs without letting go (renames of one
directory, a read-modify-write under a lock that nobody else takes) are split
only where another process or a failure can come between.

A property that holds only up to a window the code leaves open says so with a history
variable, which no action reads: `unseen`, `windowed`, `raced`, `cut`, `doomed`, `late`,
`disturbed`, `damaged`. What each of them excuses is said at its declaration and below, and
section 5 says what happens in the window.

### FileLock and ExclusiveLock

An attempt is a call of `withFileLock`, several of which one process may make. The
lock path and the directory at it are different things in the model: `rename`
moves the directory, everything else goes by path. So a reaper that judged one
directory can move another, an attempt can write its record into a directory it
did not make, and undoing a failed write removes whatever is there, exactly as in
the code. `Inside` leaves out processes whose signal handler has already given the
lock away; that their operation overlaps with the next owner's until the exit is
a consequence of sweeping before exiting.

*Run `filelock`*: three attempts, `a1` and `a2` in one process. `OneKindOfFault` keeps
crashes, signals, stalls and file-system errors in separate behaviours; two
faults of one kind may occur in one. Three attempts are needed for the
interesting case (the dead owner, the reaper, and the one that re-acquired).
*Run `filelock_reap_race`*: the same without the hedge "until displaced" and with three
processes, where TLC finds the race (section 5). Deadlock is not checked: every
attempt may be done.

`DeadOwnerReclaimed` and `KeepsPromise` are the two halves of the promise;
`NeverDiscardsLiveRecord` says that a reaper never deletes a directory with the record of
a live owner.

*Proved* (`FileLock_proofs`): types, exclusion until a directory is taken from under
somebody, that this needs a crash, a stall or a signal, that no live record is
deleted, and that the protocol implements `ExclusiveLock`. Exclusion alone is not inductive. The invariant adds
`Rely` (whoever made a directory and counts on it finds it at the lock path, unless
it was displaced or its process swept it) and `FaultFree` (before the first fault no
reaper has started and everyone between mkdir and release owns what is at the
path, so removing it evicts nobody).

### WaiterQueue

`queued[w]` is a history variable: the waiters whose ticket was there, and has been
live since, when `w` arrived. `NoOvertaking` is the promise of the file header, "granted
in arrival order", with its exceptions spelled out: waiters that could not
register, tickets that went stale, arrivals within one clock tick (then ticket
names decide).

*Run `waiterqueue`*: three waiters, a clock of two ticks (arrivals that tie and arrivals
that do not), at most one waiter in trouble. *Proved*: types, `TicketKept` and `NoOvertaking`.
The invariant says that a ticket to be respected is live, so that every reading
of the queue sees it (`Respected`), and that whoever may attempt the lock has read
the queue since it arrived (`Clear`).

### SharedLock

*Run `sharedlock`*: two readers and two writers that come back for more; at most two of
them in trouble. `NoNewcomers` is an action property: while a live writer drains,
no step adds a hold. *Proved*: types, `WriterAlone`, `HoldKept`, `NoNewcomers`, for any number
of processes, with an invariant that says who owns the turnstile between taking
and leaving it and that a round of a drain has still to look at every reader it
would otherwise miss (`Drained`).

### FurnaceMutation

The body and the handler of one process are two activities that interleave at
every step. A restore takes two steps, a timed-out one goes on as `late`. A process
in `OwnRollback` restores its own journal, as `applyAllComponents` does, and marks it
rolled back without asking who claimed it. The marker is read before the lock,
as in the code, so a waiter may enter although it has been set since.

*Run `furnace`*: two processes, one of them restoring on its own, one signalled (and
perhaps signalled again); throws, failing and late restores, failing marker
writes. *Run `furnace_torn`*: the promise of `docs/lifecycle-invariants.md` without its
hedges. Its constraint `WritesAfter` picks one history of the many that break it: a signal that
comes when a journal is registered, a restore during which the body writes nothing, and no
other fault (section 5). `RestoredOrMarked` holds for processes
nobody interrupts; `HandlerRestoresOrMarks` for what was written before the handler's
restore; `OneRestorer` for bodies that do not restore themselves.

`RestoreUnderLock` says how far the lock covers the restore of a throw. A restore that runs
within its time does so under the lock, and so does one without a limit, of a body that restores
its journal itself. One that timed out is abandoned, not stopped: it
goes on after the lock is released, beside whoever waited. What holds then is that the
wrapper gave it up first: its body has failed, and the marker is set or the operator told that it could not be.
A sweep by a signal handler is the other exception, in which no promise is left.

*Proved*: types and the four safety properties, for any number of processes. The invariant for
`RestoreUnderLock` says that whoever is in its body, restore or marking holds the lock unless it was swept,
and that a late restore of a throw whose process is past its marking has been
told of (`GivenUp`).

### Rebase

One command at a time, each in its own process. `Exit`, `Die` and a failing write end
it between any two writes. In memory and on disk the session differs only inside
a critical section, so one copy is kept. `rewound` is a history variable: an abort
was cut short after its reset, and its session has been continued since. Nothing else changes
the engine meanwhile: `fireforge reset`, which is not refused during a rebase, is not in the model.

*Run `engine`*, part `rebase`: three patches, the second missing and the third overlapping with
others; every kind of fault, as often as it likes. *Run `rebase_stamps`*: the promise
about version stamps without the hedge. *Proved* (`Engine_proofs`): types and the five safety
properties. The invariant has five parts, each inductive given those before it:
`Shape` (entries before the index are settled, those after it untouched), `Tracks` (the
engine holds what the session says, give or take the current patch), `Drained`,
`Told` and `Retracing` (what handler, stamping and abort rely on).

### PatchQueue

A command first computes what it will do (`Begin`), then takes its file operations
one by one. When one fails, the compensating steps of the code's catch block
become `undo` and are taken one by one too; a compensating step that fails is warned
of in the code and sets `spoiled`. A crash stops a command anywhere and leaves the
lock to be reclaimed. Renames go through staging names as in the code, and the
rollback of a failed save does not, as in the code.

*Run `workspace`*, part `queue`: two patches, a third to come, orders up to 4, three commands, two
failures, one crash. Two patches are enough for a shift, a swap and a gap, three
commands for a crash, what the next command makes of it, and a repair; two
failures for a failing compensation. *Run `patchqueue_swap`*: both patches share a
category and a name. Deadlock is not checked because commands are bounded.

*Proved* (`PatchQueue_proofs`, and at the end of `Workspace_proofs`): types, and, if no two patches share category and
name (`OwnNames`), `ListedIsKept`, `FailedRestores` and `AgreeAtRest`, for any queue, number of commands,
faults and crashes. The code does not enforce `OwnNames`, so the theorems state it as their hypothesis; that
`FailedRestores` is false without it is what `patchqueue_swap` shows. The invariant (`QueueSound`) holds
until a compensating step fails:

- Files and rows are named for their patches (`Tidy`, `TidyRows`), so a directory that a renumbering is
  half through is the one it started from with its files under other names: `Where` says which, given
  the moves staged and the moves in place, and `Lay` is the directory. `WhereStep` is one rename of it.
- `Phase` says for each place in a command what `disk` and `rows` are, in terms of what the command found
  (`before`) and its plan (`Fits`): `Renumbering`, `Writing`, `Adding`, `Dropping`, `Unlinking`.
- While a command undoes (`Undoing`), the steps it still has to take are a run, through
  directories that keep what the rows list, to one from which the rest leads back: the
  directory it found, or the renumbered one, if an inverse renumbering comes next (`RunsTo`, `Ending`).

What is left is that every catch block begins such a run (`UnwindRuns`, `UnplaceRuns`, `ExportFails`, `PlaceFails`,
`UpdateFails`, `DeleteFails`), that the inverse moves lead back (`MovedBack`), and that rows that describe
a directory describe it still when both are renumbered (`RowsByDisk`).

### StateFile

Loads read without the lock. A load that finds the file invalid takes the lock and recovers
what *it* had read, without reading again, so it may set aside a file that another
process has just recovered. `UpdateKept` follows a completed update through all of this: it
is in the file until somebody from outside damages the file, and after that it is in the
file or in a copy set aside.

*Run `workspace`*, part `state`: two processes, two fields, two updates, failures, kills
and damage (two in all). *Proved* (`Workspace_proofs`, "State files"): types and `UpdateKept`, for any number of
processes and fields. The property is not inductive. The invariant adds `Plain` (nothing is ever
written that would not validate), `Locked` (only the lock's holder is between reading
and writing), `Undamaged` (before the first damage the file holds every completed
update and nothing has been set aside) and `Current` (what a holder has read and will write
back is what the file says, so that its write replaces one field only).

### TestSession

One engine file stands for all; `kind` says how it reaches the runtime (compiled, copied
into the package, or linked, so that an edit is live at once). Builds, control runs and
shared test runs follow the code step by step: wait for the lock, recover what a killed
control left, read the token, gate on staleness, build, record, apply the control, dispatch,
restore, compare tokens, print. Peers edit at any time; a process may be killed or
interrupted anywhere.

- `VerdictTrue`: a printed verdict is about the content it was reached on. Its hedge is
  `unseen`, set where neither build, baseline nor token can tell: an edit that restores
  `git status` to what it was, an edit of a clean file the gates do not look at, an edit during
  a build that make has passed. For a linked file that includes one edit and a second that takes
  the first back between the two readings of the token. A control on a *copied* file is excused too.
- `BytesKept`: while the control's lines are in the engine, the original is in the journal.
- `EditsSurvive`: an edit is overwritten by a control or its restore only when it fell between
  the control's reading of the file and its writing (`windowed`).

*Run `engine`*, part `session`: two processes, one edit, three commands, one kill; each kind of
file. Three commands are what a control, its killer's successor and a peer need. With two edits the
state space is beyond a few minutes of TLC; what two of them do together is in the proof.

*Proved* (`TestSession_proofs`, and in `Engine_proofs` for the specification the run checks): types,
`VerdictTrue`, `BytesKept` and `EditsSurvive`, for any processes, edits, commands and kills. The first
part of the invariant is about control. `Locked` and `Routed` say that whoever builds or controls is
alone, `Controlled` and `Journaled` at which steps a control's lines are in the file and that the
journal then has the content it was prepared from, and `Read` that what a write overwrites beyond
that was edited in its window. The rest speaks of content and holds as long as `unseen` does not:
a file on its way back to HEAD was there before (`Back`), an objdir that every gate lets pass carries
the file (`Trusted`, `Carried`), and so does what is compiled, linked and recorded at each step of a build
(`Built`) and dispatched and tested at each step of a test (`Tested`). None of them holds without the
others. The proof found a case that the run with one edit cannot show, and that the model's `unseen`
did not excuse: during a harness run on a linked file, an edit and its undoing (see above).

### Harness

A dispatch has mach, a child in its group that may hold mach's output open, a browser that
leaves the group and announces its pid, and a helper that leaves it without a word. `Close`
is Node's `close` event with the group sweep; `Reap` is the pass over announced pids and over
what `ps` shows, each listed in one step and killed in later ones. SIGTERM is left out
wherever SIGKILL follows: it may or may not end a process, which may end by itself at those
moments in any case. A dead browser's pid may be given to another process, which `ps` tells apart
or, if it runs from an objdir as well (`alike`), does not. The signal handler waits for the closures that exist when it looks; a
worker whose dispatch ended after the parent died throws and takes the others with it.

- `NothingLeft`: what a settled dispatch or an exit leaves behind is only what the teardown had no
  means to see (`missed`: `ps` failed, no baseline, a browser not announced, a dispatch without
  hooks) or what was abandoned by then (`excused`: another worker's failure, a dispatch
  begun after the signal, an output held open beyond the twelve seconds).
- `SparesOthers`: no reap kills a helper of a harness that still runs, a survivor of an earlier
  run, or whoever has an announced pid by now, except one that got it between `ps` and the
  kill, or that `ps` does not tell from the browser that had it (`windowed`).

*Run `engine`*, part `harness`: two workers, two dispatches of at most one helper each, two faults (a signal, a
failing `ps`, a reused pid, the parent's death): a worker's reap beside another's running
harness, a retry after a dispatch of the same worker, and pairs of faults. An instance
with two helpers per dispatch and one fault (380,000 states), and one with three
dispatches (400,000 states), hold as well.

*Proved* (`Engine_proofs`): `HarnessTyped`, `ReapsItsOwn` (`SparesOthers`) and `LeavesNothing` (`NothingLeft`), for any
number of workers, dispatches and faults (`HarnessBounds`: both counts are naturals). Neither property is inductive.
That a target is an orphan when it is listed says nothing of when it is killed: `Apart` and
`Known` say that a dispatch's mach is started once, so that an orphan stays one, and `Aimed`
that every target is such an orphan or was reused since. For what is left behind, `Closed` and
`Reaping` say that whatever a teardown can see is a target until it is dead, because its
baseline is older than the dispatch, and `UnderWay` that an unsettled dispatch has a worker, so
that a run whose workers are all done has none. `EngineTyped`, `DispatchesEnd` and `DispatchesSpare`
state the same of the specification that the run checks.

### Download

Trees are named by generation. Every request, rename, removal and git call is a step that may
fail; the command may be killed between any two, and the next one finds what is left.

- `WorkKept`: work in an engine is in `engine/` or in a backup until its loss has been agreed to
  (`agreed`: no work was found, or `--force` was confirmed) *and* the successor is
  committed and recorded.
- `EngineWhole`: `engine/` is never part of a tree, and never of an archive that was neither
  verified nor let through (`firefox.allowUnverifiedDownload`, for one whose digest cannot be
  had: `trusted`), except after a failure that follows the stamp or a put-back that itself fails
  (`late`; a kill in the middle of a put-back shows only as that).

*Run `workspace`*, part `source`: bounds on commands, faults and two requests per download.
*Run `download_furnace`*: the resume path does not clear the furnace state (section 5).

*Proved* (`Workspace_proofs`, "Downloads"): types, `WorkKept` and `EngineWhole`, for any number of commands,
faults and attempts per download (at least one attempt, as the code's constant has it). Neither is
inductive. `Counted` and `Ordered` say that generations are given out once and in order and that the
engine is newer than every backup; `Staged`, what a replacement may take for granted at each of its
steps, above all that the loss of what it replaces was agreed to; `SetAside`, that from being renamed away to
being removed or put back the previous engine is the newest backup; `Unborn`, that nobody has worked in a
tree without a commit, which is what entitles the resume path to take it over; `Lost`, that whatever
work is gone is older than such a tree; `Sound`, that what comes from an accepted archive is whole.

### ParkStore

A file is the set of session hunks in it. `WorkKept`: a hunk somebody made is in the engine or in
a park that can be restored, unless it was taken back, dropped, or made to a file between
the command's reading and writing it (`raced`: no lock keeps an editor out).
*Run `workspace`*, part `park`: two files, one of them created by the session, two hunks, two labels,
two edits, three commands, one stop; enough for a park, a partial restore, a conflict
and a second park of the same file.

*Proved* (`Workspace_proofs`, "Parks"): types and `ParkedKept` (`WorkKept` here), for any files, hunks, labels
and bounds, if no hunk is named like the content of an absent file. A hunk that its file does not hold
is in a readable park (`Carried`). That needs to know that a park is listed only when its bodies
are there (`Bodied`, `Filed`), that the running command has read what its files hold and that its
park has it before a file is written (`Taken`, `Filing`), that what it writes keeps the rest
(`Written`), and that a restore needs its own park no more for what it has written (`Restored`).

### TreeStore

The primary changes by commands that hold the session lock (and so are never seen at work)
and by writers that do not (`raced`). A command that is killed leaves its work half done and its
lock to be reaped: a tree may then be created of what it left, and its marker says just that. `SnapshotTrue`: a tree with a marker is the primary its
fingerprint describes and its build, if it has one, names the tree and not the primary; a
test that began before a removal looked at its lock (`doomed`) runs on such a tree. A removal killed
half-way (`cut`) may leave a marker behind.
*Run `workspace`*, part `trees`: two entries, two writes, two creates, one stop: a create that
is undone or killed, one that overlaps a write, and a removal.

*Proved* (`Workspace_proofs`, "Verification trees"): types and `SnapshotTrue`, for any entries and bounds. The
creation holds the session lock from its copy to its end (`TreeLocked`) and excludes a removal
(`OneOfThem`), so what it has copied is what the primary still has (`Copying`); and a test that no
removal has overlooked stands on a marked tree (`TreeTested`).

### Import

HEAD is the pristine source, so a file is what it has beyond HEAD. `Needs` says which hunk
another one builds on, `Clashes` which two change the same lines; applying, reversing and
three-way merging are what these relations allow: a hunk matches where it is not yet applied, clashes
with nothing, and what it builds on is there or comes with the same section (`Matches`); a section
reverses where it is all there, would fit what it leaves and takes nothing that a later hunk builds on
(`Unfits`); `--reject` applies changes as they match, those that build on each other together
(`Matching`). Import runs patch by patch: a check, an idempotent
recovery (reverse, check out, delete new files, forward), `--reject`, rollback of what was
applied. `i`, `attempt`, `saved` and `applied` are the code's own variables. A queue `Applies` when
git applies its patches to HEAD one by one.

- `EditsKept`: without `--force` no edit that was in the tree when the command looked is removed,
  whatever it reverses, overwrites or rolls back.
- `Delivers`: a success has every hunk of every patch in range in the tree, if nobody edited
  meanwhile (`disturbed`): recovering a later patch does not undo an earlier one. The hedge
  `CreatedFirst` leaves out queues in which a later patch creates a file that an earlier one has
  hunks in, which `resolve` can write: there the later patch's file replaces the earlier one's.
  A success without `--force` of a whole queue that applies has no more than that either: each
  claimed file is exactly the baseline the gate computes (`Expected`).
- `ForceRecovers`: if the queue applies, at most every second patch costs a forced import, whatever was
  in the tree: each failure in a row is at least two patches further than the last, so of n patches
  at most n / 2 imports fail before one succeeds.

*Run `workspace`*, part `import`: four patches over three files from three start queues, one whose
patches overlap and build on each other, one with a hunk HEAD no longer has, and one where two pairs of
patches share a file, in which two forced imports do fail in a row; three imports,
two changes of the tree, one of which may be a failing git call instead (`FewTroubles`). *Run `import_again`*: the comment "no-op" of
`commands/import.ts` (section 5).

*Proved* (`Workspace_proofs`), for any queue, files, hunks and relations between them: all three.

- `ImportsKeepEdits` proves `EditsKept`: the gate refuses an edit in a file some patch claims,
  because what the queue makes of a file has patch hunks only (`ExpectedTyped`); while the import
  runs, whatever it changes or puts back is of claimed files (`KeepsClaimed`), so the others keep theirs.
- `ImportsDeliver` proves `Delivers` from two invariants. `Progress`: what is applied is the queue up to
  the patch at hand, and its hunks are in the tree or in that patch. It holds because the
  files that may be reset are exactly those the patch at hand is the first to touch
  (`ResettableOpened`), which is what `protectedFiles` is for. `Exact`: each claimed file is as the
  whole queue makes it or as the patches before the one at hand do. The gate lets in no
  other file, since the baseline it folds is what git would lay (`ExpectedLaid`, by induction over the
  queue); a patch that reverses is not in the latter kind of file (`AppliesAt`).
- `ForcedImportsRecover` proves `ForceRecovers` from `Recovering`, which follows a forced import and the
  one after it. One that fails at a patch leaves the files this patch is the first to touch as
  it makes them, since `--reject` finds them empty, and the patches before it unable to be reversed,
  since they were rolled back (`BackedOut`, `Ready`). The next import finds just that: each of the
  former patches is reset and applied again, and so is the one that failed (`Advancing`). A patch can
  fail only over a file that another one, beyond the point reached before, was the first to
  touch (`FailsBeyond`): two patches further.

## 3. Fairness

Liveness is checked for the lock, its queue, its shared mode and the furnace lifecycle. These
specifications assume only that a process that can take its next step
eventually does (weak fairness of the steps of each attempt, process or command):
the code has timers and promises, no step waits for a human. Strong fairness is
used for waiters (`SF_vars(Step(w))`), since a stopped process may be resumed and
stopped again, and a polling waiter sees the lock free only now and then; it
assumes that polls, which go on for ever, do not miss it for ever. Faults, signals,
deadlines and new commands are never fair: nothing has to happen from outside.
A stale ticket does go stale in the end (`WF_vars(GoStale(w))`): time passes.

`Rebase`, `PatchQueue`, `Harness` and the modules of the stores state no fairness: their commands are
finite sequences of steps, and what matters is what they leave wherever they stop.

## 4. What is checked and proved, what is only checked

- TLAPS proves 47 theorems in eight proof modules, for any number of processes, waiters, fields,
  patches, files, hunks, downloads, trees and test workers and any set of faults. They rest on the
  assumptions named in each module (`FileLockAssumption`, ..., `EngineAssumption`, `WorkspaceAssumption`) or
  in the theorem (`Bounds`, `HarnessBounds`), which only say that constants have the shape the code gives them:
  bounds are naturals, a download is tried at least once, the name for "nobody" is no process, the
  content of an absent file is no hunk. TLC evaluates the assumptions on every run.
- The theorems of `Engine_proofs` and `Workspace_proofs` about `EngineSpec` and `WorkspaceSpec` are about
  the very specifications that the runs check. A step of these is a step of one part (`EngineStep`,
  `WorkspaceStep`), so each part's invariant is kept.
- Liveness (`DeadOwnerReclaimed`, `NotStranded`, `WriterServed`, `SignalEnds`) is checked with TLC
  only: reasoning about ENABLED and fairness is beyond the prover.
- `WorkspaceTypes` proves `StoreTypes`, the types of all six stores. For the patch queue it rests on
  what a renumbering plans (`ShiftedMoves`, `ReorderIs`, `CompactIs`: renames of rows that are there,
  each once, to orders that exist) and on where each kind of command can be (`KindAt`).
- `QueueKeepsListed`, `QueueRestores` and `QueueAgrees` prove `ListedIsKept`, `FailedRestores` and
  `AgreeAtRest` under a hypothesis of their own, `OwnNames`: no two patches have the same category and name.
  `workspace` checks an instance of that kind, `patchqueue_swap` one of the other.
- Every safety property that a passing run checks is stated by a theorem; those of `Import` rest on
  nothing but what `Matches`, `Fits` and `Unfits` say of any hunks.
- A function of records is updated as `[f EXCEPT ![p] = [@ EXCEPT !.a = x, !.b = y]]` throughout. The
  prover's translation of `[f EXCEPT ![p].a = x, ![p].b = y]` keeps only one of the two updates,
  so nothing that rests on that form could be believed; no module uses it.
- Induction over data is needed in one place, for what a queue of patches adds up to in a file
  (`ExpectedFolds`, `ExpectedLaid`); it goes through sets of numbers (`Least`, `Induct`), as the library's rules for
  predicates cannot be instantiated. No module declares a RECURSIVE operator.

The bounds of each run are in its `.cfg` and its MC module. The largest runs, `workspace`
and `engine`, have 0.9 million states over six parts and 1.5 million over three. Processes and workers
are interchangeable in `engine`, which uses symmetry; no liveness is checked there. Deadlock is checked nowhere: every run bounds the number of
commands or attempts, and a workspace in which nobody starts another one is at rest.

## 5. Where code and promise part

1. **The reaper's race** (`filelock_reap_race`). A reaper decides on the record it read
   and renames whatever is at the path by then. If another contender has reaped
   and re-acquired in between but not yet written its record, the second look
   finds no live owner and deletes the fresh directory. Two operations run.
2. **A torn engine after a signal** (`furnace_torn`). The handler restores the registered journal
   to the end and sweeps the locks; the interrupted body, which nothing stops or waits
   for, writes on after the restore; the process exits with a rewritten engine and no
   marker. Neighbours of that history, which the run leaves out, end no better: the body
   writes *while* the journal is restored; the signal finds the body waiting for the furnace lock, so that
   there is nothing to roll back, and the body then enters and writes; the body throws and
   `main().catch` ends the process half-way through the handler's restore.
3. **False version stamps** (`rebase_stamps`). An abort cut short after its engine reset
   leaves a session that `--continue` accepts; the re-exports find no difference,
   and every patch is stamped.
4. **The direct rollback** (`patchqueue_swap`). After a failed manifest write the files are
   renamed back directly; a swap of two patches with one name overwrites one.
5. **Checksums of a replaced engine** (`download_furnace`). A forced download killed before its
   baseline commit is resumed by a plain download, which records the new baseline and
   leaves the furnace state as it was: its checksums describe components that are gone.
6. **Importing again** (`import_again`). Where two patches share a file and a third builds on one of
   them, a second import of the applied stack is not the no-op its comment promises; it fails
   with patches taken out of the engine.

Weaker observations, without a property:

- *Furnace.* `furnace-operation.ts:613-615` says that the lock is held for the duration of a throw's
  restore, so that "a competing process cannot start mutating half-way through it". That is not true of a
  restore that takes longer than `SIGNAL_ROLLBACK_TIMEOUT_MS`: `withTimeout` abandons it, the marker is
  written, the lock released, and the restore goes on beside the next mutation, which may have
  read the marker before it queued. Bodies that restore on their own report an unwritten
  marker by different paths: some warn, some fail with the error of the write.
- *Rebase, furnace, queue.* After a signal or a crash between two patches `--continue` refuses and
  only `--abort` is left; a mutation that waits for the furnace lock does not see the marker
  its predecessor set; two rebases started at the same time are not kept apart; a body that
  restores its own journal may do so beside the handler; a process killed in the middle of a
  renumbering leaves staging names that a rebuild of the manifest takes for patches.
- *State files.* A load that judges a stale reading quarantines a file that is valid by then, and
  recovery writes the older values back (they are in the copy set aside).
- *Test sessions.* The token is HEAD and `git status --porcelain`, not contents, so a second
  edit of a dirty file is not seen; the stale gates look at dirty files only, so a file taken
  back to HEAD since the build passes; fingerprints are taken after the build and name what
  is there then; a missing baseline counts as "not stale"; a killed control build of a
  linked file leaves nothing for the next gate to see; recovery of a killed control runs
  under a shared lock too, so two runs may do it at once.
- *Test processes.* Node's `close` waits for mach's output, so a child of the group that keeps it
  open delays the sweep, and neither the forwarder nor `killProcessTree` does anything once mach has
  exited: on a signal the twelve seconds pass and the child stays. A retry or the next shard
  begun after the signal is in nobody's snapshot and is orphaned at the exit (the loop tests
  `parentExited()`, not signals). With `--jobs`, one worker's throw ends the process beside
  another's running harness. Each watchdog takes the parent as it finds it, so a parent that
  dies between two dispatches is never missed, and one that dies before the spawn leaves that
  dispatch unswept until its end. The run after a symlink repair has no tracker, reap or watchdog,
  although `docs/testing.md` says that every dispatch owns its kill path. The pass over unannounced
  helpers asks for parent 1, which a host with a subreaper never shows; the census of `--reap-orphans`
  asks for no parent at all, so it takes an overlapping run's live helpers for orphans. Whoever has a dead
  browser's pid is taken for it if its command line names an objdir (`isStillTrackedProcess`): another
  worker's browser, or one of another checkout.
- *Download.* A failure after `state.json` was updated puts the previous engine back while
  the state names the new baseline; a crash between the commit and the update leaves a HEAD
  no state records, and only `--force` helps; the loss check comes long before the replacement and
  no engine lock is held; a resume commits edits made since the crash; an archive that was accepted
  unverified gets the same sidecar as a verified one, so it stays valid in the cache when
  `firefox.allowUnverifiedDownload` is taken back.
- *Parks.* A crash between bodies and index leaves a directory that is not listed and blocks its
  label until `--drop`; drop takes no lock.
- *Trees.* A rebase or download takes no session lock, and the lock of a killed command is reaped, so a
  clone may capture either half done (`tree.ts:194-196` says "never"); a killed clone leaves a directory without a marker, which commands
  inside take for a primary project; a test may start after `tree remove` looked.
- *Import.* Forced imports of a queue of n patches that applies to HEAD may fail up to n / 2 times in a
  row before one succeeds; `--force --continue` repeated need not converge; `import --until` after a full import
  takes later patches' hunks out of shared files; a rollback may fail when hunks that
  `--reject` applied build on the patch; resolve records the file's whole difference from HEAD
  and so absorbs other patches' hunks, also the creation of a file, so that two patches may come to
  create it: the later one then replaces what the earlier one brought.

## 6. Plan

Done, in this order, because everything else rests on it: the lock and its promise,
the queue and shared mode above it, the furnace lifecycle, the rebase, the patch
queue; then state files, test sessions with negative controls, downloads, parks, trees and import,
and the processes of a test command.

Next, the most important first:

1. `Harness`: the census at the start and `--reap-orphans` beside a second FireForge
   process, the smoke run's deadline, `--pgid-file`; liveness (a signal ends the process).
2. `PatchQueue`: the remaining commands (slots, split, move files, rename, staged
   manifests); re-export outside the rebase.
3. `WaitBudget`: the deadline that moves with the queue and its ceiling, composed
   with `WaiterQueue`; every wait ends by the ceiling and none before its budget.
4. `FurnaceApply`: component by component, as a refinement of the body of
   `FurnaceMutation`.
5. Pure algorithms as operators against a reference definition: the rename plans
   of reorder and compact, order parsing, affected-file computation.
6. Compositions: `SharedLock` and `WaiterQueue` over `FileLock` in place of its promise, where
   the state space allows; a rebase or an import beside the queue's commands.

Theorem worth proving there: the ceiling in `WaitBudget`.

## 7. Not modelled

Text processing (diffs, hunks, manifests of Mozilla's build, lint rules, design
tokens), argument parsing, prompts and output; running `git`, `mach` and Firefox; the
run log and the history log, which no decision reads; the contents of files beyond
what a property tells apart. `PROJECT.json` lists each part with the reason.
