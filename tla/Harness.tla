------------------------------ MODULE Harness ------------------------------
(***************************************************************************)
(* The processes of `fireforge test`: each dispatch spawns mach as leader  *)
(* of a process group, mach starts helpers in the group and out of it, and *)
(* whatever outlives mach is swept, by group, by announced pid and by what *)
(* ps shows, before the dispatch settles.  Around it: retries, --jobs      *)
(* workers, the forwarded signal and the watchdog of FireForge's parent.   *)
(* Sources: utils/process.ts, process-group.ts, core/harness-helper-pids.ts,*)
(* harness-orphans.ts, parent-exit-watchdog.ts, test-xpcshell-retry.ts,    *)
(* commands/test-harness-teardown.ts, test-run.ts, test-shards.ts and      *)
(* bin/fireforge.ts.                                                       *)
(*                                                                         *)
(* SIGTERM may end a process or not, and a process may end without one, so *)
(* only SIGKILL is a step.  What mach left may die before it is killed, its*)
(* pid be reused.  POSIX only.                                             *)
(***************************************************************************)
EXTENDS Naturals, FiniteSets

CONSTANTS
    Workers,          \* --jobs
    MaxDispatches,    \* bound on dispatches of all workers
    MaxHelpers,       \* bound on processes mach starts
    MaxFaults         \* bound on signals, failing ps, reused pids, a dying parent

VARIABLES
    alive,      \* harness processes
    piped,      \* dispatches whose child holds mach's output open
    stranger,   \* pids of dead processes that name something else by now
    pc, current, bare,   \* per worker: step, dispatch, without teardown hooks
    baseline,   \* ... helpers that were there before it
    announced,  \* dispatches whose browser's pid has been read from the output
    targets,    \* ... survivors it is about to kill
    termed,     \* ... those of them that have had their SIGTERM
    watch,      \* ... its watchdog of the parent is on
    spawned,    \* dispatches so far
    settled,    \* dispatches whose closure has settled
    parent,     \* FireForge's parent is there
    noticed,    \* a watchdog has seen it gone
    signalled,  \* the signal handler is at work
    awaited,    \* ... and waits for these closures
    ended,      \* FireForge has exited
    missed,     \* history: processes the teardown has no means to see
    excused,    \* history: dispatches abandoned at the exit
    hit,        \* history: processes killed that were not the dispatch's to kill
    windowed,   \* history: reused pids ps did not tell apart, or was read too early to
    faults

procs   == <<alive, piped, stranger>>
worker  == <<pc, current, bare, baseline, targets, termed>>
signals == <<watch, parent, noticed, signalled, awaited>>
past    == <<missed, excused, hit, windowed>>
vars    == <<procs, worker, announced, signals, spawned, settled, ended, past, faults>>

Dispatches == 1..MaxDispatches
\* In mach's group a helper or a worker of its own; the browser; a helper nobody announces.
Kinds      == {"mach", "child", "browser", "http2"}
Earlier    == <<0, "http2">>       \* a survivor of an earlier run
Pids       == (Dispatches \X Kinds) \cup {Earlier}
NoBase     == {<<0, "none">>}    \* not a pid: ps failed

Mach(d)   == <<d, "mach">>
Group(d)  == {Mach(d), <<d, "child">>}
Of(d)     == {d} \X Kinds
Helpers   == {p \in Pids : p[2] = "http2"}
Orphan(p) == Mach(p[1]) \notin alive

TypeOK ==
    /\ alive \subseteq Pids /\ piped \subseteq Dispatches /\ stranger \subseteq Pids \ alive
    /\ pc \in [Workers -> {"idle", "spawn", "run", "reap", "kill", "settled", "done"}]
    /\ current \in [Workers -> 0..MaxDispatches] /\ bare \in [Workers -> BOOLEAN]
    /\ baseline \in [Workers -> (SUBSET Helpers) \cup {NoBase}]
    /\ targets \in [Workers -> SUBSET Pids] /\ termed \in [Workers -> SUBSET Pids]
    /\ announced \subseteq Dispatches
    /\ watch \in [Workers -> BOOLEAN]
    /\ spawned \in 0..MaxDispatches /\ settled \subseteq Dispatches
    /\ parent \in BOOLEAN /\ noticed \in BOOLEAN
    /\ signalled \in BOOLEAN /\ awaited \subseteq Dispatches /\ ended \in BOOLEAN
    /\ missed \subseteq Pids /\ excused \subseteq Dispatches
    /\ hit \subseteq Pids /\ windowed \subseteq Pids
    /\ faults \in 0..MaxFaults

Init ==
    /\ alive = {Earlier} /\ piped = {} /\ stranger = {}
    /\ pc = [w \in Workers |-> "idle"] /\ current = [w \in Workers |-> 0]
    /\ bare = [w \in Workers |-> FALSE] /\ baseline = [w \in Workers |-> NoBase]
    /\ announced = {}
    /\ targets = [w \in Workers |-> {}] /\ termed = [w \in Workers |-> {}]
    /\ watch = [w \in Workers |-> FALSE]
    /\ spawned = 0 /\ settled = {}
    /\ parent = TRUE /\ noticed = FALSE /\ signalled = FALSE /\ awaited = {} /\ ended = FALSE
    /\ missed = {} /\ excused = {} /\ hit = {} /\ windowed = {} /\ faults = 0

Goto(w, s) == pc' = [pc EXCEPT ![w] = s]
Fault      == faults < MaxFaults /\ faults' = faults + 1

-----------------------------------------------------------------------------
(* A dispatch. *)

\* The next shard, or a retry of a crashed one: the teardown starts its watchdog, which takes
\* the parent as it is then, and notes the helpers there are (snapshotObjdirHelpers), unless
\* ps fails.  Neither a signal nor another worker's failure keeps it from starting.
Begin(w) ==
    /\ pc[w] = "idle" /\ spawned < MaxDispatches
    /\ spawned' = spawned + 1 /\ current' = [current EXCEPT ![w] = spawned + 1]
    /\ watch' = [watch EXCEPT ![w] = parent]
    /\ \/ baseline' = [baseline EXCEPT ![w] = alive \cap Helpers] /\ UNCHANGED faults
       \/ baseline' = [baseline EXCEPT ![w] = NoBase] /\ Fault
    /\ Goto(w, "spawn")
    /\ UNCHANGED <<procs, bare, targets, termed, announced, parent, noticed, signalled,
                   awaited, settled, ended, past>>

\* mach starts others in its group, the browser in a group and moz-http2 in a session of
\* its own.  "Application pid: <n>" is read, or mach ends first.
Spawn(w) ==
    /\ pc[w] = "spawn"
    /\ \E K \in SUBSET Kinds :
          /\ "mach" \in K /\ Cardinality(K) <= 1 + MaxHelpers
          /\ alive' = alive \cup ({current[w]} \X K)
          /\ \/ announced' = announced
             \/ "browser" \in K /\ ~bare[w] /\ announced' = announced \cup {current[w]}
          /\ \/ piped' = piped
             \/ "child" \in K /\ piped' = piped \cup {current[w]}
    /\ Goto(w, "run")
    /\ UNCHANGED <<stranger, current, bare, baseline, targets, termed, signals, spawned, settled,
                   ended, past, faults>>

\* mach ends, for whatever reason, and takes the others with it or leaves them.
MachEnds(d) ==
    /\ Mach(d) \in alive
    /\ alive' \in {alive \ {Mach(d)}, alive \ Of(d)}
    /\ UNCHANGED <<piped, stranger, worker, announced, signals, spawned, settled, ended,
                   past, faults>>

\* What it left ends later, while somebody waits for it or is about to kill it, ...
Dies(p) ==
    /\ p \in alive /\ Orphan(p) /\ p # Earlier
    /\ (p[2] = "child" /\ p[1] \in piped) \/ \E w \in Workers : p \in targets[w]
    /\ alive' = alive \ {p}
    /\ UNCHANGED <<piped, stranger, worker, announced, signals, spawned, settled, ended,
                   past, faults>>

\* ... and its pid is given to a process the dispatch did not start.
Reuse(d) ==
    LET p == <<d, "browser">> IN
    /\ d \in announced /\ p \notin alive \cup stranger /\ Fault
    /\ stranger' = stranger \cup {p}
    /\ windowed' = IF \E w \in Workers : p \in targets[w] THEN windowed \cup {p} ELSE windowed
    /\ UNCHANGED <<alive, piped, worker, announced, signals, spawned, settled, ended,
                   missed, excused, hit>>

-----------------------------------------------------------------------------
(* Its teardown. *)

\* With the dispatch its tracker and its baseline are gone.
Settle(w) ==
    /\ settled' = settled \cup {current[w]}
    /\ watch' = [watch EXCEPT ![w] = FALSE]
    /\ baseline' = [baseline EXCEPT ![w] = NoBase]
    /\ announced' = announced \ {current[w]} /\ piped' = piped \ {current[w]}
    /\ Goto(w, "settled")

\* 'close' comes when mach has exited and nobody holds its output.  Then the group is swept:
\* listed, SIGTERM and a grace, listed again and SIGKILL.  A repaired xpcshell run has no
\* postCloseSweep and settles with it.
Held(d) == d \in piped /\ <<d, "child">> \in alive

Close(w) ==
    /\ pc[w] = "run" /\ Mach(current[w]) \notin alive /\ ~Held(current[w])
    /\ alive' = alive \ Group(current[w])
    /\ IF bare[w]
       THEN Settle(w) /\ missed' = missed \cup ((alive \cap Of(current[w])) \ Group(current[w]))
       ELSE Goto(w, "reap") /\ UNCHANGED <<settled, watch, baseline, announced, piped, missed>>
    /\ UNCHANGED <<stranger, current, bare, targets, termed, parent, noticed, signalled, awaited,
                   spawned, ended, excused, hit, windowed, faults>>

\* survivingTrackedPids: announced, alive, and by ps still what was announced, which for a
\* browser says no more than that its command line names an objdir.
Tracked(d, alike) == IF d \in announced THEN {<<d, "browser">>} \cap (alive \cup alike) ELSE {}

\* Mutant: without the test of the parent.
UnannouncedAnyway(w) == IF baseline[w] = NoBase THEN {} ELSE (alive \cap Helpers) \ baseline[w]

\* findUnannouncedSurvivors: helpers of this objdir, reparented, and not there before.
Unannounced(w) ==
    IF baseline[w] = NoBase THEN {}
    ELSE {p \in alive \cap Helpers : Orphan(p)} \ baseline[w]

\* It asks ps twice, for the announced pids and for every process; either may fail.
Targets(w, told, alike) ==
    (IF "announced" \in told THEN Tracked(current[w], alike) ELSE {})
    \cup (IF "all" \in told THEN Unannounced(w) ELSE {})

\* What that cannot show the teardown of w.
Unseen(w, told) ==
    LET d == current[w] IN
    {p \in (alive \cap Of(d)) \ Group(d) :
        IF p[2] = "browser" THEN "announced" \notin told \/ d \notin announced
                            ELSE "all" \notin told \/ baseline[w] = NoBase}

\* Some who have got a pid may look like those who had it: alike.
Reap(w) ==
    /\ pc[w] = "reap"
    /\ \E told \in SUBSET {"announced", "all"}, alike \in SUBSET (stranger \cap Of(current[w])) :
          /\ IF told = {"announced", "all"} THEN UNCHANGED faults ELSE Fault
          /\ missed' = missed \cup Unseen(w, told)
          /\ targets' = [targets EXCEPT ![w] = Targets(w, told, alike)]
          /\ windowed' = windowed \cup (Targets(w, told, alike) \ alive)
          /\ IF Targets(w, told, alike) = {} THEN Settle(w)
             ELSE Goto(w, "kill") /\ UNCHANGED <<settled, watch, baseline, announced, piped>>
    /\ UNCHANGED <<alive, stranger, current, bare, termed, parent, noticed, signalled, awaited,
                   spawned, ended, excused, hit>>

\* Killing an orphan of one's own kind, whichever dispatch left it, is what a reap is for.
Wrong(w, p) == p = Earlier \/ p \in stranger \/ (p \in alive /\ ~Orphan(p))

\* terminateHarnessProcesses, one pid after the other: a SIGTERM, which fails when
\* nobody has the pid, ...
Term(w, p) ==
    /\ pc[w] = "kill" /\ termed[w] = {} /\ p \in targets[w]
    /\ IF p \in alive \cup stranger
       THEN termed' = [termed EXCEPT ![w] = {p}] /\ UNCHANGED targets
       ELSE targets' = [targets EXCEPT ![w] = @ \ {p}] /\ UNCHANGED termed
    /\ hit' = IF Wrong(w, p) THEN hit \cup {p} ELSE hit
    /\ UNCHANGED <<procs, pc, current, bare, baseline, announced, signals, spawned, settled,
                   ended, missed, excused, windowed, faults>>

\* ... and after the grace a SIGKILL to whoever has it.
Kill(w, p) ==
    /\ pc[w] = "kill" /\ p \in termed[w]
    /\ alive' = alive \ {p} /\ stranger' = stranger \ {p}
    /\ hit' = IF Wrong(w, p) THEN hit \cup {p} ELSE hit
    /\ targets' = [targets EXCEPT ![w] = @ \ {p}] /\ termed' = [termed EXCEPT ![w] = {}]
    /\ UNCHANGED <<piped, pc, current, bare, baseline, announced, signals, spawned, settled,
                   ended, missed, excused, windowed, faults>>

Reaped(w) ==
    /\ pc[w] = "kill" /\ targets[w] = {}
    /\ Settle(w)
    /\ UNCHANGED <<alive, stranger, current, bare, targets, termed, parent, noticed,
                   signalled, awaited, spawned, ended, past, faults>>

-----------------------------------------------------------------------------
(* What follows a dispatch. *)

\* The parent is gone: the run ends, and abandons what the other workers run.
Throw(w) ==
    /\ pc[w] = "settled" /\ ~bare[w] /\ noticed
    /\ ended' = TRUE /\ excused' = excused \cup (1..spawned \ settled)
    /\ UNCHANGED <<procs, worker, announced, signals, spawned, settled, missed, hit, windowed,
                   faults>>

\* An xpcshell run with a stale symlink is repaired and run again, without hooks.
Repair(w) ==
    /\ pc[w] = "settled" /\ ~bare[w] /\ ~noticed /\ spawned < MaxDispatches
    /\ spawned' = spawned + 1 /\ current' = [current EXCEPT ![w] = spawned + 1]
    /\ bare' = [bare EXCEPT ![w] = TRUE]
    /\ Goto(w, "spawn")
    /\ UNCHANGED <<procs, baseline, targets, termed, announced, signals, settled, ended,
                   past, faults>>

\* A verdict: the crash is retried or the next shard taken, or there is none left.
Classify(w) ==
    /\ pc[w] = "settled" /\ (~bare[w] => ~noticed)
    /\ \E s \in {"idle", "done"} : Goto(w, s)
    /\ bare' = [bare EXCEPT ![w] = FALSE]
    /\ UNCHANGED <<procs, current, baseline, targets, termed, announced, signals, spawned,
                   settled, ended, past, faults>>

-----------------------------------------------------------------------------
(* The parent, and signals. *)

ParentDies ==
    /\ parent /\ parent' = FALSE /\ Fault
    /\ UNCHANGED <<procs, worker, announced, watch, noticed, signalled, awaited, spawned,
                   settled, ended, past>>

\* The watchdog sweeps the group, if there is one by now.
WatchdogFires(w) ==
    /\ watch[w] /\ ~parent
    /\ watch' = [watch EXCEPT ![w] = FALSE]
    /\ noticed' = TRUE
    /\ alive' = alive \ Group(current[w])
    /\ UNCHANGED <<piped, stranger, worker, announced, parent, signalled, awaited, spawned, settled,
                   ended, past, faults>>

\* SIGINT or SIGTERM: every forwarder signals its group, and the handler takes the
\* closures there are.
Signal ==
    /\ ~signalled /\ Fault
    /\ signalled' = TRUE
    /\ awaited' = {current[w] : w \in {x \in Workers : pc[x] \in {"run", "reap", "kill"}}}
    /\ UNCHANGED <<procs, worker, announced, watch, parent, noticed, spawned, settled, ended,
                   past>>

\* The grace is over, or the signal came again: only while mach itself is alive.
Escalate(w) ==
    /\ pc[w] = "run" /\ current[w] \in awaited /\ Mach(current[w]) \in alive
    /\ alive' = alive \ Group(current[w])
    /\ UNCHANGED <<piped, stranger, worker, announced, signals, spawned, settled, ended, past,
                   faults>>

\* Twelve seconds are enough for every grace on the way, but not when 'close' does not come.
Late(d) == d \notin settled /\ Mach(d) \notin alive /\ Held(d)

\* Mutant: without waiting for the closures.
HandlerExitsAtOnce ==
    /\ signalled
    /\ ended' = TRUE /\ excused' = excused \cup (1..spawned \ awaited)
    /\ UNCHANGED <<procs, worker, announced, signals, spawned, settled, missed, hit, windowed,
                   faults>>

\* The handler exits, and abandons what began after the signal.
HandlerExits ==
    /\ signalled
    /\ \/ awaited \subseteq settled /\ excused' = excused \cup (1..spawned \ awaited)
       \/ (\E d \in awaited : Late(d)) /\ excused' = excused \cup (1..spawned \ settled)
    /\ ended' = TRUE
    /\ UNCHANGED <<procs, worker, announced, signals, spawned, settled, missed, hit, windowed,
                   faults>>

\* All is done.
Exit ==
    /\ \A w \in Workers : pc[w] = "done"
    /\ ended' = TRUE
    /\ UNCHANGED <<procs, worker, announced, signals, spawned, settled, past, faults>>

Next ==
    \/ ~ended /\ \/ \E w \in Workers :
                       \/ Begin(w) \/ Spawn(w) \/ Close(w) \/ Reap(w) \/ Reaped(w)
                       \/ Throw(w) \/ Repair(w) \/ Classify(w)
                       \/ WatchdogFires(w) \/ Escalate(w)
                       \/ \E p \in targets[w] : Term(w, p) \/ Kill(w, p)
                 \/ ParentDies \/ Signal \/ HandlerExits \/ Exit
                 \/ \E d \in Dispatches : MachEnds(d) \/ Reuse(d)
                 \/ \E p \in alive : Dies(p)

Spec == Init /\ [][Next]_vars

-----------------------------------------------------------------------------
(* Properties *)

(* A dispatch that has settled has left no process behind but those its      *)
(* teardown has no means to see; and when FireForge exits, by itself or on a *)
(* signal, nothing of any dispatch runs on, unless another worker's failure  *)
(* or the signal abandoned it.                                               *)
NothingLeft ==
    \A p \in alive \ {Earlier} :
        /\ p[1] \in settled => p \in missed
        /\ ended => p \in missed \/ p[1] \in excused

(* No reap kills what is not an orphan of this run: not a process of a       *)
(* harness that still runs, not an earlier run's survivor, not whoever got   *)
(* the pid, unless it did so after ps was read, or it runs from an objdir    *)
(* itself and has got an announced browser's.                                *)
SparesOthers ==
    hit \subseteq windowed
=============================================================================
