-------------------------- MODULE TestSession_proofs --------------------------
(***************************************************************************)
(* Proofs about TestSession for any processes and bounds, and each kind of  *)
(* file.  A control's owner is alone (Locked), what it has taken out of the *)
(* file is in its journal until it is back (Controlled, Journaled), and an  *)
(* edit it is about to overwrite was made in its window (Read).  As long as *)
(* no edit was missed, what a trusted objdir carries is what the file, or   *)
(* the baseline, says (Carried), at every point of a build (Built) and of a *)
(* test (Tested), and so the verdict is about what was tested.              *)
(***************************************************************************)
EXTENDS TestSession, TLAPS

Bounds ==
    /\ Nobody \notin Procs
    /\ MaxEdits \in Nat /\ MaxCommands \in Nat /\ MaxKills \in Nat

(* The lock: whoever is past it holds it, alone or with other sharers.      *)
Active(p) == run[p].pc \notin {"idle", "lock"}

Locked ==
    /\ \A p \in Procs : Active(p) =>
          IF Exclusive(p) THEN lock.excl = p ELSE p \in lock.sharers
    /\ lock.excl # Nobody => lock.sharers = {}

(* Which commands come where.                                               *)
Making(p) == run[p].pc \in {"compile", "link", "record"}
First(p)  == run[p].cmd = "control" /\ ~run[p].again

Routed ==
    /\ ControlBuilt => kind = "compiled"
    /\ \A p \in Procs :
        /\ run[p].pc \in {"prepare", "journal", "mutate", "restore"} => run[p].cmd = "control"
        /\ At(p, "gate") => run[p].cmd \in {"test", "shared", "control"}
        /\ At(p, "gate") /\ run[p].cmd = "control" => kind # "compiled"
        /\ Making(p) => run[p].cmd \notin {"test", "shared"}
        /\ Making(p) /\ run[p].cmd = "control" => kind = "compiled" /\ run[p].full
        /\ Making(p) /\ run[p].cmd = "build" => run[p].full
        /\ run[p].cmd \in {"build", "ui"} /\ Active(p) => Making(p)
        /\ run[p].again => run[p].cmd = "control" /\ Making(p)

(* The control of a run, and whose it is.                                   *)
Controlled ==
    \A p \in Procs :
        LET c == control[p] IN
        /\ (c.step # "none" /\ ~c.own) <=> At(p, "recovering")
        /\ c.own => c.step # "none"
        /\ c.step = "applied" => c.own
        /\ c.own => /\ run[p].cmd = "control"
                    /\ run[p].pc \in {"mutate", "restore", "compile", "link", "record", "snapshot",
                                      "dispatch", "verify"}
        /\ At(p, "mutate") => c.step = "applied"
        /\ run[p].again => c.step = "done"
        /\ First(p) /\ run[p].pc \in {"compile", "link", "record", "snapshot", "dispatch", "verify"}
              /\ ~run[p].sig => c.step = "applied"
        /\ c.step # "none" => /\ c.job # NoJournal
                              /\ ~c.job.orig.neut /\ c.job.mut = Neuter(c.job.orig)
        /\ c.step \notin {"none", "failed"} => journal \in {c.job, NoJournal}
        /\ c.step = "done" => journal = NoJournal
        /\ c.step = "remove" => ~file.neut

(* The journal, and the runs that have found none.                          *)
Journaled ==
    /\ BytesKept
    /\ journal # NoJournal => ~journal.orig.neut /\ journal.mut = Neuter(journal.orig)
    /\ \A p \in Procs :
         /\ run[p].pc \in {"gate", "prepare", "journal"} => journal = NoJournal
         /\ run[p].cmd \in {"test", "shared", "testbuild"} /\ Active(p)
               /\ run[p].pc \notin {"recover", "recovering"} => journal = NoJournal
         /\ run[p].pc \in {"journal", "mutate"} => ~run[p].seen.neut
         /\ At(p, "mutate") => journal = control[p].job /\ journal.orig = run[p].seen

(* An edit that a control is about to overwrite is known to be one.         *)
Read ==
    /\ EditsSurvive
    /\ \A p \in Procs :
         /\ run[p].pc \in {"journal", "mutate"} => file.v = run[p].seen.v \/ file.v \in windowed
         /\ control[p].step = "put" /\ journal # NoJournal =>
               file.v = control[p].job.mut.v \/ file.v \in windowed

(* What the objdir carries, ...                                             *)
Trusted ==
    IF kind = "compiled" THEN ~ControlBuilt /\ ~\E p \in Procs : At(p, "record") /\ First(p)
    ELSE baseline.there /\ ~\E p \in Procs : run[p].pc \in {"link", "record"}

Back ==     \* the file is HEAD's, or a control will make it so
    \/ file \in {Clean, Neuter(Clean)}
    \/ \E p \in Procs : \/ run[p].pc \in {"journal", "mutate"} /\ run[p].seen = Clean
                        \/ control[p].step = "put" /\ control[p].job.orig = Clean

Carried ==
    /\ kind = "compiled" /\ ~objOld => obj = file
    /\ kind = "compiled" /\ ~newer /\ ~unseen => built = file
    /\ kind # "live" /\ Trusted /\ Back /\ ~unseen => built = Clean
    /\ kind = "copied" /\ Trusted /\ ~unseen =>
          built = IF baseline.fp = NoPrint THEN Clean ELSE baseline.fp

(* ... while it is built, ...                                               *)
Built ==
    ~unseen => \A p \in Procs :
        LET r == run[p] IN
        /\ At(p, "compile") /\ kind = "compiled" /\ r.cmd = "testbuild" /\ ~r.full => built = file
        /\ Making(p) /\ kind = "compiled" /\ r.cmd = "testbuild" /\ ~r.full => ~ControlBuilt
        /\ At(p, "compile") /\ First(p) /\ ~r.sig => file.neut
        /\ At(p, "link") /\ kind = "compiled" /\ r.full /\ ~r.sig => ~objOld /\ file = r.about
        /\ r.pc \in {"link", "record"} /\ (kind = "copied" \/ (kind = "compiled" /\ r.full))
              /\ ~First(p) => ~file.neut
        /\ r.pc \in {"link", "record"} /\ kind = "copied" => built = file /\ built = r.about
        /\ At(p, "link") /\ kind = "compiled" /\ ~r.full /\ r.cmd = "testbuild" => built = r.about
        /\ At(p, "link") /\ First(p) => r.about.neut
        /\ At(p, "record") /\ kind = "compiled" /\ r.full /\ ~First(p) => built = file
        /\ At(p, "record") /\ kind = "compiled" /\ r.cmd \in {"control", "testbuild"}
              /\ ~r.again => built = r.about
        /\ At(p, "record") /\ First(p) => r.about.neut

(* ... and while it is tested.                                              *)
Tested ==
    ~unseen => \A p \in Procs :
        LET r == run[p] IN
        /\ r.pc \in {"snapshot", "dispatch"} =>
              /\ kind = "compiled" => built = r.about
              /\ kind = "copied" /\ r.cmd # "control" /\ (r.based \/ r.cmd = "testbuild") =>
                    built = r.about
        /\ r.pc \in {"snapshot", "dispatch", "verify"} /\ kind = "compiled" /\ r.cmd = "control" =>
              r.about.neut
        /\ At(p, "verify") =>
              /\ kind = "compiled" => r.tested = r.about
              /\ kind = "copied" /\ r.cmd # "control" /\ r.based => r.tested = r.about
        /\ kind = "live" /\ ~r.sig =>
              /\ At(p, "snapshot") /\ r.cmd = "control" => file.neut
              /\ r.pc \in {"dispatch", "verify"} /\ r.status = Dirty(file) => file = r.about
              /\ At(p, "verify") /\ r.status = Dirty(file) => r.tested = r.about
              /\ r.pc \in {"dispatch", "verify"} /\ r.cmd = "control" => r.about.neut

Inv ==
    /\ TypeOK /\ Locked /\ Routed /\ Controlled /\ Journaled /\ Read
    /\ Carried /\ Built /\ Tested /\ VerdictTrue

(* The values a process starts with have their types.                       *)
LEMMA IdleTyped ==
    ASSUME Bounds
    PROVE  Clean \in Contents /\ Idle \in Runs /\ NoControl \in Controls /\ NoJournal \in Journals
<1>1. Clean \in Contents
  BY DEF Clean, Contents, Bounds
<1>2. Idle \in Runs
  BY <1>1 DEF Idle, Runs, PCs, Commands
<1>3. NoControl \in Controls /\ NoJournal \in Journals
  BY DEF NoControl, Controls, Journals
<1> QED BY <1>1, <1>2, <1>3

(* No content is the absent fingerprint, no journal the absent journal.     *)
LEMMA Distinct == NoPrint \notin Contents /\ NoJournal \notin [orig : Contents, mut : Contents]
BY DEF NoPrint, Contents, NoJournal

(* Whoever holds the lock exclusively is alone.                             *)
LEMMA Alone ==
    ASSUME Bounds, Locked, NEW p \in Procs, Active(p), Exclusive(p)
    PROVE  \A q \in Procs : Active(q) => q = p
BY DEF Bounds, Locked

(* A neutered file is one, of the same version.                             *)
LEMMA NeuterTyped ==
    ASSUME NEW c \in Contents
    PROVE  Neuter(c) \in Contents /\ Neuter(c).neut /\ Neuter(c).v = c.v
BY DEF Neuter, Contents

(* Where a build ends: with the command, or where a test or a restore
   begins.                                                                  *)
LEMMA Continued ==
    ASSUME NEW p \in Procs
    PROVE  /\ Continue(p, AfterBuild(p, TRUE)) =>
                 \/ Finish(p)
                 \/ /\ run[p].cmd \notin {"build", "ui"} /\ ~run[p].again
                    /\ Goto(p, "snapshot") /\ UNCHANGED <<lock, control>>
           /\ Continue(p, AfterBuild(p, FALSE)) =>
                 \/ Finish(p)
                 \/ First(p) /\ Goto(p, "restore") /\ UNCHANGED <<lock, control>>
<1>1. CASE run[p].cmd \in {"build", "ui"} \/ run[p].again
  <2>1. AfterBuild(p, TRUE) = "finish" /\ AfterBuild(p, FALSE) = "finish"
    BY <1>1 DEF AfterBuild
  <2> QED BY <2>1 DEF Continue
<1>2. CASE First(p)
  <2>1. AfterBuild(p, TRUE) = "snapshot" /\ AfterBuild(p, FALSE) = "restore"
    BY <1>2 DEF AfterBuild, First
  <2> QED BY <1>2, <2>1 DEF Continue, First
<1>3. CASE run[p].cmd \notin {"build", "ui", "control"} /\ ~run[p].again
  <2>1. AfterBuild(p, TRUE) = "snapshot" /\ AfterBuild(p, FALSE) = "finish"
    BY <1>3 DEF AfterBuild
  <2> QED BY <1>3, <2>1 DEF Continue
<1> QED BY <1>1, <1>2, <1>3 DEF First

(* The updates of a run that the actions make keep its type.                *)
LEMMA UpdatedFull ==
    ASSUME NEW p \in Procs, NEW r \in [Procs -> Runs], NEW x \in PCs, NEW b \in BOOLEAN
    PROVE  [r EXCEPT ![p] = [@ EXCEPT !.pc = x, !.full = b]] \in [Procs -> Runs]
BY DEF Runs

LEMMA UpdatedAbout ==
    ASSUME NEW p \in Procs, NEW r \in [Procs -> Runs], NEW x \in PCs, NEW c \in Contents
    PROVE  [r EXCEPT ![p] = [@ EXCEPT !.pc = x, !.about = c]] \in [Procs -> Runs]
BY DEF Runs

LEMMA UpdatedSig ==
    ASSUME NEW p \in Procs, NEW r \in [Procs -> Runs]
    PROVE  [r EXCEPT ![p].sig = TRUE] \in [Procs -> Runs]
BY DEF Runs

LEMMA UpdatedSeen ==
    ASSUME NEW p \in Procs, NEW r \in [Procs -> Runs], NEW x \in PCs, NEW c \in Contents
    PROVE  [r EXCEPT ![p] = [@ EXCEPT !.seen = c, !.pc = x]] \in [Procs -> Runs]
BY DEF Runs

LEMMA UpdatedBased ==
    ASSUME NEW p \in Procs, NEW r \in [Procs -> Runs], NEW x \in PCs, NEW c \in Contents, NEW b \in BOOLEAN
    PROVE  [r EXCEPT ![p] = [@ EXCEPT !.about = c, !.based = b, !.pc = x]] \in [Procs -> Runs]
BY DEF Runs

LEMMA UpdatedAgain ==
    ASSUME NEW p \in Procs, NEW r \in [Procs -> Runs], NEW x \in PCs, NEW b \in BOOLEAN, NEW d \in BOOLEAN
    PROVE  [r EXCEPT ![p] = [@ EXCEPT !.pc = x, !.full = b, !.again = d]] \in [Procs -> Runs]
BY DEF Runs

LEMMA UpdatedTested ==
    ASSUME NEW p \in Procs, NEW r \in [Procs -> Runs], NEW x \in PCs, NEW c \in Contents
    PROVE  [r EXCEPT ![p] = [@ EXCEPT !.tested = c, !.pc = x]] \in [Procs -> Runs]
BY DEF Runs

LEMMA UpdatedStatus ==
    ASSUME NEW p \in Procs, NEW r \in [Procs -> Runs], NEW x \in PCs, NEW c \in Contents, NEW b \in BOOLEAN,
           NEW d \in BOOLEAN
    PROVE  [r EXCEPT ![p] = [@ EXCEPT !.status = b, !.pc = x, !.about = c, !.based = d]] \in [Procs -> Runs]
BY DEF Runs

(* Every step keeps the type of the runs, ...                               *)
LEMMA RunTyped ==
    ASSUME Bounds, TypeOK, [Next]_vars
    PROVE  run' \in [Procs -> Runs]
<1> USE DEF TypeOK, Runs, PCs, At, Goto
<1>1. ASSUME NEW p \in Procs, Enter(p) PROVE run' \in [Procs -> Runs]
  <2> DEFINE all == run[p].cmd = "build"
  <2>1. all \in BOOLEAN
    OBVIOUS
  <2>2. PICK x \in {"compile", "recover"} :
            run' = [run EXCEPT ![p] = [@ EXCEPT !.pc = x, !.full = all]]
    BY <1>1 DEF Enter
  <2> HIDE DEF all, Runs
  <2> QED BY <2>1, <2>2, UpdatedFull
<1>2. ASSUME NEW p \in Procs, Recover(p) PROVE run' \in [Procs -> Runs]
  <2>1. CASE \E x \in PCs : run' = [run EXCEPT ![p].pc = x]
    BY <2>1
  <2>2. CASE ~\E x \in PCs : run' = [run EXCEPT ![p].pc = x]
    <3> DEFINE b == (kind = "compiled" /\ newer /\ Dirty(file)) \/ baseline.stamp # Nobody
    <3>1. run' = [run EXCEPT ![p] = [@ EXCEPT !.pc = "compile", !.full = b]]
      BY <1>2, <2>2 DEF Recover
    <3>2. b \in BOOLEAN
      OBVIOUS
    <3> HIDE DEF b, Runs
    <3> QED BY <3>1, <3>2, UpdatedFull
  <2> QED BY <2>1, <2>2
<1>3. ASSUME NEW p \in Procs, Recovered(p) PROVE run' \in [Procs -> Runs]
  BY <1>3, IdleTyped DEF Recovered, Finish
<1>4. ASSUME NEW p \in Procs, Look(p) PROVE run' \in [Procs -> Runs]
  BY <1>4 DEF Look
<1>5. ASSUME NEW p \in Procs, Put(p) PROVE run' \in [Procs -> Runs]
  BY <1>5 DEF Put
<1>6. ASSUME NEW p \in Procs, Remove(p) PROVE run' \in [Procs -> Runs]
  BY <1>6 DEF Remove
<1>7. ASSUME NEW p \in Procs, Prepare(p) PROVE run' \in [Procs -> Runs]
  <2>1. CASE Finish(p)
    BY <2>1, IdleTyped DEF Finish
  <2>2. CASE ~Finish(p)
    <3> DEFINE c == file  x == "journal"
    <3>1. run' = [run EXCEPT ![p] = [@ EXCEPT !.seen = c, !.pc = x]]
      BY <1>7, <2>2 DEF Prepare
    <3>2. c \in Contents /\ x \in PCs
      BY DEF PCs, Baselines
    <3> HIDE DEF c, x, Runs, PCs
    <3> QED BY <3>1, <3>2, UpdatedSeen
  <2> QED BY <2>1, <2>2
<1>8. ASSUME NEW p \in Procs, WriteJournal(p) PROVE run' \in [Procs -> Runs]
  BY <1>8 DEF WriteJournal
<1>9. ASSUME NEW p \in Procs, Mutate(p) PROVE run' \in [Procs -> Runs]
  <2> DEFINE all == kind = "compiled"
  <2>1. all \in BOOLEAN
    OBVIOUS
  <2>2. PICK x \in {"compile", "snapshot"} :
            run' = [run EXCEPT ![p] = [@ EXCEPT !.pc = x, !.full = all]]
    BY <1>9 DEF Mutate
  <2> HIDE DEF all, Runs
  <2> QED BY <2>1, <2>2, UpdatedFull
<1>10. ASSUME NEW p \in Procs, MutateFails(p) PROVE run' \in [Procs -> Runs]
  BY <1>10 DEF MutateFails
<1>11. ASSUME NEW p \in Procs, Compile(p) PROVE run' \in [Procs -> Runs]
  <2>1. run' = [run EXCEPT ![p] = [@ EXCEPT !.pc = "link", !.about = file]]
    BY <1>11 DEF Compile
  <2> HIDE DEF Runs
  <2> QED BY <2>1, UpdatedAbout
<1>12. ASSUME NEW p \in Procs, Link(p) PROVE run' \in [Procs -> Runs]
  BY <1>12 DEF Link
<1>13. ASSUME NEW p \in Procs, BuildFails(p) PROVE run' \in [Procs -> Runs]
  BY <1>13, IdleTyped DEF BuildFails, Finish, Continue, AfterBuild
<1>14. ASSUME NEW p \in Procs, Record(p) PROVE run' \in [Procs -> Runs]
  BY <1>14, IdleTyped DEF Record, Finish, Continue, AfterBuild
<1>15. ASSUME NEW p \in Procs, Gate(p) PROVE run' \in [Procs -> Runs]
  <2>1. CASE Finish(p)
    BY <2>1, IdleTyped DEF Finish
  <2>2. CASE ~Finish(p)
    <3> DEFINE c == file  b == baseline.there  x == IF run[p].cmd = "control" THEN "prepare" ELSE "snapshot"
    <3>1. run' = [run EXCEPT ![p] = [@ EXCEPT !.about = c, !.based = b, !.pc = x]]
      BY <1>15, <2>2 DEF Gate
    <3>2. c \in Contents /\ b \in BOOLEAN /\ x \in PCs
      BY DEF PCs, Baselines
    <3> HIDE DEF c, b, x, Runs, PCs
    <3> QED BY <3>1, <3>2, UpdatedBased
  <2> QED BY <2>1, <2>2
<1>16. ASSUME NEW p \in Procs, Snapshot(p) PROVE run' \in [Procs -> Runs]
  <2> DEFINE b == Dirty(file)
              d == run[p].based \/ run[p].cmd \notin {"test", "shared"}
              c == IF kind = "live" THEN file ELSE run[p].about
  <2>1. run' = [run EXCEPT ![p] = [@ EXCEPT !.status = b, !.pc = "dispatch", !.about = c, !.based = d]]
    BY <1>16 DEF Snapshot
  <2>2. b \in BOOLEAN /\ d \in BOOLEAN /\ c \in Contents /\ "dispatch" \in PCs
    BY DEF Dirty
  <2> HIDE DEF b, c, d, Runs, PCs
  <2> QED BY <2>1, <2>2, UpdatedStatus
<1>17. ASSUME NEW p \in Procs, Dispatch(p) PROVE run' \in [Procs -> Runs]
  <2> DEFINE c == IF kind = "live" THEN file ELSE built  x == "verify"
  <2>1. run' = [run EXCEPT ![p] = [@ EXCEPT !.tested = c, !.pc = x]]
    BY <1>17 DEF Dispatch
  <2>2. c \in Contents /\ x \in PCs
    BY DEF PCs
  <2> HIDE DEF c, x, Runs, PCs
  <2> QED BY <2>1, <2>2, UpdatedTested
<1>18. ASSUME NEW p \in Procs, Verify(p) PROVE run' \in [Procs -> Runs]
  BY <1>18, IdleTyped DEF Verify, Finish
<1>19. ASSUME NEW p \in Procs, BeginRestore(p) PROVE run' \in [Procs -> Runs]
  BY <1>19 DEF BeginRestore
<1>20. ASSUME NEW p \in Procs, Restored(p) PROVE run' \in [Procs -> Runs]
  <2>1. CASE Finish(p)
    BY <2>1, IdleTyped DEF Finish
  <2>2. CASE ~Finish(p)
    <3> DEFINE b == TRUE  d == TRUE  x == "compile"
    <3>1. run' = [run EXCEPT ![p] = [@ EXCEPT !.pc = x, !.full = b, !.again = d]]
      BY <1>20, <2>2 DEF Restored
    <3>2. b \in BOOLEAN /\ d \in BOOLEAN /\ x \in PCs
      BY DEF PCs, Baselines
    <3> HIDE DEF b, d, x, Runs, PCs
    <3> QED BY <3>1, <3>2, UpdatedAgain
  <2> QED BY <2>1, <2>2
<1>21. ASSUME NEW p \in Procs, Exit(p) PROVE run' \in [Procs -> Runs]
  BY <1>21, IdleTyped DEF Exit, Finish
<1>22. ASSUME NEW p \in Procs, Signal(p) PROVE run' \in [Procs -> Runs]
  <2>1. run' = [run EXCEPT ![p].sig = TRUE]
    BY <1>22 DEF Signal
  <2> HIDE DEF Runs
  <2> QED BY <2>1, UpdatedSig
<1>23. ASSUME NEW p \in Procs, Kill(p) PROVE run' \in [Procs -> Runs]
  BY <1>23, IdleTyped DEF Kill, Finish
<1>24. ASSUME NEW p \in Procs, NEW c \in Commands, Start(p, c) PROVE run' \in [Procs -> Runs]
  <2>1. [Idle EXCEPT !.pc = "lock", !.cmd = c] \in Runs
    BY IdleTyped
  <2> HIDE DEF Runs
  <2> QED BY <1>24, <2>1 DEF Start
<1>25. CASE Edit
  BY <1>25 DEF Edit
<1>26. CASE UNCHANGED vars
  BY <1>26 DEF vars
<1> QED BY <1>1, <1>2, <1>3, <1>4, <1>5, <1>6, <1>7, <1>8, <1>9, <1>10, <1>11, <1>12, <1>13, <1>14,
           <1>15, <1>16, <1>17, <1>18, <1>19, <1>20, <1>21, <1>22, <1>23, <1>24, <1>25, <1>26 DEF
           Next, Step

(* ... of the controls, ...                                                 *)
LEMMA ControlTyped ==
    ASSUME Bounds, TypeOK, [Next]_vars
    PROVE  control' \in [Procs -> Controls]
<1> USE DEF TypeOK, Controls, At, Goto
<1>1. ASSUME NEW p \in Procs, Enter(p) PROVE control' \in [Procs -> Controls]
  BY <1>1 DEF Enter
<1>2. ASSUME NEW p \in Procs, Recover(p) PROVE control' \in [Procs -> Controls]
  <2>1. CASE journal # NoJournal
    <3>1. [step |-> "look", own |-> FALSE, job |-> journal] \in Controls
      OBVIOUS
    <3> QED BY <1>2, <2>1, <3>1 DEF Recover
  <2> QED BY <1>2, <2>1 DEF Recover
<1>3. ASSUME NEW p \in Procs, Recovered(p) PROVE control' \in [Procs -> Controls]
  BY <1>3, IdleTyped DEF Recovered, Finish
<1>4. ASSUME NEW p \in Procs, Look(p) PROVE control' \in [Procs -> Controls]
  BY <1>4 DEF Look
<1>5. ASSUME NEW p \in Procs, Put(p) PROVE control' \in [Procs -> Controls]
  BY <1>5 DEF Put
<1>6. ASSUME NEW p \in Procs, Remove(p) PROVE control' \in [Procs -> Controls]
  BY <1>6 DEF Remove
<1>7. ASSUME NEW p \in Procs, Prepare(p) PROVE control' \in [Procs -> Controls]
  BY <1>7, IdleTyped DEF Prepare, Finish
<1>8. ASSUME NEW p \in Procs, WriteJournal(p) PROVE control' \in [Procs -> Controls]
  <2>1. [orig |-> run[p].seen, mut |-> Neuter(run[p].seen)] \in Journals
    BY DEF Runs, Neuter, Contents, Journals
  <2>2. [step |-> "applied", own |-> TRUE, job |-> [orig |-> run[p].seen, mut |-> Neuter(run[p].seen)]] \in Controls
    BY <2>1
  <2> QED BY <1>8, <2>2 DEF WriteJournal
<1>9. ASSUME NEW p \in Procs, Mutate(p) PROVE control' \in [Procs -> Controls]
  BY <1>9 DEF Mutate
<1>10. ASSUME NEW p \in Procs, MutateFails(p) PROVE control' \in [Procs -> Controls]
  BY <1>10 DEF MutateFails
<1>11. ASSUME NEW p \in Procs, Compile(p) PROVE control' \in [Procs -> Controls]
  BY <1>11 DEF Compile
<1>12. ASSUME NEW p \in Procs, Link(p) PROVE control' \in [Procs -> Controls]
  BY <1>12 DEF Link
<1>13. ASSUME NEW p \in Procs, BuildFails(p) PROVE control' \in [Procs -> Controls]
  BY <1>13, IdleTyped DEF BuildFails, Finish, Continue, AfterBuild
<1>14. ASSUME NEW p \in Procs, Record(p) PROVE control' \in [Procs -> Controls]
  BY <1>14, IdleTyped DEF Record, Finish, Continue, AfterBuild
<1>15. ASSUME NEW p \in Procs, Gate(p) PROVE control' \in [Procs -> Controls]
  BY <1>15, IdleTyped DEF Gate, Finish
<1>16. ASSUME NEW p \in Procs, Snapshot(p) PROVE control' \in [Procs -> Controls]
  BY <1>16, IdleTyped DEF Snapshot, Finish
<1>17. ASSUME NEW p \in Procs, Dispatch(p) PROVE control' \in [Procs -> Controls]
  BY <1>17, IdleTyped DEF Dispatch, Finish
<1>18. ASSUME NEW p \in Procs, Verify(p) PROVE control' \in [Procs -> Controls]
  BY <1>18, IdleTyped DEF Verify, Finish
<1>19. ASSUME NEW p \in Procs, BeginRestore(p) PROVE control' \in [Procs -> Controls]
  BY <1>19 DEF BeginRestore
<1>20. ASSUME NEW p \in Procs, Restored(p) PROVE control' \in [Procs -> Controls]
  BY <1>20, IdleTyped DEF Restored, Finish
<1>21. ASSUME NEW p \in Procs, Exit(p) PROVE control' \in [Procs -> Controls]
  BY <1>21, IdleTyped DEF Exit, Finish
<1>22. ASSUME NEW p \in Procs, Signal(p) PROVE control' \in [Procs -> Controls]
  BY <1>22 DEF Signal
<1>23. ASSUME NEW p \in Procs, Kill(p) PROVE control' \in [Procs -> Controls]
  BY <1>23, IdleTyped DEF Kill, Finish
<1>24. ASSUME NEW p \in Procs, NEW c \in Commands, Start(p, c)
       PROVE control' \in [Procs -> Controls]
  BY <1>24 DEF Start
<1>25. CASE Edit
  BY <1>25 DEF Edit
<1>26. CASE UNCHANGED vars
  BY <1>26 DEF vars
<1> QED BY <1>1, <1>2, <1>3, <1>4, <1>5, <1>6, <1>7, <1>8, <1>9, <1>10, <1>11, <1>12, <1>13, <1>14,
           <1>15, <1>16, <1>17, <1>18, <1>19, <1>20, <1>21, <1>22, <1>23, <1>24, <1>25, <1>26 DEF
           Next, Step

(* ... and of all the rest.                                                 *)
RestA ==
    /\ file \in Contents
    /\ built \in Contents
    /\ obj \in Contents
    /\ kind \in {"compiled", "copied", "live"}
    /\ newer \in BOOLEAN
    /\ objOld \in BOOLEAN
    /\ unseen \in BOOLEAN

LEMMA RestTyped ==
    ASSUME Bounds, TypeOK, Controlled, [Next]_vars
    PROVE  RestA'
<1> USE DEF TypeOK, RestA, At, Goto, source, objdir, history, bounds, Finish, Continue, Write,
            Overwrite, AfterBuild
<1>1. ASSUME NEW p \in Procs, Enter(p) PROVE RestA'
  BY <1>1 DEF Enter
<1>2. ASSUME NEW p \in Procs, Recover(p) PROVE RestA'
  BY <1>2 DEF Recover
<1>3. ASSUME NEW p \in Procs, Recovered(p) PROVE RestA'
  BY <1>3 DEF Recovered
<1>4. ASSUME NEW p \in Procs, Look(p) PROVE RestA'
  BY <1>4 DEF Look
<1>5. ASSUME NEW p \in Procs, Put(p) PROVE RestA'
  <2>1. control[p].job.orig \in Contents
    BY <1>5 DEF Put, Controlled, Controls, Journals
  <2>2. newer' \in BOOLEAN /\ objOld' \in BOOLEAN
    BY <1>5 DEF Put
  <2> QED BY <1>5, <2>1, <2>2 DEF Put
<1>6. ASSUME NEW p \in Procs, Remove(p) PROVE RestA'
  BY <1>6 DEF Remove
<1>7. ASSUME NEW p \in Procs, Prepare(p) PROVE RestA'
  BY <1>7 DEF Prepare
<1>8. ASSUME NEW p \in Procs, WriteJournal(p) PROVE RestA'
  BY <1>8 DEF WriteJournal
<1>9. ASSUME NEW p \in Procs, Mutate(p) PROVE RestA'
  <2>1. Neuter(run[p].seen) \in Contents
    BY NeuterTyped DEF Runs
  <2>2. newer' \in BOOLEAN /\ objOld' \in BOOLEAN
    BY <1>9 DEF Mutate
  <2> QED BY <1>9, <2>1, <2>2 DEF Mutate
<1>10. ASSUME NEW p \in Procs, MutateFails(p) PROVE RestA'
  BY <1>10 DEF MutateFails
<1>11. ASSUME NEW p \in Procs, Compile(p) PROVE RestA'
  BY <1>11 DEF Compile
<1>12. ASSUME NEW p \in Procs, Link(p) PROVE RestA'
  BY <1>12 DEF Link
<1>13. ASSUME NEW p \in Procs, BuildFails(p) PROVE RestA'
  BY <1>13 DEF BuildFails
<1>14. ASSUME NEW p \in Procs, Record(p) PROVE RestA'
  BY <1>14 DEF Record
<1>15. ASSUME NEW p \in Procs, Gate(p) PROVE RestA'
  BY <1>15 DEF Gate
<1>16. ASSUME NEW p \in Procs, Snapshot(p) PROVE RestA'
  BY <1>16 DEF Snapshot
<1>17. ASSUME NEW p \in Procs, Dispatch(p) PROVE RestA'
  BY <1>17 DEF Dispatch
<1>18. ASSUME NEW p \in Procs, Verify(p) PROVE RestA'
  BY <1>18 DEF Verify
<1>19. ASSUME NEW p \in Procs, BeginRestore(p) PROVE RestA'
  BY <1>19 DEF BeginRestore
<1>20. ASSUME NEW p \in Procs, Restored(p) PROVE RestA'
  BY <1>20 DEF Restored
<1>21. ASSUME NEW p \in Procs, Exit(p) PROVE RestA'
  BY <1>21 DEF Exit
<1>22. ASSUME NEW p \in Procs, Signal(p) PROVE RestA'
  BY <1>22 DEF Signal
<1>23. ASSUME NEW p \in Procs, Kill(p) PROVE RestA'
  BY <1>23 DEF Kill
<1>24. ASSUME NEW p \in Procs, NEW c \in Commands, Start(p, c) PROVE RestA'
  BY <1>24 DEF Start
<1>25. CASE Edit
  <2>1. [file EXCEPT !.v = edits + 2] \in Contents /\ Clean \in Contents
    BY <1>25 DEF Edit, Contents, Bounds, Clean
  <2>2. newer' \in BOOLEAN /\ objOld' \in BOOLEAN /\ unseen' \in BOOLEAN
    BY <1>25 DEF Edit
  <2> QED BY <1>25, <2>1, <2>2 DEF Edit
<1>26. CASE UNCHANGED vars
  BY <1>26 DEF vars
<1> QED BY <1>1, <1>2, <1>3, <1>4, <1>5, <1>6, <1>7, <1>8, <1>9, <1>10, <1>11, <1>12, <1>13, <1>14,
           <1>15, <1>16, <1>17, <1>18, <1>19, <1>20, <1>21, <1>22, <1>23, <1>24, <1>25, <1>26 DEF
           Next, Step

RestB ==
    /\ baseline \in Baselines
    /\ journal \in Journals
    /\ lock \in [excl : Procs \cup {Nobody}, sharers : SUBSET Procs]
    /\ verdict \in [there : BOOLEAN, tested : Contents, about : Contents, ctl : BOOLEAN, based : BOOLEAN]

LEMMA RestTypedB ==
    ASSUME Bounds, TypeOK, [Next]_vars
    PROVE  RestB'
<1> USE DEF TypeOK, RestB, At, Goto, source, objdir, history, bounds, Finish, Continue, Write,
            Overwrite, AfterBuild
<1>1. ASSUME NEW p \in Procs, Enter(p) PROVE RestB'
  BY <1>1 DEF Enter
<1>2. ASSUME NEW p \in Procs, Recover(p) PROVE RestB'
  BY <1>2 DEF Recover
<1>3. ASSUME NEW p \in Procs, Recovered(p) PROVE RestB'
  BY <1>3 DEF Recovered
<1>4. ASSUME NEW p \in Procs, Look(p) PROVE RestB'
  BY <1>4 DEF Look
<1>5. ASSUME NEW p \in Procs, Put(p) PROVE RestB'
  BY <1>5 DEF Put
<1>6. ASSUME NEW p \in Procs, Remove(p) PROVE RestB'
  BY <1>6, IdleTyped DEF Remove
<1>7. ASSUME NEW p \in Procs, Prepare(p) PROVE RestB'
  BY <1>7 DEF Prepare
<1>8. ASSUME NEW p \in Procs, WriteJournal(p) PROVE RestB'
  <2>1. [orig |-> run[p].seen, mut |-> Neuter(run[p].seen)] \in Journals
    BY NeuterTyped DEF Runs, Journals
  <2> QED BY <1>8, <2>1 DEF WriteJournal
<1>9. ASSUME NEW p \in Procs, Mutate(p) PROVE RestB'
  BY <1>9 DEF Mutate
<1>10. ASSUME NEW p \in Procs, MutateFails(p) PROVE RestB'
  BY <1>10 DEF MutateFails
<1>11. ASSUME NEW p \in Procs, Compile(p) PROVE RestB'
  BY <1>11 DEF Compile
<1>12. ASSUME NEW p \in Procs, Link(p) PROVE RestB'
  BY <1>12 DEF Link
<1>13. ASSUME NEW p \in Procs, BuildFails(p) PROVE RestB'
  BY <1>13 DEF BuildFails
<1>14. ASSUME NEW p \in Procs, Record(p) PROVE RestB'
  <2>1. Fingerprint(file) \in Contents \cup {NoPrint} /\ Stamp(p) \in Procs \cup {Nobody}
    BY DEF Fingerprint, Stamp, Baselines
  <2>2. [there |-> TRUE, fp |-> Fingerprint(file), stamp |-> Stamp(p)] \in Baselines
    BY <2>1 DEF Baselines
  <2>3. baseline' \in Baselines /\ UNCHANGED <<journal, verdict>>
    BY <1>14, <2>2 DEF Record
  <2>4. lock' = lock \/ Finish(p)
    BY <1>14 DEF Record
  <2> QED BY <2>3, <2>4
<1>15. ASSUME NEW p \in Procs, Gate(p) PROVE RestB'
  BY <1>15 DEF Gate
<1>16. ASSUME NEW p \in Procs, Snapshot(p) PROVE RestB'
  BY <1>16 DEF Snapshot
<1>17. ASSUME NEW p \in Procs, Dispatch(p) PROVE RestB'
  BY <1>17 DEF Dispatch
<1>18. ASSUME NEW p \in Procs, Verify(p) PROVE RestB'
  <2> DEFINE ctl == run[p].cmd = "control"
  <2>1. ctl \in BOOLEAN
    OBVIOUS
  <2>2. verdict' \in {verdict, [there |-> TRUE, tested |-> run[p].tested, about |-> run[p].about,
                              ctl |-> ctl, based |-> run[p].based]}
    BY <1>18 DEF Verify
  <2> HIDE DEF ctl
  <2>3. [there |-> TRUE, tested |-> run[p].tested, about |-> run[p].about, ctl |-> ctl,
         based |-> run[p].based]
          \in [there : BOOLEAN, tested : Contents, about : Contents, ctl : BOOLEAN, based : BOOLEAN]
    BY <2>1 DEF Runs
  <2> QED BY <1>18, <2>2, <2>3 DEF Verify
<1>19. ASSUME NEW p \in Procs, BeginRestore(p) PROVE RestB'
  BY <1>19 DEF BeginRestore
<1>20. ASSUME NEW p \in Procs, Restored(p) PROVE RestB'
  BY <1>20 DEF Restored
<1>21. ASSUME NEW p \in Procs, Exit(p) PROVE RestB'
  BY <1>21 DEF Exit
<1>22. ASSUME NEW p \in Procs, Signal(p) PROVE RestB'
  BY <1>22 DEF Signal
<1>23. ASSUME NEW p \in Procs, Kill(p) PROVE RestB'
  BY <1>23 DEF Kill
<1>24. ASSUME NEW p \in Procs, NEW c \in Commands, Start(p, c) PROVE RestB'
  BY <1>24 DEF Start
<1>25. CASE Edit
  BY <1>25 DEF Edit
<1>26. CASE UNCHANGED vars
  BY <1>26 DEF vars
<1> QED BY <1>1, <1>2, <1>3, <1>4, <1>5, <1>6, <1>7, <1>8, <1>9, <1>10, <1>11, <1>12, <1>13, <1>14,
           <1>15, <1>16, <1>17, <1>18, <1>19, <1>20, <1>21, <1>22, <1>23, <1>24, <1>25, <1>26 DEF
           Next, Step

RestC ==
    /\ lost \subseteq 0..(MaxEdits + 1)
    /\ windowed \subseteq 0..(MaxEdits + 1)
    /\ edits \in 0..MaxEdits
    /\ commands \in 0..MaxCommands
    /\ kills \in 0..MaxKills

LEMMA RestTypedC ==
    ASSUME Bounds, TypeOK, [Next]_vars
    PROVE  RestC'
<1> USE DEF TypeOK, RestC, Bounds, Contents, At, Goto, source, objdir, history, bounds, Finish,
            Continue, Write, Overwrite
<1>1. ASSUME NEW p \in Procs, Enter(p) PROVE RestC'
  BY <1>1 DEF Enter
<1>2. ASSUME NEW p \in Procs, Recover(p) PROVE RestC'
  BY <1>2 DEF Recover
<1>3. ASSUME NEW p \in Procs, Recovered(p) PROVE RestC'
  BY <1>3 DEF Recovered
<1>4. ASSUME NEW p \in Procs, Look(p) PROVE RestC'
  BY <1>4 DEF Look
<1>5. ASSUME NEW p \in Procs, Put(p) PROVE RestC'
  BY <1>5 DEF Put
<1>6. ASSUME NEW p \in Procs, Remove(p) PROVE RestC'
  BY <1>6 DEF Remove
<1>7. ASSUME NEW p \in Procs, Prepare(p) PROVE RestC'
  BY <1>7 DEF Prepare
<1>8. ASSUME NEW p \in Procs, WriteJournal(p) PROVE RestC'
  BY <1>8 DEF WriteJournal
<1>9. ASSUME NEW p \in Procs, Mutate(p) PROVE RestC'
  BY <1>9 DEF Mutate
<1>10. ASSUME NEW p \in Procs, MutateFails(p) PROVE RestC'
  BY <1>10 DEF MutateFails
<1>11. ASSUME NEW p \in Procs, Compile(p) PROVE RestC'
  BY <1>11 DEF Compile
<1>12. ASSUME NEW p \in Procs, Link(p) PROVE RestC'
  BY <1>12 DEF Link
<1>13. ASSUME NEW p \in Procs, BuildFails(p) PROVE RestC'
  BY <1>13 DEF BuildFails
<1>14. ASSUME NEW p \in Procs, Record(p) PROVE RestC'
  BY <1>14 DEF Record
<1>15. ASSUME NEW p \in Procs, Gate(p) PROVE RestC'
  BY <1>15 DEF Gate
<1>16. ASSUME NEW p \in Procs, Snapshot(p) PROVE RestC'
  BY <1>16 DEF Snapshot
<1>17. ASSUME NEW p \in Procs, Dispatch(p) PROVE RestC'
  BY <1>17 DEF Dispatch
<1>18. ASSUME NEW p \in Procs, Verify(p) PROVE RestC'
  BY <1>18 DEF Verify
<1>19. ASSUME NEW p \in Procs, BeginRestore(p) PROVE RestC'
  BY <1>19 DEF BeginRestore
<1>20. ASSUME NEW p \in Procs, Restored(p) PROVE RestC'
  BY <1>20 DEF Restored
<1>21. ASSUME NEW p \in Procs, Exit(p) PROVE RestC'
  BY <1>21 DEF Exit
<1>22. ASSUME NEW p \in Procs, Signal(p) PROVE RestC'
  BY <1>22 DEF Signal
<1>23. ASSUME NEW p \in Procs, Kill(p) PROVE RestC'
  BY <1>23 DEF Kill
<1>24. ASSUME NEW p \in Procs, NEW c \in Commands, Start(p, c) PROVE RestC'
  BY <1>24 DEF Start
<1>25. CASE Edit
  <2>1. [file EXCEPT !.v = edits + 2].v \in 0..(MaxEdits + 1) /\ Clean.v = 0
    BY <1>25 DEF Edit, Clean
  <2>2. windowed' \subseteq 0..(MaxEdits + 1)
    BY <1>25, <2>1 DEF Edit
  <2> QED BY <1>25, <2>2 DEF Edit
<1>26. CASE UNCHANGED vars
  BY <1>26 DEF vars
<1> QED BY <1>1, <1>2, <1>3, <1>4, <1>5, <1>6, <1>7, <1>8, <1>9, <1>10, <1>11, <1>12, <1>13, <1>14,
           <1>15, <1>16, <1>17, <1>18, <1>19, <1>20, <1>21, <1>22, <1>23, <1>24, <1>25, <1>26 DEF
           Next, Step

(* The lock is held by those who are past it.                               *)
LEMMA LockedStep ==
    ASSUME Bounds, TypeOK, Locked, [Next]_vars
    PROVE  Locked'
<1> USE DEF Locked, Active, Exclusive, Bounds, Idle, AfterBuild, At, Goto, source, objdir, history,
            bounds, Finish, Continue, Write, Overwrite
<1>0. run \in [Procs -> Runs] /\ lock \in [excl : Procs \cup {Nobody}, sharers : SUBSET Procs]
  BY DEF TypeOK
<1>1. ASSUME NEW p \in Procs, Enter(p) PROVE Locked'
  BY <1>1, <1>0 DEF Enter, Runs
<1>2. ASSUME NEW p \in Procs, Recover(p) PROVE Locked'
  <2>1. /\ At(p, "recover")
        /\ UNCHANGED <<source, objdir, journal, lock, history, bounds>>
    BY <1>2 DEF Recover
  <2>2. CASE journal # NoJournal
    BY <1>2, <1>0, <2>2 DEF Recover, Runs
  <2>3. CASE journal = NoJournal /\ run[p].cmd \in {"test", "shared", "control"}
    <3>1. PICK x \in {"gate", "prepare"} :
             /\ run' = [run EXCEPT ![p].pc = x] /\ UNCHANGED control
             /\ x = "prepare" <=> run[p].cmd = "control" /\ kind = "compiled"
      BY <1>2, <2>3 DEF Recover
    <3> QED BY <1>0, <2>1, <2>3, <3>1 DEF Runs
  <2>4. CASE journal = NoJournal /\ run[p].cmd = "testbuild"
    <3>1. PICK b : /\ run' = [run EXCEPT ![p] = [@ EXCEPT !.pc = "compile", !.full = b]]
                   /\ UNCHANGED control
      BY <1>2, <2>4 DEF Recover
    <3> QED BY <1>0, <2>1, <2>4, <3>1 DEF Runs
  <2> QED BY <1>2, <2>2, <2>3, <2>4 DEF Recover
<1>3. ASSUME NEW p \in Procs, Recovered(p) PROVE Locked'
  BY <1>3, <1>0 DEF Recovered, Runs
<1>4. ASSUME NEW p \in Procs, Look(p) PROVE Locked'
  BY <1>4, <1>0 DEF Look, Runs
<1>5. ASSUME NEW p \in Procs, Put(p) PROVE Locked'
  BY <1>5, <1>0 DEF Put, Runs
<1>6. ASSUME NEW p \in Procs, Remove(p) PROVE Locked'
  BY <1>6, <1>0 DEF Remove, Runs
<1>7. ASSUME NEW p \in Procs, Prepare(p) PROVE Locked'
  <2>1. CASE Finish(p)
    BY <1>7, <1>0, <2>1 DEF Prepare, Runs
  <2>2. CASE ~Finish(p)
    <3>1. PICK x : /\ run' = [run EXCEPT ![p] = [@ EXCEPT !.seen = x, !.pc = "journal"]]
               /\ x = file
      BY <1>7, <2>2 DEF Prepare
    <3>2. At(p, "prepare") /\ ~file.neut
            /\ UNCHANGED <<source, objdir, journal, lock, control, history, bounds>>
      BY <1>7, <2>2 DEF Prepare
    <3> QED BY <1>0, <3>1, <3>2 DEF Runs
  <2> QED BY <2>1, <2>2
<1>8. ASSUME NEW p \in Procs, WriteJournal(p) PROVE Locked'
  BY <1>8, <1>0 DEF WriteJournal, Runs
<1>9. ASSUME NEW p \in Procs, Mutate(p) PROVE Locked'
  BY <1>9, <1>0 DEF Mutate, Runs
<1>10. ASSUME NEW p \in Procs, MutateFails(p) PROVE Locked'
  BY <1>10, <1>0 DEF MutateFails, Runs
<1>11. ASSUME NEW p \in Procs, Compile(p) PROVE Locked'
  BY <1>11, <1>0 DEF Compile, Runs
<1>12. ASSUME NEW p \in Procs, Link(p) PROVE Locked'
  BY <1>12, <1>0 DEF Link, Runs
<1>13. ASSUME NEW p \in Procs, BuildFails(p) PROVE Locked'
  BY <1>13, <1>0 DEF BuildFails, Runs
<1>14. ASSUME NEW p \in Procs, Record(p) PROVE Locked'
  BY <1>14, <1>0 DEF Record, Runs
<1>15. ASSUME NEW p \in Procs, Gate(p) PROVE Locked'
  <2>1. CASE Finish(p)
    BY <1>15, <1>0, <2>1 DEF Gate, Runs
  <2>2. CASE ~Finish(p)
    <3>1. PICK x \in {"prepare", "snapshot"}, b \in {baseline.there}, c \in {file} :
               /\ run' = [run EXCEPT ![p] = [@ EXCEPT !.about = c, !.based = b, !.pc = x]]
               /\ c = file /\ b = baseline.there /\ (x = "prepare" <=> run[p].cmd = "control")
      BY <1>15, <2>2 DEF Gate
    <3>2. At(p, "gate") /\ ~(StalePackage \/ StaleCompiled \/ ControlBuilt)
            /\ UNCHANGED <<source, objdir, journal, lock, control, history, bounds>>
      BY <1>15, <2>2 DEF Gate
    <3> QED BY <1>0, <3>1, <3>2 DEF Runs
  <2> QED BY <2>1, <2>2
<1>16. ASSUME NEW p \in Procs, Snapshot(p) PROVE Locked'
  BY <1>16, <1>0 DEF Snapshot, Runs
<1>17. ASSUME NEW p \in Procs, Dispatch(p) PROVE Locked'
  BY <1>17, <1>0 DEF Dispatch, Runs
<1>18. ASSUME NEW p \in Procs, Verify(p) PROVE Locked'
  BY <1>18, <1>0 DEF Verify, Runs
<1>19. ASSUME NEW p \in Procs, BeginRestore(p) PROVE Locked'
  BY <1>19, <1>0 DEF BeginRestore, Runs
<1>20. ASSUME NEW p \in Procs, Restored(p) PROVE Locked'
  <2>1. CASE Finish(p)
    BY <1>20, <1>0, <2>1 DEF Restored, Runs
  <2>2. CASE ~Finish(p)
    <3>1. PICK x :
              /\ run' = [run EXCEPT ![p] = [@ EXCEPT !.pc = x, !.full = TRUE, !.again = TRUE]]
              /\ x = "compile"
      BY <1>20, <2>2 DEF Restored
    <3>2. At(p, "restore") /\ control[p].step = "done" /\ ~run[p].sig /\ baseline.stamp = p
            /\ UNCHANGED <<source, objdir, journal, lock, control, history, bounds>>
      BY <1>20, <2>2 DEF Restored
    <3> QED BY <1>0, <3>1, <3>2 DEF Runs
  <2> QED BY <2>1, <2>2
<1>21. ASSUME NEW p \in Procs, Exit(p) PROVE Locked'
  BY <1>21, <1>0 DEF Exit, Runs
<1>22. ASSUME NEW p \in Procs, Signal(p) PROVE Locked'
  BY <1>22, <1>0 DEF Signal, Runs
<1>23. ASSUME NEW p \in Procs, Kill(p) PROVE Locked'
  BY <1>23, <1>0 DEF Kill, Runs
<1>24. ASSUME NEW p \in Procs, NEW c \in Commands, Start(p, c) PROVE Locked'
  BY <1>24, <1>0 DEF Start, Runs
<1>25. CASE Edit
  BY <1>25 DEF Edit
<1>26. CASE UNCHANGED vars
  BY <1>26 DEF vars
<1> QED BY <1>1, <1>2, <1>3, <1>4, <1>5, <1>6, <1>7, <1>8, <1>9, <1>10, <1>11, <1>12, <1>13, <1>14,
           <1>15, <1>16, <1>17, <1>18, <1>19, <1>20, <1>21, <1>22, <1>23, <1>24, <1>25, <1>26 DEF
           Next, Step

(* Each command keeps to its own steps.                                     *)
LEMMA RoutedStep ==
    ASSUME Bounds, TypeOK, Routed, Locked, Controlled, [Next]_vars
    PROVE  Routed'
<1> USE DEF Routed, ControlBuilt, Active, Making, Idle, At, Goto, source, objdir, history, bounds,
            Finish, Write, Overwrite
<1>0. run \in [Procs -> Runs] /\ Controlled
  BY DEF TypeOK
<1>1. ASSUME NEW p \in Procs, Enter(p) PROVE Routed'
  <2>1. PICK x \in {"compile", "recover"}, b \in BOOLEAN :
             /\ run' = [run EXCEPT ![p] = [@ EXCEPT !.pc = x, !.full = b]]
             /\ (x = "compile" <=> run[p].cmd \in {"build", "ui"}) /\ (b <=> run[p].cmd = "build")
    BY <1>1 DEF Enter
  <2>2. At(p, "lock") /\ UNCHANGED <<source, objdir, journal, control, history, bounds>>
    BY <1>1 DEF Enter
  <2> QED BY <1>0, <2>1, <2>2 DEF Runs
<1>2. ASSUME NEW p \in Procs, Recover(p) PROVE Routed'
  <2>1. /\ At(p, "recover")
        /\ UNCHANGED <<source, objdir, journal, lock, history, bounds>>
    BY <1>2 DEF Recover
  <2>2. CASE journal # NoJournal
    BY <1>2, <1>0, <2>2 DEF Recover, Runs
  <2>3. CASE journal = NoJournal /\ run[p].cmd \in {"test", "shared", "control"}
    <3>1. PICK x \in {"gate", "prepare"} :
             /\ run' = [run EXCEPT ![p].pc = x] /\ UNCHANGED control
             /\ x = "prepare" <=> run[p].cmd = "control" /\ kind = "compiled"
      BY <1>2, <2>3 DEF Recover
    <3> QED BY <1>0, <2>1, <2>3, <3>1 DEF Runs
  <2>4. CASE journal = NoJournal /\ run[p].cmd = "testbuild"
    <3>1. PICK b : /\ run' = [run EXCEPT ![p] = [@ EXCEPT !.pc = "compile", !.full = b]]
                   /\ UNCHANGED control
      BY <1>2, <2>4 DEF Recover
    <3> QED BY <1>0, <2>1, <2>4, <3>1 DEF Runs
  <2> QED BY <1>2, <2>2, <2>3, <2>4 DEF Recover
<1>3. ASSUME NEW p \in Procs, Recovered(p) PROVE Routed'
  BY <1>3, <1>0 DEF Recovered, Runs
<1>4. ASSUME NEW p \in Procs, Look(p) PROVE Routed'
  BY <1>4, <1>0 DEF Look, Runs
<1>5. ASSUME NEW p \in Procs, Put(p) PROVE Routed'
  BY <1>5, <1>0 DEF Put, Runs
<1>6. ASSUME NEW p \in Procs, Remove(p) PROVE Routed'
  BY <1>6, <1>0 DEF Remove, Runs
<1>7. ASSUME NEW p \in Procs, Prepare(p) PROVE Routed'
  <2>1. CASE Finish(p)
    BY <1>7, <1>0, <2>1 DEF Prepare, Runs
  <2>2. CASE ~Finish(p)
    <3>1. PICK x : /\ run' = [run EXCEPT ![p] = [@ EXCEPT !.seen = x, !.pc = "journal"]]
               /\ x = file
      BY <1>7, <2>2 DEF Prepare
    <3>2. At(p, "prepare") /\ ~file.neut
            /\ UNCHANGED <<source, objdir, journal, lock, control, history, bounds>>
      BY <1>7, <2>2 DEF Prepare
    <3> QED BY <1>0, <3>1, <3>2 DEF Runs
  <2> QED BY <2>1, <2>2
<1>8. ASSUME NEW p \in Procs, WriteJournal(p) PROVE Routed'
  BY <1>8, <1>0 DEF WriteJournal, Runs
<1>9. ASSUME NEW p \in Procs, Mutate(p) PROVE Routed'
  <2>1. PICK x \in {"compile", "snapshot"}, b \in BOOLEAN :
             /\ run' = [run EXCEPT ![p] = [@ EXCEPT !.pc = x, !.full = b]]
             /\ (x = "compile" <=> kind = "compiled") /\ (b <=> kind = "compiled")
    BY <1>9 DEF Mutate
  <2>2. At(p, "mutate")
          /\ UNCHANGED <<objdir, journal, lock, control, verdict, windowed, unseen, bounds>>
    BY <1>9 DEF Mutate
  <2> QED BY <1>0, <2>1, <2>2 DEF Runs
<1>10. ASSUME NEW p \in Procs, MutateFails(p) PROVE Routed'
  BY <1>10, <1>0 DEF MutateFails, Runs
<1>11. ASSUME NEW p \in Procs, Compile(p) PROVE Routed'
  BY <1>11, <1>0 DEF Compile, Runs
<1>12. ASSUME NEW p \in Procs, Link(p) PROVE Routed'
  BY <1>12, <1>0 DEF Link, Runs
<1>13. ASSUME NEW p \in Procs, BuildFails(p) PROVE Routed'
  <2>0. kind' = kind
    BY <1>13 DEF BuildFails
  <2>1. CASE Finish(p)
    BY <1>13, <1>0, <2>0, <2>1 DEF BuildFails, Runs
  <2>2. CASE First(p) /\ Goto(p, "restore") /\ UNCHANGED <<lock, control>>
    BY <1>13, <1>0, <2>0, <2>2 DEF BuildFails, First, Runs
  <2> QED BY <1>13, <2>1, <2>2, Continued DEF BuildFails
<1>14. ASSUME NEW p \in Procs, Record(p) PROVE Routed'
  <2>3. kind' = kind /\ (ControlBuilt' => kind = "compiled")
    BY <1>14, <1>0 DEF Record, Stamp, Runs, Commands
  <2>0. kind' = kind
    BY <1>14 DEF Record
  <2>1. CASE Finish(p)
    BY <1>14, <1>0, <2>3, <2>0, <2>1 DEF Record, Runs
  <2>2. CASE run[p].cmd \notin {"build", "ui"} /\ ~run[p].again /\ Goto(p, "snapshot")
               /\ UNCHANGED <<lock, control>>
    BY <1>14, <1>0, <2>3, <2>0, <2>2 DEF Record, First, Runs
  <2> QED BY <1>14, <2>1, <2>2, Continued DEF Record
<1>15. ASSUME NEW p \in Procs, Gate(p) PROVE Routed'
  <2>1. CASE Finish(p)
    BY <1>15, <1>0, <2>1 DEF Gate, Runs
  <2>2. CASE ~Finish(p)
    <3>1. PICK x \in {"prepare", "snapshot"}, b \in {baseline.there}, c \in {file} :
               /\ run' = [run EXCEPT ![p] = [@ EXCEPT !.about = c, !.based = b, !.pc = x]]
               /\ c = file /\ b = baseline.there /\ (x = "prepare" <=> run[p].cmd = "control")
      BY <1>15, <2>2 DEF Gate
    <3>2. At(p, "gate") /\ ~(StalePackage \/ StaleCompiled \/ ControlBuilt)
            /\ UNCHANGED <<source, objdir, journal, lock, control, history, bounds>>
      BY <1>15, <2>2 DEF Gate
    <3> QED BY <1>0, <3>1, <3>2 DEF Runs
  <2> QED BY <2>1, <2>2
<1>16. ASSUME NEW p \in Procs, Snapshot(p) PROVE Routed'
  BY <1>16, <1>0 DEF Snapshot, Runs
<1>17. ASSUME NEW p \in Procs, Dispatch(p) PROVE Routed'
  BY <1>17, <1>0 DEF Dispatch, Runs
<1>18. ASSUME NEW p \in Procs, Verify(p) PROVE Routed'
  BY <1>18, <1>0 DEF Verify, Runs
<1>19. ASSUME NEW p \in Procs, BeginRestore(p) PROVE Routed'
  BY <1>19, <1>0 DEF BeginRestore, Runs
<1>20. ASSUME NEW p \in Procs, Restored(p) PROVE Routed'
  <2>1. CASE Finish(p)
    BY <1>20, <1>0, <2>1 DEF Restored, Runs, Bounds
  <2>2. CASE ~Finish(p)
    <3>1. PICK x :
              /\ run' = [run EXCEPT ![p] = [@ EXCEPT !.pc = x, !.full = TRUE, !.again = TRUE]]
              /\ x = "compile"
      BY <1>20, <2>2 DEF Restored
    <3>2. At(p, "restore") /\ control[p].step = "done" /\ ~run[p].sig /\ baseline.stamp = p
            /\ UNCHANGED <<source, objdir, journal, lock, control, history, bounds>>
      BY <1>20, <2>2 DEF Restored
    <3> QED BY <1>0, <3>1, <3>2 DEF Runs, Bounds
  <2> QED BY <2>1, <2>2
<1>21. ASSUME NEW p \in Procs, Exit(p) PROVE Routed'
  BY <1>21, <1>0 DEF Exit, Runs
<1>22. ASSUME NEW p \in Procs, Signal(p) PROVE Routed'
  BY <1>22, <1>0 DEF Signal, Runs
<1>23. ASSUME NEW p \in Procs, Kill(p) PROVE Routed'
  BY <1>23, <1>0 DEF Kill, Runs
<1>24. ASSUME NEW p \in Procs, NEW c \in Commands, Start(p, c) PROVE Routed'
  BY <1>24, <1>0 DEF Start, Runs
<1>25. CASE Edit
  BY <1>25 DEF Edit
<1>26. CASE UNCHANGED vars
  BY <1>26 DEF vars
<1> QED BY <1>1, <1>2, <1>3, <1>4, <1>5, <1>6, <1>7, <1>8, <1>9, <1>10, <1>11, <1>12, <1>13, <1>14,
           <1>15, <1>16, <1>17, <1>18, <1>19, <1>20, <1>21, <1>22, <1>23, <1>24, <1>25, <1>26 DEF
           Next, Step

(* A control is its owner's, and what is on disk is what its step says.     *)
LEMMA ControlledStep ==
    ASSUME Bounds, TypeOK, Locked, Routed, Controlled, Journaled, [Next]_vars
    PROVE  Controlled'
<1> USE DEF Controlled, Active, Exclusive, Making, First, Idle, NoControl, At, Goto, source,
            objdir, history, bounds, Finish, Write, Overwrite
<1>0. run \in [Procs -> Runs] /\ control \in [Procs -> Controls]
  BY DEF TypeOK
<1>a. \A p \in Procs : Active(p) /\ Exclusive(p) => \A q \in Procs : q # p => ~Active(q)
  BY Alone
<1>b. \A q \in Procs : ~Active(q) => control[q].step = "none" /\ ~control[q].own
  BY <1>0 DEF Controlled, Active, Controls, Routed
<1>1. ASSUME NEW p \in Procs, Enter(p) PROVE Controlled'
  BY <1>1, <1>0, <1>a, <1>b DEF Enter, Runs, Controls
<1>2. ASSUME NEW p \in Procs, Recover(p) PROVE Controlled'
  <2>0. ~run[p].again /\ control[p].step = "none" /\ ~control[p].own
    BY <1>2, <1>0 DEF Recover, Routed, Controls
  <2>1. CASE journal = NoJournal
    <3>1. CASE run[p].cmd \in {"test", "shared", "control"}
      <4>1. PICK x \in {"gate", "prepare"} : run' = [run EXCEPT ![p].pc = x]
        BY <1>2, <2>1, <3>1, <1>0, <1>a, <1>b DEF Recover, Runs, Controls
      <4>2. control' = control /\ journal' = journal /\ file' = file
        BY <1>2, <2>1, <3>1, <1>0, <1>a, <1>b DEF Recover, Runs, Controls
      <4> QED BY <1>0, <2>0, <2>1, <3>1, <4>1, <4>2 DEF Runs, Controls
    <3>2. CASE run[p].cmd = "testbuild"
      <4>1. PICK b : run' = [run EXCEPT ![p] = [@ EXCEPT !.pc = "compile", !.full = b]]
        BY <1>2, <2>1, <3>2, <1>0, <1>a, <1>b DEF Recover, Runs, Controls
      <4>2. control' = control /\ journal' = journal /\ file' = file
        BY <1>2, <2>1, <3>2, <1>0, <1>a, <1>b DEF Recover, Runs, Controls
      <4> QED BY <1>0, <2>0, <2>1, <3>2, <4>1, <4>2 DEF Runs, Controls
    <3> QED BY <1>2, <2>1, <3>1, <3>2, <1>0, <1>a, <1>b DEF Recover, Runs, Controls
  <2>2. CASE journal # NoJournal
    <3>1. ~journal.orig.neut /\ journal.mut = Neuter(journal.orig)
      BY <2>2 DEF Journaled
    <3> QED BY <1>2, <1>0, <2>2, <3>1 DEF Recover, Runs, Controls
  <2> QED BY <2>1, <2>2
<1>3. ASSUME NEW p \in Procs, Recovered(p) PROVE Controlled'
  <2>0. ~run[p].again
    BY <1>3 DEF Recovered, Routed
  <2>1. CASE control[p].step = "done"
    BY <1>3, <1>0, <2>0, <2>1 DEF Recovered, Runs, Controls
  <2>2. CASE control[p].step = "failed"
    BY <1>3, <1>0, <2>2 DEF Recovered, Runs, Controls
  <2> QED BY <1>3, <2>1, <2>2, <1>0, <1>a, <1>b DEF Recovered, Runs, Controls
<1>4. ASSUME NEW p \in Procs, Look(p) PROVE Controlled'
  BY <1>4, <1>0, <1>a, <1>b DEF Look, Runs, Controls
<1>5. ASSUME NEW p \in Procs, Put(p) PROVE Controlled'
  BY <1>5, <1>0, <1>a, <1>b DEF Put, Runs, Controls
<1>6. ASSUME NEW p \in Procs, Remove(p) PROVE Controlled'
  BY <1>6, <1>0, <1>a, <1>b DEF Remove, Runs, Controls
<1>7. ASSUME NEW p \in Procs, Prepare(p) PROVE Controlled'
  <2>1. CASE Finish(p)
    BY <1>7, <1>0, <1>a, <1>b, <2>1 DEF Prepare, Runs
  <2>2. CASE ~Finish(p)
    <3>1. PICK x : /\ run' = [run EXCEPT ![p] = [@ EXCEPT !.seen = x, !.pc = "journal"]]
               /\ x = file
      BY <1>7, <2>2 DEF Prepare
    <3>2. At(p, "prepare") /\ ~file.neut
            /\ UNCHANGED <<source, objdir, journal, lock, control, history, bounds>>
      BY <1>7, <2>2 DEF Prepare
    <3> QED BY <1>0, <1>a, <1>b, <3>1, <3>2 DEF Runs
  <2> QED BY <2>1, <2>2
<1>8. ASSUME NEW p \in Procs, WriteJournal(p) PROVE Controlled'
  <2>1. ~Neuter(run[p].seen).neut = FALSE /\ run[p].seen \in Contents
    BY <1>0, NeuterTyped DEF Runs
  <2> DEFINE j == [orig |-> run[p].seen, mut |-> Neuter(run[p].seen)]
  <2>2. /\ journal' = j /\ run' = [run EXCEPT ![p].pc = "mutate"] /\ file' = file
        /\ control' = [control EXCEPT ![p] = [step |-> "applied", own |-> TRUE, job |-> j]]
        /\ At(p, "journal") /\ run[p].cmd = "control" /\ ~run[p].seen.neut /\ ~run[p].again
    BY <1>8, <1>0 DEF WriteJournal, Journaled, Routed
  <2>3. j.orig = run[p].seen /\ j.mut = Neuter(run[p].seen) /\ j # NoJournal
    BY Distinct, <2>1, NeuterTyped
  <2> HIDE DEF j
  <2>4. \A q \in Procs : q # p => control[q].step = "none" /\ ~control[q].own /\ ~Active(q)
    BY <2>2, <1>a, <1>b
  <2> QED BY <1>8, <1>0, <2>2, <2>3, <2>4 DEF Runs, Controls
<1>9. ASSUME NEW p \in Procs, Mutate(p) PROVE Controlled'
  BY <1>9, <1>0, <1>a, <1>b DEF Mutate, Runs, Controls
<1>10. ASSUME NEW p \in Procs, MutateFails(p) PROVE Controlled'
  BY <1>10, <1>0, <1>a, <1>b DEF MutateFails, Runs, Controls
<1>11. ASSUME NEW p \in Procs, Compile(p) PROVE Controlled'
  BY <1>11, <1>0, <1>a, <1>b DEF Compile, Runs, Controls
<1>12. ASSUME NEW p \in Procs, Link(p) PROVE Controlled'
  BY <1>12, <1>0, <1>a, <1>b DEF Link, Runs, Controls
<1>13. ASSUME NEW p \in Procs, BuildFails(p) PROVE Controlled'
  <2>1. CASE Finish(p)
    BY <1>13, <1>0, <1>a, <1>b, <2>1 DEF BuildFails, Runs, Controls
  <2>2. CASE First(p) /\ Goto(p, "restore") /\ UNCHANGED <<lock, control>>
    BY <1>13, <1>0, <1>a, <1>b, <2>2 DEF BuildFails, First, Runs, Controls
  <2> QED BY <1>13, <2>1, <2>2, Continued, <1>0, <1>a, <1>b DEF BuildFails, Runs, Controls
<1>14. ASSUME NEW p \in Procs, Record(p) PROVE Controlled'
  <2>1. CASE Finish(p)
    BY <1>14, <1>0, <1>a, <1>b, <2>1 DEF Record, Runs, Controls
  <2>2. CASE run[p].cmd \notin {"build", "ui"} /\ ~run[p].again /\ Goto(p, "snapshot")
               /\ UNCHANGED <<lock, control>>
    BY <1>14, <1>0, <1>a, <1>b, <2>2 DEF Record, First, Runs, Controls
  <2> QED BY <1>14, <2>1, <2>2, Continued, <1>0, <1>a, <1>b DEF Record, Runs, Controls
<1>15. ASSUME NEW p \in Procs, Gate(p) PROVE Controlled'
  <2>1. CASE Finish(p)
    BY <1>15, <1>0, <1>a, <1>b, <2>1 DEF Gate, Runs
  <2>2. CASE ~Finish(p)
    <3>1. PICK x \in {"prepare", "snapshot"}, b \in {baseline.there}, c \in {file} :
               /\ run' = [run EXCEPT ![p] = [@ EXCEPT !.about = c, !.based = b, !.pc = x]]
               /\ c = file /\ b = baseline.there /\ (x = "prepare" <=> run[p].cmd = "control")
      BY <1>15, <2>2 DEF Gate
    <3>2. At(p, "gate") /\ ~(StalePackage \/ StaleCompiled \/ ControlBuilt)
            /\ UNCHANGED <<source, objdir, journal, lock, control, history, bounds>>
      BY <1>15, <2>2 DEF Gate
    <3> QED BY <1>0, <1>a, <1>b, <3>1, <3>2 DEF Runs
  <2> QED BY <2>1, <2>2
<1>16. ASSUME NEW p \in Procs, Snapshot(p) PROVE Controlled'
  BY <1>16, <1>0, <1>a, <1>b DEF Snapshot, Runs, Controls
<1>17. ASSUME NEW p \in Procs, Dispatch(p) PROVE Controlled'
  BY <1>17, <1>0, <1>a, <1>b DEF Dispatch, Runs, Controls
<1>18. ASSUME NEW p \in Procs, Verify(p) PROVE Controlled'
  BY <1>18, <1>0, <1>a, <1>b DEF Verify, Runs, Controls
<1>19. ASSUME NEW p \in Procs, BeginRestore(p) PROVE Controlled'
  BY <1>19, <1>0, <1>a, <1>b DEF BeginRestore, Runs, Controls
<1>20. ASSUME NEW p \in Procs, Restored(p) PROVE Controlled'
  <2>1. CASE Finish(p)
    BY <1>20, <1>0, <1>a, <1>b, <2>1 DEF Restored, Runs
  <2>2. CASE ~Finish(p)
    <3>1. PICK x :
              /\ run' = [run EXCEPT ![p] = [@ EXCEPT !.pc = x, !.full = TRUE, !.again = TRUE]]
              /\ x = "compile"
      BY <1>20, <2>2 DEF Restored
    <3>2. At(p, "restore") /\ control[p].step = "done" /\ ~run[p].sig /\ baseline.stamp = p
            /\ UNCHANGED <<source, objdir, journal, lock, control, history, bounds>>
      BY <1>20, <2>2 DEF Restored
    <3> QED BY <1>0, <1>a, <1>b, <3>1, <3>2 DEF Runs
  <2> QED BY <2>1, <2>2
<1>21. ASSUME NEW p \in Procs, Exit(p) PROVE Controlled'
  BY <1>21, <1>0, <1>a, <1>b DEF Exit, Runs, Controls
<1>22. ASSUME NEW p \in Procs, Signal(p) PROVE Controlled'
  BY <1>22, <1>0, <1>a, <1>b DEF Signal, Runs, Controls
<1>23. ASSUME NEW p \in Procs, Kill(p) PROVE Controlled'
  BY <1>23, <1>0, <1>a, <1>b DEF Kill, Runs, Controls
<1>24. ASSUME NEW p \in Procs, NEW c \in Commands, Start(p, c) PROVE Controlled'
  BY <1>24, <1>0, <1>a, <1>b DEF Start, Runs
<1>25. CASE Edit
  <2>1. file'.neut => file.neut
    BY <1>25 DEF Edit, TypeOK, Contents, Clean
  <2> QED BY <1>25, <2>1 DEF Edit
<1>26. CASE UNCHANGED vars
  BY <1>26 DEF vars
<1> QED BY <1>1, <1>2, <1>3, <1>4, <1>5, <1>6, <1>7, <1>8, <1>9, <1>10, <1>11, <1>12, <1>13, <1>14,
           <1>15, <1>16, <1>17, <1>18, <1>19, <1>20, <1>21, <1>22, <1>23, <1>24, <1>25, <1>26 DEF
           Next, Step

(* The journal holds the bytes that a control took away, and nobody tests
   under one.                                                               *)
LEMMA JournaledStep ==
    ASSUME Bounds, TypeOK, Locked, Routed, Controlled, Journaled, [Next]_vars
    PROVE  Journaled'
<1> USE DEF Journaled, BytesKept, Active, Exclusive, First, Idle, NoControl, At, Goto, source,
            objdir, history, bounds, Finish, Write, Overwrite
<1>0. run \in [Procs -> Runs] /\ control \in [Procs -> Controls]
  BY DEF TypeOK
<1>a. \A p \in Procs : Active(p) /\ Exclusive(p) => \A q \in Procs : q # p => ~Active(q)
  BY Alone
<1>b. \A q \in Procs : ~Active(q) => control[q].step = "none" /\ ~control[q].own
  BY <1>0 DEF Controlled, Active, Controls, Routed
<1>c. Controlled /\ Routed
  OBVIOUS
<1>1. ASSUME NEW p \in Procs, Enter(p) PROVE Journaled'
  BY <1>1, <1>0, <1>a, <1>b DEF Enter, Runs, Controls
<1>2. ASSUME NEW p \in Procs, Recover(p) PROVE Journaled'
  <2>1. /\ At(p, "recover")
        /\ UNCHANGED <<source, objdir, journal, lock, history, bounds>>
    BY <1>2, <1>0, <1>a, <1>b DEF Recover, Runs, Controls
  <2>2. CASE journal # NoJournal
    BY <1>2, <1>0, <1>a, <1>b, <2>2 DEF Recover, Runs, Controls
  <2>3. CASE journal = NoJournal /\ run[p].cmd \in {"test", "shared", "control"}
    <3>1. PICK x \in {"gate", "prepare"} :
             /\ run' = [run EXCEPT ![p].pc = x] /\ UNCHANGED control
             /\ x = "prepare" <=> run[p].cmd = "control" /\ kind = "compiled"
      BY <1>2, <2>3, <1>0, <1>a, <1>b DEF Recover, Runs, Controls
    <3> QED BY <1>0, <1>a, <1>b, <2>1, <2>3, <3>1 DEF Runs, Controls
  <2>4. CASE journal = NoJournal /\ run[p].cmd = "testbuild"
    <3>1. PICK b : /\ run' = [run EXCEPT ![p] = [@ EXCEPT !.pc = "compile", !.full = b]]
                   /\ UNCHANGED control
      BY <1>2, <2>4, <1>0, <1>a, <1>b DEF Recover, Runs, Controls
    <3> QED BY <1>0, <1>a, <1>b, <2>1, <2>4, <3>1 DEF Runs, Controls
  <2> QED BY <1>2, <2>2, <2>3, <2>4, <1>0, <1>a, <1>b DEF Recover, Runs, Controls
<1>3. ASSUME NEW p \in Procs, Recovered(p) PROVE Journaled'
  BY <1>3, <1>0, <1>a, <1>b DEF Recovered, Runs, Controls
<1>4. ASSUME NEW p \in Procs, Look(p) PROVE Journaled'
  BY <1>4, <1>0, <1>a, <1>b DEF Look, Runs, Controls
<1>5. ASSUME NEW p \in Procs, Put(p) PROVE Journaled'
  BY <1>5, <1>0, <1>a, <1>b DEF Put, Runs, Controls
<1>6. ASSUME NEW p \in Procs, Remove(p) PROVE Journaled'
  <2>1. ~file.neut /\ Active(p)
    BY <1>6, <1>0, <1>b DEF Remove, Controlled, Controls
  <2>2. \A q \in Procs : ~At(q, "mutate")
    BY <1>6, <1>0, <1>a, <2>1 DEF Remove, Controlled, Routed, Controls
  <2>3. file' = file /\ run' = run /\ journal' = NoJournal
    BY <1>6, <1>0, <1>a, <1>b DEF Remove, Runs, Controls
  <2> QED BY <2>1, <2>2, <2>3
<1>7. ASSUME NEW p \in Procs, Prepare(p) PROVE Journaled'
  <2>1. CASE Finish(p)
    BY <1>7, <1>0, <1>a, <1>b, <2>1 DEF Prepare, Runs
  <2>2. CASE ~Finish(p)
    <3>1. PICK x : /\ run' = [run EXCEPT ![p] = [@ EXCEPT !.seen = x, !.pc = "journal"]]
               /\ x = file
      BY <1>7, <2>2 DEF Prepare
    <3>2. At(p, "prepare") /\ ~file.neut
            /\ UNCHANGED <<source, objdir, journal, lock, control, history, bounds>>
      BY <1>7, <2>2 DEF Prepare
    <3> QED BY <1>0, <1>a, <1>b, <3>1, <3>2 DEF Runs
  <2> QED BY <2>1, <2>2
<1>8. ASSUME NEW p \in Procs, WriteJournal(p) PROVE Journaled'
  <2>1. ~Neuter(run[p].seen).neut = FALSE /\ run[p].seen \in Contents
    BY <1>0, NeuterTyped DEF Runs
  <2> DEFINE j == [orig |-> run[p].seen, mut |-> Neuter(run[p].seen)]
  <2>2. /\ journal' = j /\ run' = [run EXCEPT ![p].pc = "mutate"] /\ file' = file
        /\ control' = [control EXCEPT ![p] = [step |-> "applied", own |-> TRUE, job |-> j]]
        /\ At(p, "journal") /\ run[p].cmd = "control" /\ ~run[p].seen.neut /\ ~run[p].again
    BY <1>8, <1>0 DEF WriteJournal, Journaled, Routed, Making
  <2>3. j.orig = run[p].seen /\ j.mut = Neuter(run[p].seen) /\ j # NoJournal
    BY Distinct, <2>1, NeuterTyped
  <2> HIDE DEF j
  <2>4. \A q \in Procs : q # p => control[q].step = "none" /\ ~control[q].own /\ ~Active(q)
    BY <2>2, <1>a, <1>b
  <2> QED BY <1>8, <1>0, <2>2, <2>3, <2>4 DEF Runs, Controls
<1>9. ASSUME NEW p \in Procs, Mutate(p) PROVE Journaled'
  <2>1. journal # NoJournal /\ ~journal.orig.neut
    BY <1>9 DEF Mutate, Controlled
  <2>2. PICK x \in {"compile", "snapshot"}, b \in BOOLEAN :
             /\ run' = [run EXCEPT ![p] = [@ EXCEPT !.pc = x, !.full = b]]
    BY <1>9, <1>0, <1>a, <1>b DEF Mutate, Runs, Controls
  <2>3. control' = control /\ journal' = journal /\ run[p].cmd = "control"
    BY <1>9 DEF Mutate, Routed
  <2> QED BY <1>0, <2>1, <2>2, <2>3 DEF Runs
<1>10. ASSUME NEW p \in Procs, MutateFails(p) PROVE Journaled'
  BY <1>10, <1>0, <1>a, <1>b DEF MutateFails, Runs, Controls
<1>11. ASSUME NEW p \in Procs, Compile(p) PROVE Journaled'
  BY <1>11, <1>0, <1>a, <1>b DEF Compile, Runs, Controls
<1>12. ASSUME NEW p \in Procs, Link(p) PROVE Journaled'
  BY <1>12, <1>0, <1>a, <1>b DEF Link, Runs, Controls
<1>13. ASSUME NEW p \in Procs, BuildFails(p) PROVE Journaled'
  <2>1. CASE Finish(p)
    BY <1>13, <1>0, <1>a, <1>b, <2>1 DEF BuildFails, Runs, Controls
  <2>2. CASE First(p) /\ Goto(p, "restore") /\ UNCHANGED <<lock, control>>
    BY <1>13, <1>0, <1>a, <1>b, <2>2 DEF BuildFails, First, Runs, Controls
  <2> QED BY <1>13, <2>1, <2>2, Continued, <1>0, <1>a, <1>b DEF BuildFails, Runs, Controls
<1>14. ASSUME NEW p \in Procs, Record(p) PROVE Journaled'
  <2>1. CASE Finish(p)
    BY <1>14, <1>0, <1>a, <1>b, <2>1 DEF Record, Runs, Controls
  <2>2. CASE run[p].cmd \notin {"build", "ui"} /\ ~run[p].again /\ Goto(p, "snapshot")
               /\ UNCHANGED <<lock, control>>
    BY <1>14, <1>0, <1>a, <1>b, <2>2 DEF Record, First, Runs, Controls
  <2> QED BY <1>14, <2>1, <2>2, Continued, <1>0, <1>a, <1>b DEF Record, Runs, Controls
<1>15. ASSUME NEW p \in Procs, Gate(p) PROVE Journaled'
  <2>1. CASE Finish(p)
    BY <1>15, <1>0, <1>a, <1>b, <2>1 DEF Gate, Runs
  <2>2. CASE ~Finish(p)
    <3>1. PICK x \in {"prepare", "snapshot"}, b \in {baseline.there}, c \in {file} :
               /\ run' = [run EXCEPT ![p] = [@ EXCEPT !.about = c, !.based = b, !.pc = x]]
               /\ c = file /\ b = baseline.there /\ (x = "prepare" <=> run[p].cmd = "control")
      BY <1>15, <2>2 DEF Gate
    <3>2. At(p, "gate") /\ ~(StalePackage \/ StaleCompiled \/ ControlBuilt)
            /\ UNCHANGED <<source, objdir, journal, lock, control, history, bounds>>
      BY <1>15, <2>2 DEF Gate
    <3> QED BY <1>0, <1>a, <1>b, <3>1, <3>2 DEF Runs
  <2> QED BY <2>1, <2>2
<1>16. ASSUME NEW p \in Procs, Snapshot(p) PROVE Journaled'
  BY <1>16, <1>0, <1>a, <1>b DEF Snapshot, Runs, Controls
<1>17. ASSUME NEW p \in Procs, Dispatch(p) PROVE Journaled'
  BY <1>17, <1>0, <1>a, <1>b DEF Dispatch, Runs, Controls
<1>18. ASSUME NEW p \in Procs, Verify(p) PROVE Journaled'
  BY <1>18, <1>0, <1>a, <1>b DEF Verify, Runs, Controls
<1>19. ASSUME NEW p \in Procs, BeginRestore(p) PROVE Journaled'
  BY <1>19, <1>0, <1>a, <1>b DEF BeginRestore, Runs, Controls
<1>20. ASSUME NEW p \in Procs, Restored(p) PROVE Journaled'
  <2>1. CASE Finish(p)
    BY <1>20, <1>0, <1>a, <1>b, <2>1 DEF Restored, Runs
  <2>2. CASE ~Finish(p)
    <3>1. PICK x :
              /\ run' = [run EXCEPT ![p] = [@ EXCEPT !.pc = x, !.full = TRUE, !.again = TRUE]]
              /\ x = "compile"
      BY <1>20, <2>2 DEF Restored
    <3>2. At(p, "restore") /\ control[p].step = "done" /\ ~run[p].sig /\ baseline.stamp = p
            /\ UNCHANGED <<source, objdir, journal, lock, control, history, bounds>>
      BY <1>20, <2>2 DEF Restored
    <3> QED BY <1>0, <1>a, <1>b, <3>1, <3>2 DEF Runs
  <2> QED BY <2>1, <2>2
<1>21. ASSUME NEW p \in Procs, Exit(p) PROVE Journaled'
  BY <1>21, <1>0, <1>a, <1>b DEF Exit, Runs, Controls
<1>22. ASSUME NEW p \in Procs, Signal(p) PROVE Journaled'
  BY <1>22, <1>0, <1>a, <1>b DEF Signal, Runs, Controls
<1>23. ASSUME NEW p \in Procs, Kill(p) PROVE Journaled'
  BY <1>23, <1>0, <1>a, <1>b DEF Kill, Runs, Controls
<1>24. ASSUME NEW p \in Procs, NEW c \in Commands, Start(p, c) PROVE Journaled'
  BY <1>24, <1>0, <1>a, <1>b DEF Start, Runs
<1>25. CASE Edit
  <2>1. file'.neut => file.neut
    BY <1>25 DEF Edit, TypeOK, Contents, Clean
  <2> QED BY <1>25, <2>1 DEF Edit
<1>26. CASE UNCHANGED vars
  BY <1>26 DEF vars
<1> QED BY <1>1, <1>2, <1>3, <1>4, <1>5, <1>6, <1>7, <1>8, <1>9, <1>10, <1>11, <1>12, <1>13, <1>14,
           <1>15, <1>16, <1>17, <1>18, <1>19, <1>20, <1>21, <1>22, <1>23, <1>24, <1>25, <1>26 DEF
           Next, Step

(* No edit is overwritten but one made inside a control's window.           *)
LEMMA ReadStep ==
    ASSUME Bounds, TypeOK, Locked, Routed, Controlled, Journaled, Read, [Next]_vars
    PROVE  Read'
<1> USE DEF Read, EditsSurvive, Active, Exclusive, First, Idle, NoControl, At, Goto, source,
            objdir, history, bounds, Finish, Write, Overwrite
<1>0. run \in [Procs -> Runs] /\ control \in [Procs -> Controls]
  BY DEF TypeOK
<1>a. \A p \in Procs : Active(p) /\ Exclusive(p) => \A q \in Procs : q # p => ~Active(q)
  BY Alone
<1>b. \A q \in Procs : ~Active(q) => control[q].step = "none" /\ ~control[q].own
  BY <1>0 DEF Controlled, Active, Controls, Routed
<1>c. file \in Contents
  BY DEF TypeOK
<1>1. ASSUME NEW p \in Procs, Enter(p) PROVE Read'
  BY <1>1, <1>0, <1>a, <1>b, <1>c DEF Enter, Runs, Controls
<1>2. ASSUME NEW p \in Procs, Recover(p) PROVE Read'
  <2>1. /\ At(p, "recover")
        /\ UNCHANGED <<source, objdir, journal, lock, history, bounds>>
    BY <1>2, <1>0, <1>a, <1>b, <1>c DEF Recover, Runs, Controls
  <2>2. CASE journal # NoJournal
    BY <1>2, <1>0, <1>a, <1>b, <2>2 DEF Recover, Runs, Controls
  <2>3. CASE journal = NoJournal /\ run[p].cmd \in {"test", "shared", "control"}
    <3>1. PICK x \in {"gate", "prepare"} :
             /\ run' = [run EXCEPT ![p].pc = x] /\ UNCHANGED control
             /\ x = "prepare" <=> run[p].cmd = "control" /\ kind = "compiled"
      BY <1>2, <2>3, <1>0, <1>a, <1>b, <1>c DEF Recover, Runs, Controls
    <3> QED BY <1>0, <1>a, <1>b, <2>1, <2>3, <3>1 DEF Runs, Controls
  <2>4. CASE journal = NoJournal /\ run[p].cmd = "testbuild"
    <3>1. PICK b : /\ run' = [run EXCEPT ![p] = [@ EXCEPT !.pc = "compile", !.full = b]]
                   /\ UNCHANGED control
      BY <1>2, <2>4, <1>0, <1>a, <1>b, <1>c DEF Recover, Runs, Controls
    <3> QED BY <1>0, <1>a, <1>b, <2>1, <2>4, <3>1 DEF Runs, Controls
  <2> QED BY <1>2, <2>2, <2>3, <2>4, <1>0, <1>a, <1>b, <1>c DEF Recover, Runs, Controls
<1>3. ASSUME NEW p \in Procs, Recovered(p) PROVE Read'
  BY <1>3, <1>0, <1>a, <1>b, <1>c DEF Recovered, Runs, Controls
<1>4. ASSUME NEW p \in Procs, Look(p) PROVE Read'
  BY <1>4, <1>0, <1>a, <1>b, <1>c DEF Look, Runs, Controls
<1>5. ASSUME NEW p \in Procs, Put(p) PROVE Read'
  <2>1. CASE journal = NoJournal
    BY <1>5, <1>0, <2>1 DEF Put, Controls
  <2>2. CASE journal # NoJournal
    <3>1. /\ file' = control[p].job.orig /\ UNCHANGED <<journal, run, windowed>>
          /\ control' = [control EXCEPT ![p].step = "remove"]
      BY <1>5, <2>2, <1>0, <1>a, <1>b, <1>c DEF Put, Runs, Controls
    <3>2. journal = control[p].job
      BY <1>5, <2>2 DEF Put, Controlled
    <3>3. \A q \in Procs : control[q].step = "put" => control[q].job = journal
      BY <2>2 DEF Controlled
    <3>4. journal.mut.v = journal.orig.v
      <4>1. journal.orig \in Contents /\ journal.mut = Neuter(journal.orig)
        BY <2>2 DEF TypeOK, Journals, Journaled
      <4> QED BY <4>1, NeuterTyped
    <3>5. \A q \in Procs : ~(run[q].pc \in {"journal", "mutate"})
      BY <1>5, <1>0, <1>a, <1>b DEF Put, Routed, Controlled, Controls
    <3>6. lost' \subseteq windowed
      BY <1>5, <2>2, <1>0, <1>a, <1>b, <1>c DEF Put, Runs, Controls
    <3>7. \A q \in Procs : control'[q].step = "put" => control[q].step = "put"
                             /\ control'[q].job = control[q].job
      BY <1>0, <3>1 DEF Controls
    <3> QED BY <3>1, <3>2, <3>3, <3>4, <3>5, <3>6, <3>7
  <2> QED BY <2>1, <2>2
<1>6. ASSUME NEW p \in Procs, Remove(p) PROVE Read'
  BY <1>6, <1>0, <1>a, <1>b, <1>c DEF Remove, Runs, Controls
<1>7. ASSUME NEW p \in Procs, Prepare(p) PROVE Read'
  <2>1. CASE Finish(p)
    BY <1>7, <1>0, <1>a, <1>b, <2>1 DEF Prepare, Runs
  <2>2. CASE ~Finish(p)
    <3>1. PICK x : /\ run' = [run EXCEPT ![p] = [@ EXCEPT !.seen = x, !.pc = "journal"]]
               /\ x = file
      BY <1>7, <2>2 DEF Prepare
    <3>2. At(p, "prepare") /\ ~file.neut
            /\ UNCHANGED <<source, objdir, journal, lock, control, history, bounds>>
      BY <1>7, <2>2 DEF Prepare
    <3> QED BY <1>0, <1>a, <1>b, <3>1, <3>2 DEF Runs
  <2> QED BY <2>1, <2>2
<1>8. ASSUME NEW p \in Procs, WriteJournal(p) PROVE Read'
  <2>2. /\ run' = [run EXCEPT ![p].pc = "mutate"] /\ At(p, "journal")
        /\ UNCHANGED <<file, lost, windowed>>
    BY <1>8, <1>0, <1>a, <1>b, <1>c DEF WriteJournal, Runs, Controls
  <2>3. \A q \in Procs : q # p => control[q].step = "none" /\ ~Active(q)
    BY <1>8, <1>0, <1>a, <1>b DEF WriteJournal, Routed
  <2>4. \A q \in Procs : control'[q].step # "put"
    BY <1>8, <1>0, <2>3 DEF WriteJournal, Controls
  <2> QED BY <1>0, <2>2, <2>3, <2>4 DEF Runs
<1>9. ASSUME NEW p \in Procs, Mutate(p) PROVE Read'
  <2>1. PICK x \in {"compile", "snapshot"}, b \in BOOLEAN :
             /\ run' = [run EXCEPT ![p] = [@ EXCEPT !.pc = x, !.full = b]]
    BY <1>9, <1>0, <1>a, <1>b, <1>c DEF Mutate, Runs, Controls
  <2>2. control' = control /\ journal' = journal /\ windowed' = windowed
    BY <1>9, <1>0, <1>a, <1>b, <1>c DEF Mutate, Runs, Controls
  <2>3. lost' \subseteq windowed
    BY <1>9, <1>0, <1>a, <1>b, <1>c DEF Mutate, Runs, Controls
  <2>4. \A q \in Procs : q # p => control[q].step # "put" /\ ~Active(q)
    BY <1>9, <1>0, <1>a, <1>b DEF Mutate, Routed
  <2>5. control[p].step = "applied"
    BY <1>9 DEF Mutate, Controlled
  <2> QED BY <1>0, <2>1, <2>2, <2>3, <2>4, <2>5 DEF Runs
<1>10. ASSUME NEW p \in Procs, MutateFails(p) PROVE Read'
  BY <1>10, <1>0, <1>a, <1>b, <1>c DEF MutateFails, Runs, Controls
<1>11. ASSUME NEW p \in Procs, Compile(p) PROVE Read'
  BY <1>11, <1>0, <1>a, <1>b, <1>c DEF Compile, Runs, Controls
<1>12. ASSUME NEW p \in Procs, Link(p) PROVE Read'
  BY <1>12, <1>0, <1>a, <1>b, <1>c DEF Link, Runs, Controls
<1>13. ASSUME NEW p \in Procs, BuildFails(p) PROVE Read'
  <2>1. CASE Finish(p)
    BY <1>13, <1>0, <1>a, <1>b, <2>1 DEF BuildFails, Runs, Controls
  <2>2. CASE First(p) /\ Goto(p, "restore") /\ UNCHANGED <<lock, control>>
    BY <1>13, <1>0, <1>a, <1>b, <2>2 DEF BuildFails, First, Runs, Controls
  <2> QED BY <1>13, <2>1, <2>2, Continued, <1>0, <1>a, <1>b, <1>c DEF BuildFails, Runs, Controls
<1>14. ASSUME NEW p \in Procs, Record(p) PROVE Read'
  <2>1. CASE Finish(p)
    BY <1>14, <1>0, <1>a, <1>b, <2>1 DEF Record, Runs, Controls
  <2>2. CASE run[p].cmd \notin {"build", "ui"} /\ ~run[p].again /\ Goto(p, "snapshot")
               /\ UNCHANGED <<lock, control>>
    BY <1>14, <1>0, <1>a, <1>b, <2>2 DEF Record, First, Runs, Controls
  <2> QED BY <1>14, <2>1, <2>2, Continued, <1>0, <1>a, <1>b, <1>c DEF Record, Runs, Controls
<1>15. ASSUME NEW p \in Procs, Gate(p) PROVE Read'
  <2>1. CASE Finish(p)
    BY <1>15, <1>0, <1>a, <1>b, <2>1 DEF Gate, Runs
  <2>2. CASE ~Finish(p)
    <3>1. PICK x \in {"prepare", "snapshot"}, b \in {baseline.there}, c \in {file} :
               /\ run' = [run EXCEPT ![p] = [@ EXCEPT !.about = c, !.based = b, !.pc = x]]
               /\ c = file /\ b = baseline.there /\ (x = "prepare" <=> run[p].cmd = "control")
      BY <1>15, <2>2 DEF Gate
    <3>2. At(p, "gate") /\ ~(StalePackage \/ StaleCompiled \/ ControlBuilt)
            /\ UNCHANGED <<source, objdir, journal, lock, control, history, bounds>>
      BY <1>15, <2>2 DEF Gate
    <3> QED BY <1>0, <1>a, <1>b, <3>1, <3>2 DEF Runs
  <2> QED BY <2>1, <2>2
<1>16. ASSUME NEW p \in Procs, Snapshot(p) PROVE Read'
  BY <1>16, <1>0, <1>a, <1>b, <1>c DEF Snapshot, Runs, Controls
<1>17. ASSUME NEW p \in Procs, Dispatch(p) PROVE Read'
  BY <1>17, <1>0, <1>a, <1>b, <1>c DEF Dispatch, Runs, Controls
<1>18. ASSUME NEW p \in Procs, Verify(p) PROVE Read'
  BY <1>18, <1>0, <1>a, <1>b, <1>c DEF Verify, Runs, Controls
<1>19. ASSUME NEW p \in Procs, BeginRestore(p) PROVE Read'
  BY <1>19, <1>0, <1>a, <1>b, <1>c DEF BeginRestore, Runs, Controls
<1>20. ASSUME NEW p \in Procs, Restored(p) PROVE Read'
  <2>1. CASE Finish(p)
    BY <1>20, <1>0, <1>a, <1>b, <2>1 DEF Restored, Runs
  <2>2. CASE ~Finish(p)
    <3>1. PICK x :
              /\ run' = [run EXCEPT ![p] = [@ EXCEPT !.pc = x, !.full = TRUE, !.again = TRUE]]
              /\ x = "compile"
      BY <1>20, <2>2 DEF Restored
    <3>2. At(p, "restore") /\ control[p].step = "done" /\ ~run[p].sig /\ baseline.stamp = p
            /\ UNCHANGED <<source, objdir, journal, lock, control, history, bounds>>
      BY <1>20, <2>2 DEF Restored
    <3> QED BY <1>0, <1>a, <1>b, <3>1, <3>2 DEF Runs
  <2> QED BY <2>1, <2>2
<1>21. ASSUME NEW p \in Procs, Exit(p) PROVE Read'
  BY <1>21, <1>0, <1>a, <1>b, <1>c DEF Exit, Runs, Controls
<1>22. ASSUME NEW p \in Procs, Signal(p) PROVE Read'
  BY <1>22, <1>0, <1>a, <1>b, <1>c DEF Signal, Runs, Controls
<1>23. ASSUME NEW p \in Procs, Kill(p) PROVE Read'
  BY <1>23, <1>0, <1>a, <1>b, <1>c DEF Kill, Runs, Controls
<1>24. ASSUME NEW p \in Procs, NEW c \in Commands, Start(p, c) PROVE Read'
  BY <1>24, <1>0, <1>a, <1>b DEF Start, Runs
<1>25. CASE Edit
  <2>1. CASE InWindow
    BY <1>25, <1>0, <1>c, <2>1 DEF Edit
  <2>2. CASE ~InWindow
    BY <1>25, <1>0, <1>c, <2>2 DEF Edit, InWindow
  <2> QED BY <2>1, <2>2
<1>26. CASE UNCHANGED vars
  BY <1>26 DEF vars
<1> QED BY <1>1, <1>2, <1>3, <1>4, <1>5, <1>6, <1>7, <1>8, <1>9, <1>10, <1>11, <1>12, <1>13, <1>14,
           <1>15, <1>16, <1>17, <1>18, <1>19, <1>20, <1>21, <1>22, <1>23, <1>24, <1>25, <1>26 DEF
           Next, Step

(* The project's kind is fixed, and a missed edit stays missed.             *)
LEMMA KindKept ==
    ASSUME [Next]_vars
    PROVE  kind' = kind /\ (unseen => unseen')
<1> USE DEF bounds, history
<1>1. ASSUME NEW p \in Procs, Enter(p) PROVE kind' = kind /\ (unseen => unseen')
  BY <1>1 DEF Enter
<1>2. ASSUME NEW p \in Procs, Recover(p) PROVE kind' = kind /\ (unseen => unseen')
  BY <1>2 DEF Recover
<1>3. ASSUME NEW p \in Procs, Recovered(p) PROVE kind' = kind /\ (unseen => unseen')
  BY <1>3 DEF Recovered
<1>4. ASSUME NEW p \in Procs, Look(p) PROVE kind' = kind /\ (unseen => unseen')
  BY <1>4 DEF Look
<1>5. ASSUME NEW p \in Procs, Put(p) PROVE kind' = kind /\ (unseen => unseen')
  BY <1>5 DEF Put
<1>6. ASSUME NEW p \in Procs, Remove(p) PROVE kind' = kind /\ (unseen => unseen')
  BY <1>6 DEF Remove
<1>7. ASSUME NEW p \in Procs, Prepare(p) PROVE kind' = kind /\ (unseen => unseen')
  BY <1>7 DEF Prepare
<1>8. ASSUME NEW p \in Procs, WriteJournal(p) PROVE kind' = kind /\ (unseen => unseen')
  BY <1>8 DEF WriteJournal
<1>9. ASSUME NEW p \in Procs, Mutate(p) PROVE kind' = kind /\ (unseen => unseen')
  BY <1>9 DEF Mutate
<1>10. ASSUME NEW p \in Procs, MutateFails(p) PROVE kind' = kind /\ (unseen => unseen')
  BY <1>10 DEF MutateFails
<1>11. ASSUME NEW p \in Procs, Compile(p) PROVE kind' = kind /\ (unseen => unseen')
  BY <1>11 DEF Compile
<1>12. ASSUME NEW p \in Procs, Link(p) PROVE kind' = kind /\ (unseen => unseen')
  BY <1>12 DEF Link
<1>13. ASSUME NEW p \in Procs, BuildFails(p) PROVE kind' = kind /\ (unseen => unseen')
  BY <1>13 DEF BuildFails
<1>14. ASSUME NEW p \in Procs, Record(p) PROVE kind' = kind /\ (unseen => unseen')
  <2>1. UNCHANGED unseen \/ unseen' = (unseen \/ Unrecorded(p))
    BY <1>14 DEF Record
  <2>2. kind' = kind
    BY <1>14 DEF Record
  <2>3. CASE UNCHANGED unseen
    BY <2>2, <2>3
  <2>4. CASE unseen' = (unseen \/ Unrecorded(p))
    BY <2>2, <2>4
  <2> QED BY <2>1, <2>3, <2>4
<1>15. ASSUME NEW p \in Procs, Gate(p) PROVE kind' = kind /\ (unseen => unseen')
  BY <1>15 DEF Gate
<1>16. ASSUME NEW p \in Procs, Snapshot(p) PROVE kind' = kind /\ (unseen => unseen')
  BY <1>16 DEF Snapshot
<1>17. ASSUME NEW p \in Procs, Dispatch(p) PROVE kind' = kind /\ (unseen => unseen')
  BY <1>17 DEF Dispatch
<1>18. ASSUME NEW p \in Procs, Verify(p) PROVE kind' = kind /\ (unseen => unseen')
  BY <1>18 DEF Verify
<1>19. ASSUME NEW p \in Procs, BeginRestore(p) PROVE kind' = kind /\ (unseen => unseen')
  BY <1>19 DEF BeginRestore
<1>20. ASSUME NEW p \in Procs, Restored(p) PROVE kind' = kind /\ (unseen => unseen')
  BY <1>20 DEF Restored
<1>21. ASSUME NEW p \in Procs, Exit(p) PROVE kind' = kind /\ (unseen => unseen')
  BY <1>21 DEF Exit
<1>22. ASSUME NEW p \in Procs, Signal(p) PROVE kind' = kind /\ (unseen => unseen')
  BY <1>22 DEF Signal
<1>23. ASSUME NEW p \in Procs, Kill(p) PROVE kind' = kind /\ (unseen => unseen')
  BY <1>23 DEF Kill
<1>24. ASSUME NEW p \in Procs, NEW c \in Commands, Start(p, c)
       PROVE kind' = kind /\ (unseen => unseen')
  BY <1>24 DEF Start
<1>25. CASE Edit
  BY <1>25 DEF Edit
<1>26. CASE UNCHANGED vars
  BY <1>26 DEF vars
<1> QED BY <1>1, <1>2, <1>3, <1>4, <1>5, <1>6, <1>7, <1>8, <1>9, <1>10, <1>11, <1>12, <1>13, <1>14,
           <1>15, <1>16, <1>17, <1>18, <1>19, <1>20, <1>21, <1>22, <1>23, <1>24, <1>25, <1>26 DEF
           Next, Step

(* Only a build changes what is built.                                      *)
Quiet ==
    /\ UNCHANGED <<built, obj, baseline>>
    /\ UNCHANGED <<file, newer, objOld>> \/ (kind = "compiled" => newer' /\ objOld')

LEMMA QuietStep ==
    ASSUME Bounds, TypeOK, [Next]_vars
    PROVE  Quiet \/ \E q \in Procs : Compile(q) \/ Link(q) \/ Record(q)
<1> USE DEF Quiet, source, objdir, Write
<1>1. ASSUME NEW p \in Procs, Enter(p)
      PROVE Quiet \/ \E q \in Procs : Compile(q) \/ Link(q) \/ Record(q)
  BY <1>1 DEF Enter
<1>2. ASSUME NEW p \in Procs, Recover(p)
      PROVE Quiet \/ \E q \in Procs : Compile(q) \/ Link(q) \/ Record(q)
  BY <1>2 DEF Recover
<1>3. ASSUME NEW p \in Procs, Recovered(p)
      PROVE Quiet \/ \E q \in Procs : Compile(q) \/ Link(q) \/ Record(q)
  BY <1>3 DEF Recovered
<1>4. ASSUME NEW p \in Procs, Look(p)
      PROVE Quiet \/ \E q \in Procs : Compile(q) \/ Link(q) \/ Record(q)
  BY <1>4 DEF Look
<1>5. ASSUME NEW p \in Procs, Put(p)
      PROVE Quiet \/ \E q \in Procs : Compile(q) \/ Link(q) \/ Record(q)
  BY <1>5 DEF Put
<1>6. ASSUME NEW p \in Procs, Remove(p)
      PROVE Quiet \/ \E q \in Procs : Compile(q) \/ Link(q) \/ Record(q)
  BY <1>6 DEF Remove
<1>7. ASSUME NEW p \in Procs, Prepare(p)
      PROVE Quiet \/ \E q \in Procs : Compile(q) \/ Link(q) \/ Record(q)
  BY <1>7 DEF Prepare
<1>8. ASSUME NEW p \in Procs, WriteJournal(p)
      PROVE Quiet \/ \E q \in Procs : Compile(q) \/ Link(q) \/ Record(q)
  BY <1>8 DEF WriteJournal
<1>9. ASSUME NEW p \in Procs, Mutate(p)
      PROVE Quiet \/ \E q \in Procs : Compile(q) \/ Link(q) \/ Record(q)
  BY <1>9 DEF Mutate
<1>10. ASSUME NEW p \in Procs, MutateFails(p)
       PROVE Quiet \/ \E q \in Procs : Compile(q) \/ Link(q) \/ Record(q)
  BY <1>10 DEF MutateFails
<1>11. ASSUME NEW p \in Procs, Compile(p)
       PROVE Quiet \/ \E q \in Procs : Compile(q) \/ Link(q) \/ Record(q)
  BY <1>11 DEF Compile
<1>12. ASSUME NEW p \in Procs, Link(p)
       PROVE Quiet \/ \E q \in Procs : Compile(q) \/ Link(q) \/ Record(q)
  BY <1>12 DEF Link
<1>13. ASSUME NEW p \in Procs, BuildFails(p)
       PROVE Quiet \/ \E q \in Procs : Compile(q) \/ Link(q) \/ Record(q)
  BY <1>13 DEF BuildFails
<1>14. ASSUME NEW p \in Procs, Record(p)
       PROVE Quiet \/ \E q \in Procs : Compile(q) \/ Link(q) \/ Record(q)
  BY <1>14 DEF Record
<1>15. ASSUME NEW p \in Procs, Gate(p)
       PROVE Quiet \/ \E q \in Procs : Compile(q) \/ Link(q) \/ Record(q)
  BY <1>15 DEF Gate
<1>16. ASSUME NEW p \in Procs, Snapshot(p)
       PROVE Quiet \/ \E q \in Procs : Compile(q) \/ Link(q) \/ Record(q)
  BY <1>16 DEF Snapshot
<1>17. ASSUME NEW p \in Procs, Dispatch(p)
       PROVE Quiet \/ \E q \in Procs : Compile(q) \/ Link(q) \/ Record(q)
  BY <1>17 DEF Dispatch
<1>18. ASSUME NEW p \in Procs, Verify(p)
       PROVE Quiet \/ \E q \in Procs : Compile(q) \/ Link(q) \/ Record(q)
  BY <1>18 DEF Verify
<1>19. ASSUME NEW p \in Procs, BeginRestore(p)
       PROVE Quiet \/ \E q \in Procs : Compile(q) \/ Link(q) \/ Record(q)
  BY <1>19 DEF BeginRestore
<1>20. ASSUME NEW p \in Procs, Restored(p)
       PROVE Quiet \/ \E q \in Procs : Compile(q) \/ Link(q) \/ Record(q)
  BY <1>20 DEF Restored
<1>21. ASSUME NEW p \in Procs, Exit(p)
       PROVE Quiet \/ \E q \in Procs : Compile(q) \/ Link(q) \/ Record(q)
  BY <1>21 DEF Exit
<1>22. ASSUME NEW p \in Procs, Signal(p)
       PROVE Quiet \/ \E q \in Procs : Compile(q) \/ Link(q) \/ Record(q)
  BY <1>22 DEF Signal
<1>23. ASSUME NEW p \in Procs, Kill(p)
       PROVE Quiet \/ \E q \in Procs : Compile(q) \/ Link(q) \/ Record(q)
  BY <1>23 DEF Kill
<1>24. ASSUME NEW p \in Procs, NEW c \in Commands, Start(p, c)
       PROVE Quiet \/ \E q \in Procs : Compile(q) \/ Link(q) \/ Record(q)
  BY <1>24 DEF Start
<1>25. CASE Edit
  BY <1>25 DEF Edit
<1>26. CASE UNCHANGED vars
  BY <1>26 DEF vars
<1> QED BY <1>1, <1>2, <1>3, <1>4, <1>5, <1>6, <1>7, <1>8, <1>9, <1>10, <1>11, <1>12, <1>13, <1>14,
           <1>15, <1>16, <1>17, <1>18, <1>19, <1>20, <1>21, <1>22, <1>23, <1>24, <1>25, <1>26 DEF
           Next, Step

(* A file that is going to be HEAD's again was so before, or an edit was
   missed.                                                                  *)
LEMMA BackStep ==
    ASSUME Bounds, TypeOK, Locked, Routed, Controlled, Journaled, kind # "live", [Next]_vars
    PROVE  Back' /\ ~unseen' => Back
<1> USE DEF Back, Idle, NoControl, At, Goto, source, objdir, history, bounds, Finish, Write,
            Overwrite
<1>0. run \in [Procs -> Runs] /\ control \in [Procs -> Controls] /\ file \in Contents
      /\ kind \in {"compiled", "copied", "live"}
  BY DEF TypeOK
<1>a. \A p \in Procs : Active(p) /\ Exclusive(p) => \A q \in Procs : q # p => ~Active(q)
  BY Alone
<1>b. \A q \in Procs : ~Active(q) => control[q].step = "none" /\ ~control[q].own
  BY <1>0 DEF Controlled, Active, Controls, Routed
<1>1. ASSUME NEW p \in Procs, Enter(p) PROVE Back' /\ ~unseen' => Back
  BY <1>1, <1>0 DEF Enter, Runs, Controls
<1>2. ASSUME NEW p \in Procs, Recover(p) PROVE Back' /\ ~unseen' => Back
  <2>1. /\ UNCHANGED file
        /\ \/ \E x \in PCs \ {"journal", "mutate"} : run' = [run EXCEPT ![p].pc = x]
           \/ \E b : run' = [run EXCEPT ![p] = [@ EXCEPT !.pc = "compile", !.full = b]]
    BY <1>2 DEF Recover, PCs
  <2>2. \A q \in Procs : run'[q].pc \in {"journal", "mutate"} =>
            run[q].pc \in {"journal", "mutate"} /\ run'[q].seen = run[q].seen
    BY <1>0, <2>1 DEF Runs
  <2>3. \A q \in Procs : control'[q].step = "put" => control'[q] = control[q]
    BY <1>2, <1>0 DEF Recover, Controls
  <2> QED BY <2>1, <2>2, <2>3
<1>3. ASSUME NEW p \in Procs, Recovered(p) PROVE Back' /\ ~unseen' => Back
  BY <1>3, <1>0 DEF Recovered, Runs, Controls
<1>4. ASSUME NEW p \in Procs, Look(p) PROVE Back' /\ ~unseen' => Back
  <2> DEFINE j == control[p].job
  <2>1. UNCHANGED <<file, run>>
    BY <1>4, <1>0 DEF Look, Runs, Controls
  <2>2. \A q \in Procs : control'[q].job = control[q].job
                         /\ (control'[q].step = "put" => control[q].step = "put" \/ q = p)
    BY <1>4, <1>0 DEF Look, Controls
  <2>3. control'[p].step = "put" => file = j.mut
    BY <1>4, <1>0 DEF Look, Controls
  <2>4. j.mut = Neuter(j.orig)
    BY <1>4 DEF Look, Controlled
  <2>5. control'[p].step = "put" /\ control'[p].job.orig = Clean => file = Neuter(Clean)
    BY <2>2, <2>3, <2>4
  <2> HIDE DEF j
  <2> QED BY <2>1, <2>2, <2>5
<1>5. ASSUME NEW p \in Procs, Put(p) PROVE Back' /\ ~unseen' => Back
  <2>1. CASE journal = NoJournal
    BY <1>5, <2>1, <1>0 DEF Put, Runs, Controls
  <2>2. CASE journal # NoJournal
    <3>1. file' = control[p].job.orig /\ control' = [control EXCEPT ![p].step = "remove"]
          /\ UNCHANGED run
      BY <1>5, <2>2, <1>0 DEF Put, Runs, Controls
    <3>2. file' \in {Clean, Neuter(Clean)} => control[p].job.orig = Clean
      <4>1. ~control[p].job.orig.neut
        BY <1>5 DEF Put, Controlled
      <4> QED BY <3>1, <4>1 DEF Neuter, Clean
    <3> QED BY <1>5, <1>0, <3>1, <3>2 DEF Put, Controls
  <2> QED BY <2>1, <2>2
<1>6. ASSUME NEW p \in Procs, Remove(p) PROVE Back' /\ ~unseen' => Back
  BY <1>6, <1>0 DEF Remove, Runs, Controls
<1>7. ASSUME NEW p \in Procs, Prepare(p) PROVE Back' /\ ~unseen' => Back
  <2>1. CASE Finish(p)
    BY <1>7, <2>1, <1>0 DEF Prepare, Runs, Controls
  <2>2. CASE ~Finish(p)
    <3>1. run' = [run EXCEPT ![p] = [@ EXCEPT !.seen = file, !.pc = "journal"]]
            /\ UNCHANGED <<control, file>>
      BY <1>7, <2>2, <1>0 DEF Prepare, Runs, Controls
    <3> QED BY <1>0, <3>1 DEF Runs
  <2> QED BY <2>1, <2>2
<1>8. ASSUME NEW p \in Procs, WriteJournal(p) PROVE Back' /\ ~unseen' => Back
  BY <1>8, <1>0 DEF WriteJournal, Runs, Controls
<1>9. ASSUME NEW p \in Procs, Mutate(p) PROVE Back' /\ ~unseen' => Back
  <2>1. PICK x \in {"compile", "snapshot"}, b \in BOOLEAN :
             /\ run' = [run EXCEPT ![p] = [@ EXCEPT !.pc = x, !.full = b]]
    BY <1>9, <1>0 DEF Mutate, Runs, Controls
  <2>2. control' = control /\ file' = Neuter(run[p].seen)
    BY <1>9, <1>0 DEF Mutate, Runs, Controls
  <2>3. run[p].seen \in Contents /\ ~run[p].seen.neut
    BY <1>9, <1>0 DEF Mutate, Journaled, Runs
  <2>4. file' \in {Clean, Neuter(Clean)} => run[p].seen = Clean
    BY <2>2, <2>3 DEF Neuter, Clean, Contents
  <2>5. run[p].seen = Clean => Back
    BY <1>9, <1>0 DEF Mutate, Runs, Controls
  <2> QED BY <1>0, <2>1, <2>2, <2>4, <2>5 DEF Runs
<1>10. ASSUME NEW p \in Procs, MutateFails(p) PROVE Back' /\ ~unseen' => Back
  BY <1>10, <1>0 DEF MutateFails, Runs, Controls
<1>11. ASSUME NEW p \in Procs, Compile(p) PROVE Back' /\ ~unseen' => Back
  BY <1>11, <1>0 DEF Compile, Runs, Controls
<1>12. ASSUME NEW p \in Procs, Link(p) PROVE Back' /\ ~unseen' => Back
  BY <1>12, <1>0 DEF Link, Runs, Controls
<1>13. ASSUME NEW p \in Procs, BuildFails(p) PROVE Back' /\ ~unseen' => Back
  <2>1. CASE Finish(p)
    BY <1>13, <1>0, <2>1 DEF BuildFails, Runs, Controls
  <2>2. CASE First(p) /\ Goto(p, "restore") /\ UNCHANGED <<lock, control>>
    BY <1>13, <1>0, <2>2 DEF BuildFails, First, Runs, Controls
  <2> QED BY <1>13, <2>1, <2>2, Continued, <1>0 DEF BuildFails, Runs, Controls
<1>14. ASSUME NEW p \in Procs, Record(p) PROVE Back' /\ ~unseen' => Back
  <2>1. CASE Finish(p)
    BY <1>14, <1>0, <2>1 DEF Record, Runs, Controls
  <2>2. CASE run[p].cmd \notin {"build", "ui"} /\ ~run[p].again /\ Goto(p, "snapshot")
               /\ UNCHANGED <<lock, control>>
    BY <1>14, <1>0, <2>2 DEF Record, First, Runs, Controls
  <2> QED BY <1>14, <2>1, <2>2, Continued, <1>0 DEF Record, Runs, Controls
<1>15. ASSUME NEW p \in Procs, Gate(p) PROVE Back' /\ ~unseen' => Back
  <2>1. CASE Finish(p)
    BY <1>15, <2>1, <1>0 DEF Gate, Runs, Controls
  <2>2. CASE ~Finish(p)
    <3>1. PICK x \in {"prepare", "snapshot"}, b \in {baseline.there}, c \in {file} :
               /\ run' = [run EXCEPT ![p] = [@ EXCEPT !.about = c, !.based = b, !.pc = x]]
      BY <1>15, <2>2, <1>0 DEF Gate, Runs, Controls
    <3>2. UNCHANGED <<control, file>>
      BY <1>15, <2>2, <1>0 DEF Gate, Runs, Controls
    <3> QED BY <1>0, <3>1, <3>2 DEF Runs
  <2> QED BY <2>1, <2>2
<1>16. ASSUME NEW p \in Procs, Snapshot(p) PROVE Back' /\ ~unseen' => Back
  BY <1>16, <1>0 DEF Snapshot, Runs, Controls
<1>17. ASSUME NEW p \in Procs, Dispatch(p) PROVE Back' /\ ~unseen' => Back
  BY <1>17, <1>0 DEF Dispatch, Runs, Controls
<1>18. ASSUME NEW p \in Procs, Verify(p) PROVE Back' /\ ~unseen' => Back
  BY <1>18, <1>0 DEF Verify, Runs, Controls
<1>19. ASSUME NEW p \in Procs, BeginRestore(p) PROVE Back' /\ ~unseen' => Back
  BY <1>19, <1>0 DEF BeginRestore, Runs, Controls
<1>20. ASSUME NEW p \in Procs, Restored(p) PROVE Back' /\ ~unseen' => Back
  <2>1. CASE Finish(p)
    BY <1>20, <2>1, <1>0 DEF Restored, Runs, Controls
  <2>2. CASE ~Finish(p)
    <3>1. run' = [run EXCEPT ![p] = [@ EXCEPT !.pc = "compile", !.full = TRUE, !.again = TRUE]]
      BY <1>20, <2>2, <1>0 DEF Restored, Runs, Controls
    <3>2. UNCHANGED <<control, file>>
      BY <1>20, <2>2, <1>0 DEF Restored, Runs, Controls
    <3> QED BY <1>0, <3>1, <3>2 DEF Runs
  <2> QED BY <2>1, <2>2
<1>21. ASSUME NEW p \in Procs, Exit(p) PROVE Back' /\ ~unseen' => Back
  BY <1>21, <1>0 DEF Exit, Runs, Controls
<1>22. ASSUME NEW p \in Procs, Signal(p) PROVE Back' /\ ~unseen' => Back
  BY <1>22, <1>0 DEF Signal, Runs, Controls
<1>23. ASSUME NEW p \in Procs, Kill(p) PROVE Back' /\ ~unseen' => Back
  BY <1>23, <1>0 DEF Kill, Runs, Controls
<1>24. ASSUME NEW p \in Procs, NEW c \in Commands, Start(p, c) PROVE Back' /\ ~unseen' => Back
  BY <1>24, <1>0 DEF Start, Runs, Controls
<1>25. CASE Edit
  <2>1. PICK c \in {[file EXCEPT !.v = edits + 2], Clean} : file' = c /\ (Unseen(c) => unseen')
    BY <1>25 DEF Edit
  <2>2. CASE c = Clean
    BY <2>1, <2>2 DEF Unseen
  <2>3. CASE c = [file EXCEPT !.v = edits + 2]
    <3>1. file'.v = edits + 2 /\ edits \in Nat
      BY <1>0, <2>1, <2>3 DEF Contents, TypeOK
    <3>2. file' \notin {Clean, Neuter(Clean)}
      <4>1. Clean.v = 0 /\ Neuter(Clean).v = 0
        BY DEF Clean, Neuter
      <4> QED BY <3>1, <4>1
    <3>3. UNCHANGED <<run, control>>
      BY <1>25 DEF Edit
    <3> QED BY <3>2, <3>3
  <2> QED BY <2>1, <2>2, <2>3
<1>26. CASE UNCHANGED vars
  BY <1>26 DEF vars
<1> QED BY <1>1, <1>2, <1>3, <1>4, <1>5, <1>6, <1>7, <1>8, <1>9, <1>10, <1>11, <1>12, <1>13, <1>14,
           <1>15, <1>16, <1>17, <1>18, <1>19, <1>20, <1>21, <1>22, <1>23, <1>24, <1>25, <1>26 DEF
           Next, Step

(* An objdir that becomes trusted was, or a build has just been recorded.   *)
LEMMA TrustedStep ==
    ASSUME Bounds, TypeOK, Locked, Routed, Controlled, Journaled, kind # "live", [Next]_vars
    PROVE  Trusted' /\ ~unseen' => Trusted \/ \E q \in Procs : Record(q)
<1> USE DEF Trusted, Making, ControlBuilt, First, Idle, Unrecorded, At, Goto, source, objdir,
            history, bounds, Finish, Write, Overwrite
<1>0. run \in [Procs -> Runs] /\ control \in [Procs -> Controls] /\ file \in Contents
      /\ kind \in {"compiled", "copied", "live"}
  BY DEF TypeOK
<1>a. \A p \in Procs : Active(p) /\ Exclusive(p) => \A q \in Procs : q # p => ~Active(q)
  BY Alone
<1>b. \A q \in Procs : ~Active(q) => control[q].step = "none" /\ ~control[q].own
  BY <1>0 DEF Controlled, Active, Controls, Routed
<1>1. ASSUME NEW p \in Procs, Enter(p)
      PROVE Trusted' /\ ~unseen' => Trusted \/ \E q \in Procs : Record(q)
  BY <1>1, <1>0 DEF Enter, Runs, Controls
<1>2. ASSUME NEW p \in Procs, Recover(p)
      PROVE Trusted' /\ ~unseen' => Trusted \/ \E q \in Procs : Record(q)
  BY <1>2, <1>0 DEF Recover, Runs, Controls
<1>3. ASSUME NEW p \in Procs, Recovered(p)
      PROVE Trusted' /\ ~unseen' => Trusted \/ \E q \in Procs : Record(q)
  BY <1>3, <1>0 DEF Recovered, Runs, Controls
<1>4. ASSUME NEW p \in Procs, Look(p)
      PROVE Trusted' /\ ~unseen' => Trusted \/ \E q \in Procs : Record(q)
  BY <1>4, <1>0 DEF Look, Runs, Controls
<1>5. ASSUME NEW p \in Procs, Put(p)
      PROVE Trusted' /\ ~unseen' => Trusted \/ \E q \in Procs : Record(q)
  BY <1>5, <1>0 DEF Put, Runs, Controls
<1>6. ASSUME NEW p \in Procs, Remove(p)
      PROVE Trusted' /\ ~unseen' => Trusted \/ \E q \in Procs : Record(q)
  BY <1>6, <1>0 DEF Remove, Runs, Controls
<1>7. ASSUME NEW p \in Procs, Prepare(p)
      PROVE Trusted' /\ ~unseen' => Trusted \/ \E q \in Procs : Record(q)
  BY <1>7, <1>0 DEF Prepare, Runs, Controls
<1>8. ASSUME NEW p \in Procs, WriteJournal(p)
      PROVE Trusted' /\ ~unseen' => Trusted \/ \E q \in Procs : Record(q)
  BY <1>8, <1>0 DEF WriteJournal, Runs, Controls
<1>9. ASSUME NEW p \in Procs, Mutate(p)
      PROVE Trusted' /\ ~unseen' => Trusted \/ \E q \in Procs : Record(q)
  BY <1>9, <1>0 DEF Mutate, Runs, Controls
<1>10. ASSUME NEW p \in Procs, MutateFails(p)
       PROVE Trusted' /\ ~unseen' => Trusted \/ \E q \in Procs : Record(q)
  BY <1>10, <1>0 DEF MutateFails, Runs, Controls
<1>11. ASSUME NEW p \in Procs, Compile(p)
       PROVE Trusted' /\ ~unseen' => Trusted \/ \E q \in Procs : Record(q)
  BY <1>11, <1>0 DEF Compile, Runs, Controls
<1>12. ASSUME NEW p \in Procs, Link(p)
       PROVE Trusted' /\ ~unseen' => Trusted \/ \E q \in Procs : Record(q)
  BY <1>12, <1>0 DEF Link, Runs, Controls
<1>13. ASSUME NEW p \in Procs, BuildFails(p)
       PROVE Trusted' /\ ~unseen' => Trusted \/ \E q \in Procs : Record(q)
  <2>1. CASE Finish(p)
    BY <1>13, <1>0, <2>1 DEF BuildFails, Runs, Controls
  <2>2. CASE First(p) /\ Goto(p, "restore") /\ UNCHANGED <<lock, control>>
    BY <1>13, <1>0, <2>2 DEF BuildFails, First, Runs, Controls
  <2> QED BY <1>13, <2>1, <2>2, Continued, <1>0 DEF BuildFails, Runs, Controls
<1>14. ASSUME NEW p \in Procs, Record(p)
       PROVE Trusted' /\ ~unseen' => Trusted \/ \E q \in Procs : Record(q)
  BY <1>14, <1>0 DEF Record, Runs, Controls
<1>15. ASSUME NEW p \in Procs, Gate(p)
       PROVE Trusted' /\ ~unseen' => Trusted \/ \E q \in Procs : Record(q)
  BY <1>15, <1>0 DEF Gate, Runs, Controls
<1>16. ASSUME NEW p \in Procs, Snapshot(p)
       PROVE Trusted' /\ ~unseen' => Trusted \/ \E q \in Procs : Record(q)
  BY <1>16, <1>0 DEF Snapshot, Runs, Controls
<1>17. ASSUME NEW p \in Procs, Dispatch(p)
       PROVE Trusted' /\ ~unseen' => Trusted \/ \E q \in Procs : Record(q)
  BY <1>17, <1>0 DEF Dispatch, Runs, Controls
<1>18. ASSUME NEW p \in Procs, Verify(p)
       PROVE Trusted' /\ ~unseen' => Trusted \/ \E q \in Procs : Record(q)
  BY <1>18, <1>0 DEF Verify, Runs, Controls
<1>19. ASSUME NEW p \in Procs, BeginRestore(p)
       PROVE Trusted' /\ ~unseen' => Trusted \/ \E q \in Procs : Record(q)
  BY <1>19, <1>0 DEF BeginRestore, Runs, Controls
<1>20. ASSUME NEW p \in Procs, Restored(p)
       PROVE Trusted' /\ ~unseen' => Trusted \/ \E q \in Procs : Record(q)
  BY <1>20, <1>0 DEF Restored, Runs, Controls
<1>21. ASSUME NEW p \in Procs, Exit(p)
       PROVE Trusted' /\ ~unseen' => Trusted \/ \E q \in Procs : Record(q)
  BY <1>21, <1>0 DEF Exit, Runs, Controls
<1>22. ASSUME NEW p \in Procs, Signal(p)
       PROVE Trusted' /\ ~unseen' => Trusted \/ \E q \in Procs : Record(q)
  BY <1>22, <1>0 DEF Signal, Runs, Controls
<1>23. ASSUME NEW p \in Procs, Kill(p)
       PROVE Trusted' /\ ~unseen' => Trusted \/ \E q \in Procs : Record(q)
  BY <1>23, <1>0 DEF Kill, Runs, Controls
<1>24. ASSUME NEW p \in Procs, NEW c \in Commands, Start(p, c)
       PROVE Trusted' /\ ~unseen' => Trusted \/ \E q \in Procs : Record(q)
  BY <1>24, <1>0 DEF Start, Runs, Controls
<1>25. CASE Edit
  BY <1>25 DEF Edit
<1>26. CASE UNCHANGED vars
  BY <1>26 DEF vars
<1> QED BY <1>1, <1>2, <1>3, <1>4, <1>5, <1>6, <1>7, <1>8, <1>9, <1>10, <1>11, <1>12, <1>13, <1>14,
           <1>15, <1>16, <1>17, <1>18, <1>19, <1>20, <1>21, <1>22, <1>23, <1>24, <1>25, <1>26 DEF
           Next, Step

(* When nobody is at a control, a file on its way back is HEAD's.           *)
LEMMA BackIsClean ==
    ASSUME Bounds, TypeOK, Locked, Routed, Controlled, NEW p \in Procs, Making(p), ~First(p),
           Back, ~file.neut
    PROVE  file = Clean
<1>1. \A q \in Procs : Active(q) => q = p
  BY Alone DEF Making, Active, Routed, Exclusive
<1>2. \A q \in Procs : control[q].step # "put"
  BY <1>1 DEF Controlled, Active, Making, First, Routed, TypeOK, Controls, At
<1>3. \A q \in Procs : run[q].pc \notin {"journal", "mutate"}
  BY <1>1 DEF Making, Active
<1>4. file # Neuter(Clean)
  BY DEF Neuter, Clean
<1> QED BY <1>2, <1>3, <1>4 DEF Back

(* A trusted objdir carries what the file, or the baseline, says.           *)
LEMMA CarriedStep ==
    ASSUME Bounds, TypeOK, Locked, Routed, Controlled, Journaled, Carried, Built, [Next]_vars
    PROVE  Carried'
<1>0. kind' = kind /\ kind \in {"compiled", "copied", "live"} /\ file \in Contents
  BY KindKept DEF TypeOK
<1>1. CASE kind = "live"
  BY <1>0, <1>1 DEF Carried
<1> SUFFICES ASSUME kind # "live" PROVE Carried'
  BY <1>1
<1>2. Back' /\ ~unseen' => Back
  BY BackStep
<1>3. Trusted' /\ ~unseen' => Trusted \/ \E q \in Procs : Record(q)
  BY TrustedStep
<1>u. unseen => unseen'
  BY KindKept
<1>4. ASSUME NEW p \in Procs, Record(p) PROVE Carried'
  <2>0. UNCHANGED <<file, built, obj, newer, objOld>> /\ At(p, "record") /\ Making(p)
    BY <1>4 DEF Record, source, Making, At
  <2>1. \A q \in Procs : Active(q) => q = p
    BY <2>0, Alone DEF Making, Active, Routed, Exclusive
  <2>2. /\ First(p) => kind = "compiled"
        /\ run[p].cmd \in {"build", "ui", "testbuild", "control"}
        /\ run[p].cmd \in {"build", "control"} => kind = "copied" \/ run[p].full
    BY <2>0, <1>0 DEF Routed, First, Making, TypeOK, Runs, Commands
  <2>3. Carried
    OBVIOUS
  <2>4. ~unseen' => ~unseen
    BY <1>u
  <2>5. CASE baseline' = baseline /\ (Unrecorded(p) => unseen')
    <3>1. CASE Unrecorded(p)
      <4>1. unseen'
        BY <2>5, <3>1
      <4> QED BY <1>0, <2>0, <2>3, <4>1 DEF Carried
    <3>2. CASE ~Unrecorded(p)
      <4>1. kind = "compiled" /\ ~First(p)
        BY <1>0, <2>0, <3>2 DEF Unrecorded, First, At
      <4>2. Trusted' => Trusted
        BY <1>0, <2>1, <2>5, <4>1 DEF Trusted, At, Active, ControlBuilt
      <4> QED BY <1>0, <1>2, <2>0, <2>3, <2>4, <4>1, <4>2 DEF Carried
    <3> QED BY <3>1, <3>2
  <2>6. CASE baseline' = [there |-> TRUE, fp |-> Fingerprint(file), stamp |-> Stamp(p)]
    <3>1. CASE kind = "compiled"
      <4>1. Trusted' /\ ~unseen' => Trusted \/ (built = file /\ ~file.neut /\ ~First(p))
        <5>1. CASE First(p)
          BY <5>1, <1>0, <2>6, <3>1 DEF Trusted, ControlBuilt, Stamp, First, Bounds
        <5>2. CASE run[p].cmd = "ui"
          BY <5>2, <1>0, <2>1, <2>6, <3>1 DEF Trusted, ControlBuilt, Stamp, First, At, Active
        <5>3. CASE ~First(p) /\ run[p].cmd # "ui" /\ run[p].full
          BY <5>3, <2>0, <2>4, <3>1 DEF Built, At
        <5>4. CASE run[p].cmd = "testbuild" /\ ~run[p].full
          <6>1. ~unseen => ~ControlBuilt
            BY <5>4, <2>0, <3>1 DEF Built
          <6>2. ~\E q \in Procs : At(q, "record") /\ First(q)
            BY <2>1, <5>4 DEF At, Active, First
          <6> QED BY <2>4, <3>1, <6>1, <6>2 DEF Trusted
        <5> QED BY <2>2, <3>1, <5>1, <5>2, <5>3, <5>4
      <4>2. Trusted' /\ Back' /\ ~unseen' => built = Clean
        BY <1>2, <2>0, <2>3, <2>4, <3>1, <4>1, BackIsClean DEF Carried
      <4> QED BY <1>0, <2>0, <2>3, <2>4, <3>1, <4>2 DEF Carried
    <3>2. CASE kind = "copied"
      <4>1. ~unseen => built = file /\ ~file.neut
        BY <2>0, <2>2, <3>2 DEF Built, At
      <4>2. Back' /\ ~unseen' => built = Clean
        BY <1>2, <2>0, <2>2, <2>4, <3>2, <4>1, BackIsClean
      <4>3. ~unseen' => built' = IF baseline'.fp = NoPrint THEN Clean ELSE baseline'.fp
        BY <1>0, <2>0, <2>4, <2>6, <4>1, Distinct DEF Fingerprint, Dirty
      <4> QED BY <1>0, <2>0, <3>2, <4>2, <4>3 DEF Carried
    <3> QED BY <1>0, <3>1, <3>2
  <2> QED BY <1>4, <2>5, <2>6 DEF Record
<1>5. ASSUME NEW p \in Procs, Link(p) PROVE Carried'
  <2>0. /\ UNCHANGED <<file, obj, objOld, baseline, unseen>> /\ At(p, "link") /\ Making(p)
        /\ ~run[p].sig /\ newer' = (newer /\ ~run[p].full)
        /\ built' = IF kind = "compiled" /\ run[p].full THEN obj ELSE built
        /\ run' = [run EXCEPT ![p].pc = "record"]
    BY <1>5 DEF Link, objdir, history, Making, At, Goto
  <2>1. Carried
    OBVIOUS
  <2>2. CASE kind = "copied"
    <3>1. At(p, "record")'
      BY <2>0 DEF At, TypeOK, Runs
    <3>2. ~Trusted'
      BY <1>0, <2>2, <3>1 DEF Trusted, At
    <3> QED BY <1>0, <2>2, <3>2 DEF Carried
  <2>3. CASE kind = "compiled" /\ ~run[p].full
    <3>1. Trusted' => Trusted
      BY <1>0, <2>0, <2>3 DEF Trusted, ControlBuilt, At, First, TypeOK, Runs
    <3> QED BY <1>0, <1>2, <2>0, <2>1, <2>3, <3>1 DEF Carried
  <2>4. CASE kind = "compiled" /\ run[p].full
    <3>1. ~unseen => ~objOld /\ obj = file
      BY <2>0, <2>4, <2>1 DEF Built, Carried
    <3>2. CASE First(p)
      <4>1. ~Trusted'
        <5>1. At(p, "record")' /\ First(p)'
          BY <2>0, <3>2 DEF At, First, TypeOK, Runs
        <5> QED BY <1>0, <2>4, <5>1 DEF Trusted
      <4> QED BY <1>0, <2>0, <2>1, <2>4, <3>1, <4>1 DEF Carried
    <3>3. CASE ~First(p)
      <4>1. ~unseen => ~file.neut
        BY <2>0, <2>4, <3>3 DEF Built, At
      <4>2. Back' /\ ~unseen' => file = Clean
        BY <1>2, <2>0, <3>3, <4>1, BackIsClean
      <4> QED BY <1>0, <2>0, <2>1, <2>4, <3>1, <4>2 DEF Carried
    <3> QED BY <3>2, <3>3
  <2> QED BY <1>0, <2>2, <2>3, <2>4
<1>6. ASSUME NEW p \in Procs, Compile(p) PROVE Carried'
  <2>0. /\ UNCHANGED <<file, newer, baseline>> /\ At(p, "compile")
        /\ built' = IF kind = "copied" THEN file ELSE built
        /\ obj' = IF kind = "compiled" /\ Reads(p) THEN file ELSE obj
        /\ objOld' = (objOld /\ ~run[p].full)
        /\ run' = [run EXCEPT ![p] = [@ EXCEPT !.pc = "link", !.about = file]]
    BY <1>6 DEF Compile
  <2>1. Carried
    OBVIOUS
  <2>2. CASE kind = "copied"
    <3>1. At(p, "link")'
      BY <2>0 DEF At, TypeOK, Runs
    <3>2. ~Trusted'
      BY <1>0, <2>2, <3>1 DEF Trusted, At
    <3> QED BY <1>0, <2>2, <3>2 DEF Carried
  <2>3. CASE kind = "compiled"
    <3>1. Trusted' => Trusted
      BY <1>0, <2>0, <2>3 DEF Trusted, ControlBuilt, At, First, TypeOK, Runs
    <3>2. ~objOld' => obj' = file
      BY <2>0, <2>1, <2>3 DEF Carried, Reads
    <3> QED BY <1>0, <1>2, <1>u, <2>0, <2>1, <2>3, <3>1, <3>2 DEF Carried
  <2> QED BY <1>0, <2>2, <2>3
<1>7. CASE Quiet /\ ~\E q \in Procs : Record(q)
  <2>1. Trusted' /\ ~unseen' => Trusted
    BY <1>3, <1>7
  <2>2. Carried
    OBVIOUS
  <2> QED BY <1>0, <1>2, <1>7, <1>u, <2>1, <2>2 DEF Carried, Quiet
<1> QED BY <1>4, <1>5, <1>6, <1>7, QuietStep

(* The same, at every point of a build.                                     *)
LEMMA BuiltStep ==
    ASSUME Bounds, TypeOK, Locked, Routed, Controlled, Journaled, Carried, Built, [Next]_vars
    PROVE  Built'
<1> USE DEF Built, Making, Active, Exclusive, First, ControlBuilt, Idle, At, Goto, source, objdir,
            history, bounds, Finish, Write, Overwrite
<1>0. /\ run \in [Procs -> Runs] /\ control \in [Procs -> Controls] /\ file \in Contents
      /\ kind \in {"compiled", "copied", "live"}
  BY DEF TypeOK
<1>a. \A p \in Procs : Active(p) /\ Exclusive(p) => \A q \in Procs : q # p => ~Active(q)
  BY Alone
<1>b. \A q \in Procs : ~Active(q) => control[q].step = "none" /\ ~control[q].own
  BY <1>0 DEF Controlled, Active, Controls, Routed
<1>k. kind' = kind /\ (~unseen' => ~unseen)
  BY KindKept
<1>1. ASSUME NEW p \in Procs, Enter(p) PROVE Built'
  BY <1>1, <1>0, <1>a, <1>b, <1>k DEF Enter, Runs, Routed
<1>2. ASSUME NEW p \in Procs, Recover(p) PROVE Built'
  <2>0. ~unseen' => ~unseen
    BY <1>k
  <2>1. UNCHANGED <<file, built, obj, newer, objOld, baseline, kind>> /\ Active(p)
    BY <1>2, <1>k DEF Recover
  <2>2. CASE \E x \in {"gate", "prepare", "recovering"} : run' = [run EXCEPT ![p].pc = x]
    BY <1>0, <2>0, <2>1, <2>2 DEF Runs
  <2>3. CASE ~\E x \in {"gate", "prepare", "recovering"} : run' = [run EXCEPT ![p].pc = x]
    <3>1. run[p].cmd = "testbuild"
      BY <1>2, <2>3 DEF Recover
    <3>2. PICK b : /\ run' = [run EXCEPT ![p] = [@ EXCEPT !.pc = "compile", !.full = b]]
                   /\ ~b => (~newer \/ file = Clean \/ kind # "compiled") /\ ~ControlBuilt
      BY <1>2, <2>3 DEF Recover, Dirty
    <3>3. \A q \in Procs : q # p => ~Active(q)
      BY <1>a, <2>1, <3>1
    <3>4. ~unseen /\ kind = "compiled" /\ ~b => built = file
      <4>1. CASE newer
        <5>1. ~b /\ kind = "compiled" => Back /\ Trusted
          BY <1>2, <3>2, <3>3, <4>1 DEF Back, Trusted, Recover
        <5> QED BY <3>2, <4>1, <5>1 DEF Carried
      <4>2. CASE ~newer
        BY <4>2 DEF Carried
      <4> QED BY <4>1, <4>2
    <3>5. /\ run'[p] = [run[p] EXCEPT !.pc = "compile", !.full = b]
          /\ \A q \in Procs : q # p => run'[q].pc \in {"idle", "lock"}
      BY <1>0, <3>2, <3>3
    <3>6. ~run[p].again
      BY <1>2 DEF Recover, Routed
    <3> QED BY <1>0, <2>0, <2>1, <3>1, <3>2, <3>4, <3>5, <3>6 DEF Runs
  <2> QED BY <2>2, <2>3
<1>3. ASSUME NEW p \in Procs, Recovered(p) PROVE Built'
  BY <1>3, <1>0, <1>a, <1>b, <1>k DEF Recovered, Runs, Routed
<1>4. ASSUME NEW p \in Procs, Look(p) PROVE Built'
  BY <1>4, <1>0, <1>a, <1>b, <1>k DEF Look, Runs, Routed
<1>5. ASSUME NEW p \in Procs, Put(p) PROVE Built'
  <2>1. UNCHANGED <<run, built, obj, baseline, kind>>
    BY <1>5, <1>k DEF Put
  <2>2. Active(p)
    BY <1>5, <1>b DEF Put
  <2>3. \A q \in Procs : Making(q) => q = p /\ Exclusive(q)
    BY <1>0, <1>a, <2>2 DEF Routed, Runs, Commands
  <2>4. Making(p) => First(p) /\ run[p].sig
    BY <1>5, <1>0 DEF Put, Controlled, Controls
  <2>5. \A q \in Procs : Making(q) => First(q) /\ run[q].sig
    BY <2>3, <2>4
  <2>6. \A q \in Procs : Making(q) => kind = "compiled"
    BY <2>5 DEF Routed
  <2> QED BY <1>0, <1>k, <2>1, <2>5, <2>6
<1>6. ASSUME NEW p \in Procs, Remove(p) PROVE Built'
  BY <1>6, <1>0, <1>a, <1>b, <1>k DEF Remove, Runs, Routed
<1>7. ASSUME NEW p \in Procs, Prepare(p) PROVE Built'
  <2>1. CASE Finish(p)
    BY <1>7, <1>0, <1>a, <1>k, <2>1 DEF Prepare, Runs, Routed
  <2>2. CASE ~Finish(p)
    <3>1. PICK x : /\ run' = [run EXCEPT ![p] = [@ EXCEPT !.seen = x, !.pc = "journal"]]
               /\ x = file
      BY <1>7, <2>2 DEF Prepare
    <3>2. At(p, "prepare") /\ ~file.neut
            /\ UNCHANGED <<source, objdir, journal, lock, control, history, bounds>>
      BY <1>7, <2>2 DEF Prepare
    <3> QED BY <1>0, <1>a, <1>k, <3>1, <3>2 DEF Runs, Routed
  <2> QED BY <2>1, <2>2
<1>8. ASSUME NEW p \in Procs, WriteJournal(p) PROVE Built'
  BY <1>8, <1>0, <1>a, <1>b, <1>k DEF WriteJournal, Runs, Routed
<1>9. ASSUME NEW p \in Procs, Mutate(p) PROVE Built'
  <2>1. \A q \in Procs : q # p => ~Active(q)
    BY <1>9, <1>0, <1>a DEF Mutate, Routed
  <2>2. PICK x \in {"compile", "snapshot"}, b \in BOOLEAN :
             /\ run' = [run EXCEPT ![p] = [@ EXCEPT !.pc = x, !.full = b]] /\ (x = "compile" => b)
    BY <1>9 DEF Mutate
  <2>3. file'.neut
    BY <1>9, <1>0, NeuterTyped DEF Mutate, Runs
  <2>4. /\ run'[p] = [run[p] EXCEPT !.pc = x, !.full = b]
        /\ \A q \in Procs : q # p => run'[q].pc \in {"idle", "lock"}
    BY <1>0, <2>1, <2>2
  <2>5. run[p].cmd = "control" /\ ~run[p].again
    BY <1>9 DEF Mutate, Routed
  <2> QED BY <1>0, <2>2, <2>3, <2>4, <2>5 DEF Runs
<1>10. ASSUME NEW p \in Procs, MutateFails(p) PROVE Built'
  BY <1>10, <1>0, <1>a, <1>b, <1>k DEF MutateFails, Runs, Routed
<1>11. ASSUME NEW p \in Procs, Compile(p) PROVE Built'
  <2>0. ~unseen' => ~unseen
    BY <1>k
  <2>1. \A q \in Procs : q # p => ~Active(q)
    BY <1>11, <1>0, <1>a DEF Compile, Routed, Runs, Commands
  <2>2. /\ run' = [run EXCEPT ![p] = [@ EXCEPT !.pc = "link", !.about = file]] /\ At(p, "compile")
        /\ UNCHANGED <<file, baseline, kind>> /\ objOld' = (objOld /\ ~run[p].full)
        /\ ~run[p].sig
    BY <1>11, <1>k DEF Compile
  <2>3. /\ run'[p] = [run[p] EXCEPT !.pc = "link", !.about = file]
        /\ \A q \in Procs : q # p => run'[q].pc \in {"idle", "lock"}
    BY <1>0, <2>1, <2>2
  <2>4. ~unseen' /\ (kind = "copied" \/ (kind = "compiled" /\ run[p].full))
          /\ ~First(p) => ~file.neut
    <3>1. CASE run[p].cmd = "control"
      BY <1>11, <3>1 DEF Compile, Controlled, Journaled, BytesKept
    <3>2. CASE run[p].cmd # "control"
      BY <1>11, <3>2 DEF Compile
    <3> QED BY <3>1, <3>2
  <2>5. kind = "copied" => built' = file
    BY <1>11 DEF Compile
  <2>6. kind = "compiled" => built' = built
    BY <1>11 DEF Compile
  <2>7. First(p) /\ ~unseen => file.neut
    BY <2>2
  <2>8. ~unseen /\ kind = "compiled" /\ run[p].cmd = "testbuild" /\ ~run[p].full => built = file
          /\ ~ControlBuilt
    BY <2>2
  <2> QED BY <1>0, <2>0, <2>2, <2>3, <2>4, <2>5, <2>6, <2>7, <2>8 DEF Runs
<1>12. ASSUME NEW p \in Procs, Link(p) PROVE Built'
  <2>0. ~unseen' => ~unseen
    BY <1>k
  <2>1. \A q \in Procs : q # p => ~Active(q)
    BY <1>12, <1>0, <1>a DEF Link, Routed, Runs, Commands
  <2>2. /\ run' = [run EXCEPT ![p].pc = "record"] /\ At(p, "link")
        /\ UNCHANGED <<file, obj, objOld, baseline, kind>> /\ ~run[p].sig
        /\ built' = IF kind = "compiled" /\ run[p].full THEN obj ELSE built
    BY <1>12, <1>k DEF Link
  <2>3. /\ run'[p] = [run[p] EXCEPT !.pc = "record"]
        /\ \A q \in Procs : q # p => run'[q].pc \in {"idle", "lock"}
    BY <1>0, <2>1, <2>2
  <2>4. ~unseen /\ kind = "compiled" /\ run[p].full => built' = file /\ file = run[p].about
    BY <2>2 DEF Carried
  <2>5. ~unseen /\ kind = "compiled" /\ ~run[p].full /\ run[p].cmd = "testbuild" =>
            built' = run[p].about /\ ~ControlBuilt
    BY <2>2
  <2>6. ~unseen /\ kind = "copied" => built' = file /\ built' = run[p].about
    BY <2>2
  <2>7. ~unseen /\ (kind = "copied" \/ (kind = "compiled" /\ run[p].full))
          /\ ~First(p) => ~file.neut
    BY <2>2
  <2>8. ~unseen /\ First(p) => run[p].about.neut /\ run[p].full /\ kind = "compiled"
    BY <2>2 DEF Routed
  <2>9. run[p].cmd = "control" => run[p].full /\ kind = "compiled"
    BY <2>2 DEF Routed
  <2> QED BY <1>0, <2>0, <2>2, <2>3, <2>4, <2>5, <2>6, <2>7, <2>8, <2>9 DEF Runs
<1>13. ASSUME NEW p \in Procs, BuildFails(p) PROVE Built'
  <2>1. CASE Finish(p)
    BY <1>13, <1>0, <1>a, <1>k, <2>1 DEF BuildFails, Runs
  <2>2. CASE First(p) /\ Goto(p, "restore") /\ UNCHANGED <<lock, control>>
    BY <1>13, <1>0, <1>a, <1>k, <2>2 DEF BuildFails, First, Runs
  <2> QED BY <1>13, <2>1, <2>2, Continued DEF BuildFails
<1>14. ASSUME NEW p \in Procs, Record(p) PROVE Built'
  <2>1. CASE Finish(p)
    BY <1>14, <1>0, <1>a, <1>k, <2>1 DEF Record, Runs
  <2>2. CASE run[p].cmd \notin {"build", "ui"} /\ ~run[p].again /\ Goto(p, "snapshot")
               /\ UNCHANGED <<lock, control>>
    BY <1>14, <1>0, <1>a, <1>k, <2>2 DEF Record, First, Runs
  <2> QED BY <1>14, <2>1, <2>2, Continued DEF Record
<1>15. ASSUME NEW p \in Procs, Gate(p) PROVE Built'
  <2>1. CASE Finish(p)
    BY <1>15, <1>0, <1>a, <1>k, <2>1 DEF Gate, Runs, Routed
  <2>2. CASE ~Finish(p)
    <3>1. PICK x \in {"prepare", "snapshot"}, b \in {baseline.there}, c \in {file} :
               /\ run' = [run EXCEPT ![p] = [@ EXCEPT !.about = c, !.based = b, !.pc = x]]
               /\ c = file /\ b = baseline.there /\ (x = "prepare" <=> run[p].cmd = "control")
      BY <1>15, <2>2 DEF Gate
    <3>2. At(p, "gate") /\ ~(StalePackage \/ StaleCompiled \/ ControlBuilt)
            /\ UNCHANGED <<source, objdir, journal, lock, control, history, bounds>>
      BY <1>15, <2>2 DEF Gate
    <3> QED BY <1>0, <1>a, <1>k, <3>1, <3>2 DEF Runs, Routed
  <2> QED BY <2>1, <2>2
<1>16. ASSUME NEW p \in Procs, Snapshot(p) PROVE Built'
  BY <1>16, <1>0, <1>a, <1>b, <1>k DEF Snapshot, Runs, Routed
<1>17. ASSUME NEW p \in Procs, Dispatch(p) PROVE Built'
  BY <1>17, <1>0, <1>a, <1>b, <1>k DEF Dispatch, Runs, Routed
<1>18. ASSUME NEW p \in Procs, Verify(p) PROVE Built'
  BY <1>18, <1>0, <1>a, <1>b, <1>k DEF Verify, Runs, Routed
<1>19. ASSUME NEW p \in Procs, BeginRestore(p) PROVE Built'
  BY <1>19, <1>0, <1>a, <1>b, <1>k DEF BeginRestore, Runs, Routed
<1>20. ASSUME NEW p \in Procs, Restored(p) PROVE Built'
  <2>1. CASE Finish(p)
    BY <1>20, <1>0, <1>a, <1>k, <2>1 DEF Restored, Runs, Routed
  <2>2. CASE ~Finish(p)
    <3>1. PICK x :
              /\ run' = [run EXCEPT ![p] = [@ EXCEPT !.pc = x, !.full = TRUE, !.again = TRUE]]
              /\ x = "compile"
      BY <1>20, <2>2 DEF Restored
    <3>2. At(p, "restore") /\ control[p].step = "done" /\ ~run[p].sig /\ baseline.stamp = p
            /\ UNCHANGED <<source, objdir, journal, lock, control, history, bounds>>
      BY <1>20, <2>2 DEF Restored
    <3> QED BY <1>0, <1>a, <1>k, <3>1, <3>2 DEF Runs, Routed
  <2> QED BY <2>1, <2>2
<1>21. ASSUME NEW p \in Procs, Exit(p) PROVE Built'
  BY <1>21, <1>0, <1>a, <1>b, <1>k DEF Exit, Runs, Routed
<1>22. ASSUME NEW p \in Procs, Signal(p) PROVE Built'
  BY <1>22, <1>0, <1>a, <1>b, <1>k DEF Signal, Runs, Routed
<1>23. ASSUME NEW p \in Procs, Kill(p) PROVE Built'
  BY <1>23, <1>0, <1>a, <1>b, <1>k DEF Kill, Runs, Routed
<1>24. ASSUME NEW p \in Procs, NEW c \in Commands, Start(p, c) PROVE Built'
  BY <1>24, <1>0, <1>a, <1>b, <1>k DEF Start, Runs, Routed
<1>25. CASE Edit
  <2>0. UNCHANGED <<run, built, baseline, kind>> /\ (~unseen' => ~unseen)
    BY <1>25, <1>k DEF Edit
  <2>1. Unseen(file') => unseen'
    BY <1>25 DEF Edit
  <2>2. ~unseen' => \A q \in Procs :
            /\ run[q].pc \notin {"link", "record"}
            /\ At(q, "compile") /\ kind = "compiled" => run[q].full
            /\ At(q, "compile") /\ file.neut => file'.neut
    BY <2>1 DEF Unseen
  <2> QED BY <1>0, <2>0, <2>2
<1>26. CASE UNCHANGED vars
  BY <1>26 DEF vars
<1> QED BY <1>1, <1>2, <1>3, <1>4, <1>5, <1>6, <1>7, <1>8, <1>9, <1>10, <1>11, <1>12, <1>13, <1>14,
           <1>15, <1>16, <1>17, <1>18, <1>19, <1>20, <1>21, <1>22, <1>23, <1>24, <1>25, <1>26 DEF
           Next, Step

(* What a run tests is what it says it tests.                               *)
LEMMA TestedStep ==
    ASSUME Bounds, TypeOK, Locked, Routed, Controlled, Journaled, Carried, Built, Tested,
           [Next]_vars
    PROVE  Tested'
<1> USE DEF Tested, Active, Exclusive, Idle, At, Goto, source, objdir, history, bounds, Finish,
            Write, Overwrite
<1>0. /\ run \in [Procs -> Runs] /\ control \in [Procs -> Controls] /\ file \in Contents
      /\ kind \in {"compiled", "copied", "live"}
  BY DEF TypeOK
<1>a. \A p \in Procs : Active(p) /\ Exclusive(p) => \A q \in Procs : q # p => ~Active(q)
  BY Alone
<1>b. \A q \in Procs : ~Active(q) => control[q].step = "none" /\ ~control[q].own
  BY <1>0 DEF Controlled, Active, Controls, Routed
<1>k. kind' = kind /\ (~unseen' => ~unseen)
  BY KindKept
<1>1. ASSUME NEW p \in Procs, Enter(p) PROVE Tested'
  BY <1>1, <1>0, <1>a, <1>b, <1>k DEF Enter, Runs, Routed
<1>2. ASSUME NEW p \in Procs, Recover(p) PROVE Tested'
  <2>1. /\ At(p, "recover")
        /\ UNCHANGED <<source, objdir, journal, lock, history, bounds>>
    BY <1>2 DEF Recover
  <2>2. CASE journal # NoJournal
    BY <1>2, <1>0, <1>a, <1>k, <2>2 DEF Recover, Runs
  <2>3. CASE journal = NoJournal /\ run[p].cmd \in {"test", "shared", "control"}
    <3>1. PICK x \in {"gate", "prepare"} :
             /\ run' = [run EXCEPT ![p].pc = x] /\ UNCHANGED control
             /\ x = "prepare" <=> run[p].cmd = "control" /\ kind = "compiled"
      BY <1>2, <2>3 DEF Recover
    <3> QED BY <1>0, <1>a, <1>k, <2>1, <2>3, <3>1 DEF Runs
  <2>4. CASE journal = NoJournal /\ run[p].cmd = "testbuild"
    <3>1. PICK b : /\ run' = [run EXCEPT ![p] = [@ EXCEPT !.pc = "compile", !.full = b]]
                   /\ UNCHANGED control
      BY <1>2, <2>4 DEF Recover
    <3> QED BY <1>0, <1>a, <1>k, <2>1, <2>4, <3>1 DEF Runs
  <2> QED BY <1>2, <2>2, <2>3, <2>4 DEF Recover
<1>3. ASSUME NEW p \in Procs, Recovered(p) PROVE Tested'
  BY <1>3, <1>0, <1>a, <1>b, <1>k DEF Recovered, Runs, Routed
<1>4. ASSUME NEW p \in Procs, Look(p) PROVE Tested'
  BY <1>4, <1>0, <1>a, <1>b, <1>k DEF Look, Runs, Routed
<1>5. ASSUME NEW p \in Procs, Put(p) PROVE Tested'
  <2>1. UNCHANGED <<run, built, kind>>
    BY <1>5, <1>k DEF Put
  <2>2. CASE journal = NoJournal
    BY <1>5, <1>k, <2>1, <2>2 DEF Put
  <2>3. CASE journal # NoJournal
    <3>1. Active(p)
      BY <1>5, <1>b DEF Put
    <3>2. ASSUME NEW q \in Procs, run[q].pc \in {"snapshot", "dispatch", "verify"} PROVE run[q].sig
      <4>1. run[q].cmd = "control"
        BY <1>0, <2>3, <3>2 DEF Journaled, Routed, Runs, Commands, Making
      <4>2. q = p
        BY <1>a, <3>1, <3>2, <4>1
      <4>3. First(p)
        BY <3>2, <4>1, <4>2 DEF First, Routed, Making
      <4> QED BY <1>5, <3>2, <4>2, <4>3 DEF Put, Controlled
    <3> QED BY <1>k, <2>1, <3>2
  <2> QED BY <2>2, <2>3
<1>6. ASSUME NEW p \in Procs, Remove(p) PROVE Tested'
  BY <1>6, <1>0, <1>a, <1>b, <1>k DEF Remove, Runs, Routed
<1>7. ASSUME NEW p \in Procs, Prepare(p) PROVE Tested'
  <2>1. CASE Finish(p)
    BY <1>7, <1>0, <1>a, <1>k, <2>1 DEF Prepare, Runs, Routed
  <2>2. CASE ~Finish(p)
    <3>1. PICK x : /\ run' = [run EXCEPT ![p] = [@ EXCEPT !.seen = x, !.pc = "journal"]]
               /\ x = file
      BY <1>7, <2>2 DEF Prepare
    <3>2. At(p, "prepare") /\ ~file.neut
            /\ UNCHANGED <<source, objdir, journal, lock, control, history, bounds>>
      BY <1>7, <2>2 DEF Prepare
    <3> QED BY <1>0, <1>a, <1>k, <3>1, <3>2 DEF Runs, Routed
  <2> QED BY <2>1, <2>2
<1>8. ASSUME NEW p \in Procs, WriteJournal(p) PROVE Tested'
  BY <1>8, <1>0, <1>a, <1>b, <1>k DEF WriteJournal, Runs, Routed
<1>9. ASSUME NEW p \in Procs, Mutate(p) PROVE Tested'
  <2>1. \A q \in Procs \ {p} : ~Active(q)
    BY <1>9, <1>0, <1>a DEF Mutate, Routed
  <2>2. PICK x \in {"compile", "snapshot"}, b \in BOOLEAN :
             /\ run' = [run EXCEPT ![p] = [@ EXCEPT !.pc = x, !.full = b]]
             /\ (x = "snapshot" => kind # "compiled")
    BY <1>9 DEF Mutate
  <2>3. file'.neut /\ run[p].cmd = "control"
    BY <1>9, <1>0, NeuterTyped DEF Mutate, Runs, Routed
  <2>4. /\ run'[p].pc = x /\ run'[p].cmd = "control"
        /\ \A q \in Procs \ {p} : run'[q].pc \in {"idle", "lock"}
    BY <1>0, <2>1, <2>2, <2>3 DEF Runs
  <2> QED BY <1>0, <1>k, <2>2, <2>3, <2>4
<1>10. ASSUME NEW p \in Procs, MutateFails(p) PROVE Tested'
  BY <1>10, <1>0, <1>a, <1>b, <1>k DEF MutateFails, Runs, Routed
<1>11. ASSUME NEW p \in Procs, Compile(p) PROVE Tested'
  <2>1. At(p, "compile") /\ run[p].cmd # "shared"
    BY <1>11 DEF Compile, Routed, Making
  <2>2. run' = [run EXCEPT ![p] = [@ EXCEPT !.pc = "link", !.about = file]]
    BY <1>11 DEF Compile
  <2>3. \A q \in Procs : run'[q].pc \in {"idle", "lock", "link"}
    BY <1>0, <1>a, <2>1, <2>2 DEF Runs
  <2> QED BY <2>3
<1>12. ASSUME NEW p \in Procs, Link(p) PROVE Tested'
  <2>1. At(p, "link") /\ run[p].cmd # "shared"
    BY <1>12 DEF Link, Routed, Making
  <2>2. run' = [run EXCEPT ![p].pc = "record"]
    BY <1>12 DEF Link
  <2>3. \A q \in Procs : run'[q].pc \in {"idle", "lock", "record"}
    BY <1>0, <1>a, <2>1, <2>2 DEF Runs
  <2> QED BY <2>3
<1>13. ASSUME NEW p \in Procs, BuildFails(p) PROVE Tested'
  <2>1. CASE Finish(p)
    BY <1>13, <1>0, <1>a, <1>k, <2>1 DEF BuildFails, Runs
  <2>2. CASE First(p) /\ Goto(p, "restore") /\ UNCHANGED <<lock, control>>
    BY <1>13, <1>0, <1>a, <1>k, <2>2 DEF BuildFails, First, Runs
  <2> QED BY <1>13, <2>1, <2>2, Continued DEF BuildFails
<1>14. ASSUME NEW p \in Procs, Record(p) PROVE Tested'
  <2>1. CASE Finish(p)
    BY <1>14, <1>0, <1>a, <1>k, <2>1 DEF Record, Runs
  <2>2. CASE run[p].cmd \notin {"build", "ui"} /\ ~run[p].again /\ Goto(p, "snapshot")
               /\ UNCHANGED <<lock, control>>
    <3>1. /\ At(p, "record") /\ UNCHANGED <<file, built, kind>> /\ (~unseen' => ~unseen)
          /\ run[p].cmd \in {"testbuild", "control"}
      BY <1>14, <1>0, <1>k, <2>2 DEF Record, Runs, Routed, Commands, Making
    <3>2. \A q \in Procs \ {p} : ~Active(q)
      BY <1>a, <3>1
    <3>3. /\ run'[p] = [run[p] EXCEPT !.pc = "snapshot"]
          /\ \A q \in Procs \ {p} : run'[q].pc \in {"idle", "lock"}
      BY <1>0, <2>2, <3>2
    <3>4. run[p].cmd = "control" => First(p) /\ kind = "compiled"
      BY <2>2, <3>1 DEF First, Routed, Making
    <3>5. ~unseen => /\ kind \in {"compiled", "copied"} => built = run[p].about
                     /\ run[p].cmd = "control" => run[p].about.neut
      BY <2>2, <3>1, <3>4 DEF Built
    <3> QED BY <1>0, <3>1, <3>3, <3>4, <3>5 DEF Runs
  <2> QED BY <1>14, <2>1, <2>2, Continued DEF Record
<1>15. ASSUME NEW p \in Procs, Gate(p) PROVE Tested'
  <2>1. CASE Finish(p)
    BY <1>15, <1>0, <1>a, <1>k, <2>1 DEF Gate, Runs
  <2>2. CASE ~Finish(p)
    <3>1. PICK x \in {"prepare", "snapshot"}, b \in {baseline.there}, c \in {file} :
               /\ run' = [run EXCEPT ![p] = [@ EXCEPT !.about = c, !.based = b, !.pc = x]]
               /\ c = file /\ b = baseline.there /\ (x = "prepare" <=> run[p].cmd = "control")
      BY <1>15, <2>2 DEF Gate
    <3>2. /\ At(p, "gate") /\ ~StalePackage /\ ~StaleCompiled /\ ~ControlBuilt
          /\ UNCHANGED <<source, objdir, journal, lock, control, history, bounds>>
      BY <1>15, <2>2 DEF Gate
    <3>3. \A q \in Procs : ~Making(q)
      BY <1>0, <1>a, <3>2 DEF Making, Routed
    <3>4. kind = "compiled" => Trusted
      BY <3>2, <3>3 DEF Trusted, Making
    <3>5. kind = "copied" /\ baseline.there => Trusted
      BY <3>2, <3>3 DEF Trusted, Making
    <3>6. file = Clean => Back
      BY DEF Back
    <3>7. ~unseen /\ kind = "compiled" => built = file
      BY <3>2, <3>4, <3>6 DEF Carried, StaleCompiled, Dirty
    <3>8. ~unseen /\ kind = "copied" /\ baseline.there => built = file
      BY <1>0, <3>2, <3>5, <3>6, Distinct DEF Carried, StalePackage, Dirty
    <3>9. run[p].cmd = "control" => x = "prepare"
      BY <3>1
    <3>10. /\ run'[p].pc = x /\ run'[p].about = file /\ run'[p].based = baseline.there
           /\ run'[p].cmd = run[p].cmd /\ run[p].cmd # "testbuild"
           /\ \A q \in Procs \ {p} : run'[q] = run[q]
      BY <1>0, <3>1, <3>2 DEF Runs, Routed
    <3> QED BY <1>k, <3>2, <3>7, <3>8, <3>9, <3>10
  <2> QED BY <2>1, <2>2
<1>16. ASSUME NEW p \in Procs, Snapshot(p) PROVE Tested'
  <2> DEFINE b == Dirty(file)
              d == run[p].based \/ run[p].cmd \notin {"test", "shared"}
              c == IF kind = "live" THEN file ELSE run[p].about
  <2>1. run' = [run EXCEPT ![p] = [@ EXCEPT !.status = b, !.pc = "dispatch", !.about = c, !.based = d]]
    BY <1>16 DEF Snapshot
  <2>2. At(p, "snapshot") /\ UNCHANGED <<source, objdir, journal, lock, control, history, bounds>>
    BY <1>16 DEF Snapshot
  <2>3. d /\ run[p].cmd # "control" => run[p].based \/ run[p].cmd = "testbuild"
    BY <1>0, <2>2 DEF Routed, Making, Runs, Commands
  <2>4. (kind = "live" => c = file) /\ (kind # "live" => c = run[p].about)
    OBVIOUS
  <2>5. b = Dirty(file)
    OBVIOUS
  <2> HIDE DEF b, c, d
  <2>6. /\ run'[p].pc = "dispatch" /\ run'[p].about = c /\ run'[p].based = d /\ run'[p].status = b
        /\ run'[p].cmd = run[p].cmd /\ run'[p].sig = run[p].sig
        /\ \A q \in Procs \ {p} : run'[q] = run[q]
    BY <1>0, <2>1 DEF Runs
  <2> QED BY <1>k, <2>2, <2>3, <2>4, <2>5, <2>6
<1>17. ASSUME NEW p \in Procs, Dispatch(p) PROVE Tested'
  <2> DEFINE c == IF kind = "live" THEN file ELSE built
  <2>1. run' = [run EXCEPT ![p] = [@ EXCEPT !.tested = c, !.pc = "verify"]]
    BY <1>17 DEF Dispatch
  <2>2. At(p, "dispatch") /\ UNCHANGED <<source, objdir, journal, lock, control, history, bounds>>
    BY <1>17 DEF Dispatch
  <2>3. (kind = "live" => c = file) /\ (kind # "live" => c = built)
    OBVIOUS
  <2> HIDE DEF c
  <2>4. /\ run'[p].pc = "verify" /\ run'[p].tested = c
        /\ run'[p].about = run[p].about /\ run'[p].based = run[p].based
        /\ run'[p].status = run[p].status /\ run'[p].cmd = run[p].cmd /\ run'[p].sig = run[p].sig
        /\ \A q \in Procs \ {p} : run'[q] = run[q]
    BY <1>0, <2>1 DEF Runs
  <2> QED BY <1>k, <2>2, <2>3, <2>4
<1>18. ASSUME NEW p \in Procs, Verify(p) PROVE Tested'
  BY <1>18, <1>0, <1>a, <1>b, <1>k DEF Verify, Runs, Routed
<1>19. ASSUME NEW p \in Procs, BeginRestore(p) PROVE Tested'
  BY <1>19, <1>0, <1>a, <1>b, <1>k DEF BeginRestore, Runs, Routed
<1>20. ASSUME NEW p \in Procs, Restored(p) PROVE Tested'
  <2>1. CASE Finish(p)
    BY <1>20, <1>0, <1>a, <1>k, <2>1 DEF Restored, Runs, Routed
  <2>2. CASE ~Finish(p)
    <3>1. PICK x :
              /\ run' = [run EXCEPT ![p] = [@ EXCEPT !.pc = x, !.full = TRUE, !.again = TRUE]]
              /\ x = "compile"
      BY <1>20, <2>2 DEF Restored
    <3>2. At(p, "restore") /\ control[p].step = "done" /\ ~run[p].sig /\ baseline.stamp = p
            /\ UNCHANGED <<source, objdir, journal, lock, control, history, bounds>>
      BY <1>20, <2>2 DEF Restored
    <3> QED BY <1>0, <1>a, <1>k, <3>1, <3>2 DEF Runs, Routed
  <2> QED BY <2>1, <2>2
<1>21. ASSUME NEW p \in Procs, Exit(p) PROVE Tested'
  BY <1>21, <1>0, <1>a, <1>b, <1>k DEF Exit, Runs, Routed
<1>22. ASSUME NEW p \in Procs, Signal(p) PROVE Tested'
  BY <1>22, <1>0, <1>a, <1>b, <1>k DEF Signal, Runs, Routed
<1>23. ASSUME NEW p \in Procs, Kill(p) PROVE Tested'
  BY <1>23, <1>0, <1>a, <1>b, <1>k DEF Kill, Runs, Routed
<1>24. ASSUME NEW p \in Procs, NEW c \in Commands, Start(p, c) PROVE Tested'
  BY <1>24, <1>0, <1>a, <1>b, <1>k DEF Start, Runs, Routed
<1>25. CASE Edit
  <2>1. UNCHANGED <<run, built, kind>> /\ (~unseen' => ~unseen)
    BY <1>25, <1>k DEF Edit
  <2>2. Unseen(file') => unseen'
    BY <1>25 DEF Edit
  <2>3. ~unseen' => \A q \in Procs :
            /\ run[q].pc \in {"dispatch", "verify"} /\ kind = "live" => run[q].status # Dirty(file')
            /\ At(q, "snapshot") /\ file.neut => file'.neut
    BY <2>2 DEF Unseen
  <2> QED BY <2>1, <2>3
<1>26. CASE UNCHANGED vars
  BY <1>26 DEF vars
<1> QED BY <1>1, <1>2, <1>3, <1>4, <1>5, <1>6, <1>7, <1>8, <1>9, <1>10, <1>11, <1>12, <1>13, <1>14,
           <1>15, <1>16, <1>17, <1>18, <1>19, <1>20, <1>21, <1>22, <1>23, <1>24, <1>25, <1>26 DEF
           Next, Step

(* A verdict is about what was tested.                                      *)
LEMMA VerdictStep ==
    ASSUME Bounds, TypeOK, Tested, VerdictTrue, [Next]_vars
    PROVE  VerdictTrue'
<1> USE DEF VerdictTrue, At, Goto, source, objdir, history, bounds, Finish, Write, Overwrite
<1>0. kind \in {"compiled", "copied", "live"}
  BY DEF TypeOK
<1>k. kind' = kind /\ (~unseen' => ~unseen)
  BY KindKept
<1>1. ASSUME NEW p \in Procs, Enter(p) PROVE VerdictTrue'
  BY <1>1, <1>k DEF Enter, TypeOK
<1>2. ASSUME NEW p \in Procs, Recover(p) PROVE VerdictTrue'
  BY <1>2, <1>k DEF Recover, TypeOK
<1>3. ASSUME NEW p \in Procs, Recovered(p) PROVE VerdictTrue'
  BY <1>3, <1>k DEF Recovered, TypeOK
<1>4. ASSUME NEW p \in Procs, Look(p) PROVE VerdictTrue'
  BY <1>4, <1>k DEF Look, TypeOK
<1>5. ASSUME NEW p \in Procs, Put(p) PROVE VerdictTrue'
  BY <1>5, <1>k DEF Put, TypeOK
<1>6. ASSUME NEW p \in Procs, Remove(p) PROVE VerdictTrue'
  BY <1>6, <1>k DEF Remove, TypeOK
<1>7. ASSUME NEW p \in Procs, Prepare(p) PROVE VerdictTrue'
  BY <1>7, <1>k DEF Prepare, TypeOK
<1>8. ASSUME NEW p \in Procs, WriteJournal(p) PROVE VerdictTrue'
  BY <1>8, <1>k DEF WriteJournal, TypeOK
<1>9. ASSUME NEW p \in Procs, Mutate(p) PROVE VerdictTrue'
  BY <1>9, <1>k DEF Mutate, TypeOK
<1>10. ASSUME NEW p \in Procs, MutateFails(p) PROVE VerdictTrue'
  BY <1>10, <1>k DEF MutateFails, TypeOK
<1>11. ASSUME NEW p \in Procs, Compile(p) PROVE VerdictTrue'
  BY <1>11, <1>k DEF Compile, TypeOK
<1>12. ASSUME NEW p \in Procs, Link(p) PROVE VerdictTrue'
  BY <1>12, <1>k DEF Link, TypeOK
<1>13. ASSUME NEW p \in Procs, BuildFails(p) PROVE VerdictTrue'
  BY <1>13, <1>k DEF BuildFails, TypeOK
<1>14. ASSUME NEW p \in Procs, Record(p) PROVE VerdictTrue'
  BY <1>14, <1>k DEF Record, TypeOK
<1>15. ASSUME NEW p \in Procs, Gate(p) PROVE VerdictTrue'
  BY <1>15, <1>k DEF Gate, TypeOK
<1>16. ASSUME NEW p \in Procs, Snapshot(p) PROVE VerdictTrue'
  BY <1>16, <1>k DEF Snapshot, TypeOK
<1>17. ASSUME NEW p \in Procs, Dispatch(p) PROVE VerdictTrue'
  BY <1>17, <1>k DEF Dispatch, TypeOK
<1>18. ASSUME NEW p \in Procs, Verify(p) PROVE VerdictTrue'
  <2>1. CASE verdict' = verdict
    BY <1>k, <2>1 DEF VerdictTrue
  <2>2. CASE verdict' # verdict
    <3>1. /\ At(p, "verify") /\ Unmoved(p) /\ ~run[p].sig
          /\ verdict' = [there |-> TRUE, tested |-> run[p].tested, about |-> run[p].about,
                         ctl |-> run[p].cmd = "control", based |-> run[p].based]
      BY <1>18, <2>2 DEF Verify
    <3>2. CASE kind = "compiled"
      BY <1>k, <3>1, <3>2 DEF Tested, VerdictTrue
    <3>3. CASE kind = "copied"
      BY <1>k, <3>1, <3>3 DEF Tested, VerdictTrue
    <3>4. CASE kind = "live"
      BY <1>k, <3>1, <3>4 DEF Tested, VerdictTrue, Unmoved
    <3> QED BY <1>0, <3>2, <3>3, <3>4
  <2> QED BY <2>1, <2>2
<1>19. ASSUME NEW p \in Procs, BeginRestore(p) PROVE VerdictTrue'
  BY <1>19, <1>k DEF BeginRestore, TypeOK
<1>20. ASSUME NEW p \in Procs, Restored(p) PROVE VerdictTrue'
  BY <1>20, <1>k DEF Restored, TypeOK
<1>21. ASSUME NEW p \in Procs, Exit(p) PROVE VerdictTrue'
  BY <1>21, <1>k DEF Exit, TypeOK
<1>22. ASSUME NEW p \in Procs, Signal(p) PROVE VerdictTrue'
  BY <1>22, <1>k DEF Signal, TypeOK
<1>23. ASSUME NEW p \in Procs, Kill(p) PROVE VerdictTrue'
  BY <1>23, <1>k DEF Kill, TypeOK
<1>24. ASSUME NEW p \in Procs, NEW c \in Commands, Start(p, c) PROVE VerdictTrue'
  BY <1>24, <1>k DEF Start, TypeOK
<1>25. CASE Edit
  BY <1>25 DEF Edit
<1>26. CASE UNCHANGED vars
  BY <1>26 DEF vars
<1> QED BY <1>1, <1>2, <1>3, <1>4, <1>5, <1>6, <1>7, <1>8, <1>9, <1>10, <1>11, <1>12, <1>13, <1>14,
           <1>15, <1>16, <1>17, <1>18, <1>19, <1>20, <1>21, <1>22, <1>23, <1>24, <1>25, <1>26 DEF
           Next, Step

(* The invariant holds when the program starts.                             *)
LEMMA SessionInit ==
    ASSUME Bounds, Init
    PROVE  Inv
<1> USE DEF Init
<1>1. PICK v \in {0, 1}, known \in BOOLEAN :
          LET c == [v |-> v, neut |-> FALSE] IN
          /\ file = c /\ built = c /\ obj = c
          /\ baseline = [there |-> known, stamp |-> Nobody,
                         fp |-> IF known THEN Fingerprint(c) ELSE NoPrint]
  OBVIOUS
<1> DEFINE c == [v |-> v, neut |-> FALSE]
<1>2. c \in Contents /\ ~c.neut
  BY DEF Contents, Bounds
<1>3. file = c /\ built = c /\ obj = c
  BY <1>1
<1>4. baseline = [there |-> known, stamp |-> Nobody, fp |-> IF known THEN Fingerprint(c) ELSE NoPrint]
  BY <1>1
<1> HIDE DEF c
<1>5. baseline \in Baselines
  <2>1. (IF known THEN Fingerprint(c) ELSE NoPrint) \in Contents \cup {NoPrint}
    BY <1>2 DEF Fingerprint
  <2> QED BY <1>4, <2>1 DEF Baselines
<1>6. /\ \A p \in Procs : run[p] = Idle /\ control[p] = NoControl
      /\ run \in [Procs -> Runs] /\ control \in [Procs -> Controls] /\ journal \in Journals
      /\ Clean \in Contents
  BY IdleTyped
<1>7. \A p \in Procs : ~Active(p) /\ run[p].pc = "idle" /\ ~run[p].again
  BY <1>6 DEF Active, Idle
<1>8. \A p \in Procs : control[p].step = "none" /\ ~control[p].own
  BY <1>6 DEF NoControl
<1>9. verdict \in [there : BOOLEAN, tested : Contents, about : Contents, ctl : BOOLEAN, based : BOOLEAN]
  BY <1>6 DEF NoVerdict
<1>10. TypeOK
  <2>1. lock \in [excl : Procs \cup {Nobody}, sharers : SUBSET Procs]
    OBVIOUS
  <2>2. newer \in BOOLEAN /\ objOld \in BOOLEAN /\ unseen \in BOOLEAN
    OBVIOUS
  <2>3. /\ lost \subseteq 0..(MaxEdits + 1) /\ windowed \subseteq 0..(MaxEdits + 1)
        /\ edits \in 0..MaxEdits /\ commands \in 0..MaxCommands /\ kills \in 0..MaxKills
    BY DEF Bounds
  <2>4. kind \in {"compiled", "copied", "live"}
    OBVIOUS
  <2> HIDE DEF Init
  <2> QED BY <1>2, <1>3, <1>5, <1>6, <1>9, <2>1, <2>2, <2>3, <2>4 DEF TypeOK
<1>11. Locked /\ Routed /\ Controlled
  <2>1. ~ControlBuilt
    BY <1>4 DEF ControlBuilt
  <2> QED BY <1>7, <1>8, <2>1 DEF Locked, Routed, Controlled, Making, First, At, Active
<1>12. Journaled /\ Read
  BY <1>2, <1>3, <1>7, <1>8 DEF Journaled, BytesKept, Read, EditsSurvive, Active, At
<1>13. Carried
  <2>1. Back => file = Clean
    BY <1>3, <1>7, <1>8, <1>2 DEF Back, Neuter, Clean
  <2>2. kind # "live" /\ Trusted => baseline.there \/ kind = "compiled"
    BY DEF Trusted
  <2>3. baseline.there => built = IF baseline.fp = NoPrint THEN Clean ELSE baseline.fp
    BY <1>2, <1>3, <1>4, Distinct DEF Fingerprint, Dirty
  <2> QED BY <1>3, <2>1, <2>2, <2>3 DEF Carried
<1>14. Built /\ Tested
  BY <1>7 DEF Built, Tested, Making, First, At
<1>15. VerdictTrue
  BY DEF VerdictTrue, NoVerdict
<1> QED BY <1>10, <1>11, <1>12, <1>13, <1>14, <1>15 DEF Inv

(* Every step keeps the types.                                              *)
LEMMA SessionTyped ==
    ASSUME Bounds, TypeOK, Controlled, [Next]_vars
    PROVE  TypeOK'
BY RunTyped, ControlTyped, RestTyped, RestTypedB, RestTypedC DEF TypeOK, RestA, RestB, RestC

(* Every step keeps the invariant.                                          *)
LEMMA SessionStep ==
    ASSUME Bounds, Inv, [Next]_vars
    PROVE  Inv'
<1>1. TypeOK'
  BY SessionTyped DEF Inv
<1>2. Locked' /\ Routed'
  BY LockedStep, RoutedStep DEF Inv
<1>3. Controlled' /\ Journaled'
  BY ControlledStep, JournaledStep DEF Inv
<1>4. Read'
  BY ReadStep DEF Inv
<1>5. Carried' /\ Built'
  BY CarriedStep, BuiltStep DEF Inv
<1>6. Tested' /\ VerdictTrue'
  BY TestedStep, VerdictStep DEF Inv
<1> QED BY <1>1, <1>2, <1>3, <1>4, <1>5, <1>6 DEF Inv

(* The session of one project, by itself.                                   *)
THEOREM SessionKeeps ==
    ASSUME Bounds
    PROVE  Spec => [](VerdictTrue /\ BytesKept /\ EditsSurvive)
<1>1. Init => Inv
  BY SessionInit
<1>2. Inv /\ [Next]_vars => Inv'
  BY SessionStep
<1>3. Inv => VerdictTrue /\ BytesKept /\ EditsSurvive
  BY DEF Inv, Journaled, Read
<1> QED BY <1>1, <1>2, <1>3, PTL DEF Spec

=============================================================================
