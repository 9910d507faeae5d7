------------------------------- MODULE Rebase -------------------------------
(***************************************************************************)
(* fireforge rebase (src/commands/rebase): the patch queue is applied to a *)
(* fresh source, one patch at a time, and progress is kept in a session    *)
(* file, so that a conflict can be fixed by hand and the rebase continued  *)
(* or aborted.  When every patch is in the engine the patch files are      *)
(* re-exported and the manifest is stamped with the new version.           *)
(*                                                                         *)
(* One command runs at a time, each in a process of its own; between two   *)
(* writes the process may crash, a write may fail, and a signal may come.  *)
(* Apply plus save is a critical section (src/core/signal-critical.ts):    *)
(* the signal handler waits for the sections that are open when it looks,  *)
(* not for those opened later, while the command goes on.  In memory and   *)
(* on disk the session differs only inside a section, so one copy is kept. *)
(* Dry run, confirmations and the best-effort stamp of furnace overrides   *)
(* are left out; a corrupt session is one that can only be aborted.        *)
(***************************************************************************)
EXTENDS Naturals

CONSTANTS N,          \* patches in the queue, in order
          Missing,    \* those whose file is gone when their turn comes
          Overlap,    \* those that share files with others
          FaultKinds

ASSUME RebaseAssumption ==
  /\ N \in Nat \ {0}
  /\ Missing \subseteq 1 .. N /\ Overlap \subseteq 1 .. N
  /\ FaultKinds \subseteq {"signal", "slow", "crash", "io"}

Patches == 1 .. N

VARIABLES pc,        \* what the running command does next
          outcome,   \* of the apply, or of the re-exports, under way
          todo,      \* patches still to be re-exported
          present,   \* the session file exists
          idx,       \* its currentIndex
          status,    \* its entries
          engine,    \* each patch in the engine: out, part (rejects), in
          body,      \* what each patch file describes: old or new source
          stamp,     \* the version each patch is stamped with
          deployed,  \* the furnace state records applied components
          pending,   \* pendingResolution (0: none)
          handler,   \* the signal handler: none, held, leaving
          snap,      \* the patch whose section it waits for (0: none)
          ended,     \* how the last command ended
          rewound    \* history: an abort was cut short after its reset, and used

vars == <<pc, outcome, todo, present, idx, status, engine, body, stamp, deployed, pending,
          handler, snap, ended, rewound>>

session == <<present, idx, status>>
files == <<body, stamp>>
process == <<handler, snap, ended>>

-----------------------------------------------------------------------------
AppliedOnes == {i \in Patches : status[i] = "applied"}
Settled == {"applied", "resolved", "skipped"}

End(how) == pc' = "idle" /\ ended' = how /\ handler' = "none"

(* The section closes: a handler that waited for it goes on. *)
CloseSection == handler' = IF handler = "held" THEN "leaving" ELSE handler

Init == /\ pc = "idle" /\ outcome = "applied" /\ todo = {}
        /\ present = FALSE /\ idx = 1
        /\ status = [i \in Patches |-> "pending"]
        /\ engine = [i \in Patches |-> "in"]
        /\ body = [i \in Patches |-> "old"] /\ stamp = [i \in Patches |-> "old"]
        /\ deployed = TRUE /\ pending = 0
        /\ handler = "none" /\ snap = 0 /\ ended = "normal"
        /\ rewound = "no"

-----------------------------------------------------------------------------
(* fireforge rebase: refused when a session exists or nothing is to be     *)
(* done.                                                                   *)
Start ==
  /\ pc = "idle" /\ ~present /\ \E i \in Patches : stamp[i] = "old"
  /\ pc' = "reset" /\ snap' = 0
  /\ UNCHANGED <<outcome, todo, session, engine, files, deployed, pending, handler, ended, rewound>>

Reset ==
  /\ pc = "reset" /\ pc' = "forget"
  /\ engine' = [i \in Patches |-> "out"]
  /\ UNCHANGED <<outcome, todo, session, files, deployed, pending, process, rewound>>

(* clearAppliedFurnaceState *)
Forget ==
  /\ pc = "forget" /\ pc' = "create"
  /\ deployed' = FALSE
  /\ UNCHANGED <<outcome, todo, session, engine, files, pending, process, rewound>>

Create ==
  /\ pc = "create" /\ pc' = "loop"
  /\ present' = TRUE /\ idx' = 1
  /\ status' = [i \in Patches |-> "pending"]
  /\ UNCHANGED <<outcome, todo, engine, files, deployed, pending, process, rewound>>

-----------------------------------------------------------------------------
(* runPatchLoop *)

(* Mutant: a missing patch counts as applied. *)
SkipAsApplied ==
  /\ pc = "loop" /\ idx \in Missing
  /\ status' = [status EXCEPT ![idx] = "applied"]
  /\ idx' = idx + 1
  /\ UNCHANGED <<pc, outcome, todo, present, engine, files, deployed, pending, process, rewound>>

(* A patch whose file is gone is skipped, outside any section. *)
Skip ==
  /\ pc = "loop" /\ idx \in Missing
  /\ status' = [status EXCEPT ![idx] = "skipped"]
  /\ idx' = idx + 1
  /\ UNCHANGED <<pc, outcome, todo, present, engine, files, deployed, pending, process, rewound>>

(* The section opens.  A patch that does not apply leaves what hunks fit;  *)
(* one that is already in the engine does not apply.                       *)
Apply ==
  /\ pc = "loop" /\ idx \in Patches \ Missing
  /\ pc' = "save"
  /\ \/ outcome' = "applied" /\ engine[idx] = "out" /\ engine' = [engine EXCEPT ![idx] = "in"]
     \/ outcome' = "failed" /\ (engine' = engine \/ engine' = [engine EXCEPT ![idx] = "part"])
  /\ UNCHANGED <<todo, session, files, deployed, pending, process, rewound>>

(* Mutant: the index is advanced past a failed patch. *)
SaveAdvancing ==
  /\ pc = "save"
  /\ status' = [status EXCEPT ![idx] = outcome]
  /\ idx' = idx + 1
  /\ pc' = IF outcome = "applied" THEN "loop" ELSE "note"
  /\ CloseSection
  /\ UNCHANGED <<outcome, todo, present, engine, files, deployed, pending, snap, ended, rewound>>

Save ==
  /\ pc = "save"
  /\ status' = [status EXCEPT ![idx] = outcome]
  /\ IF outcome = "applied" THEN idx' = idx + 1 /\ pc' = "loop"
                            ELSE pc' = "note" /\ UNCHANGED idx
  /\ CloseSection
  /\ UNCHANGED <<outcome, todo, present, engine, files, deployed, pending, snap, ended, rewound>>

(* pendingResolution is recorded outside the section; the loop stops. *)
Note ==
  /\ pc = "note"
  /\ pending' = idx
  /\ End("normal")
  /\ UNCHANGED <<outcome, todo, session, engine, files, deployed, snap, rewound>>

(* Every patch is settled: re-export those that applied. *)
LoopDone ==
  /\ pc = "loop" /\ idx = N + 1
  /\ pc' = "reexport" /\ outcome' = "applied" /\ todo' = AppliedOnes
  /\ UNCHANGED <<session, engine, files, deployed, pending, process, rewound>>

(* An empty diff leaves the patch file as it is. *)
ReExport(i) ==
  /\ pc = "reexport" /\ i \in todo
  /\ todo' = todo \ {i}
  /\ body' = IF i \in Overlap \/ engine[i] = "out" THEN body ELSE [body EXCEPT ![i] = "new"]
  /\ UNCHANGED <<pc, outcome, session, engine, stamp, deployed, pending, process, rewound>>

ReExportFails(i) ==
  /\ pc = "reexport" /\ i \in todo \ Overlap /\ "io" \in FaultKinds
  /\ todo' = todo \ {i} /\ outcome' = "failed"
  /\ UNCHANGED <<pc, session, engine, files, deployed, pending, process, rewound>>

(* Mutant: a failed re-export does not stop the stamping. *)
StampAnyway ==
  /\ pc = "reexport" /\ todo = {}
  /\ pc' = "clear"
  /\ stamp' = [i \in Patches |-> IF status[i] = "resolved" \/ i \in AppliedOnes \ Overlap
                                 THEN "new" ELSE stamp[i]]
  /\ UNCHANGED <<outcome, todo, session, engine, body, deployed, pending, process, rewound>>

(* stampPatchVersions, unless a re-export failed. *)
Stamp ==
  /\ pc = "reexport" /\ todo = {} /\ outcome = "applied"
  /\ pc' = "clear"
  /\ stamp' = [i \in Patches |-> IF status[i] = "resolved" \/ i \in AppliedOnes \ Overlap
                                 THEN "new" ELSE stamp[i]]
  /\ UNCHANGED <<outcome, todo, session, engine, body, deployed, pending, process, rewound>>

(* The session is kept for a retry. *)
Refuse ==
  /\ pc = "reexport" /\ todo = {} /\ outcome = "failed"
  /\ End("normal")
  /\ UNCHANGED <<outcome, todo, session, engine, files, deployed, pending, snap, rewound>>

Clear ==
  /\ pc = "clear" /\ pc' = "unpend"
  /\ present' = FALSE
  /\ UNCHANGED <<outcome, todo, idx, status, engine, files, deployed, pending, process, rewound>>

Unpend ==
  /\ pc = "unpend"
  /\ pending' = 0
  /\ End("normal")
  /\ UNCHANGED <<outcome, todo, session, engine, files, deployed, snap, rewound>>

-----------------------------------------------------------------------------
(* fireforge rebase --continue *)

(* Mutant: a pending patch is taken for one to be resumed. *)
ContinueAnywhere ==
  /\ pc = "idle" /\ present
  /\ \/ (idx > N \/ status[idx] = "pending") /\ pc' = "loop"
     \/ idx <= N /\ status[idx] = "failed" /\ engine[idx] # "out" /\ pc' = "rewrite"
  /\ snap' = 0
  /\ rewound' = IF rewound = "no" THEN "no" ELSE "used"
  /\ UNCHANGED <<outcome, todo, session, engine, files, deployed, pending, handler, ended>>

(* Accepted after the last patch, or when the current patch failed and its *)
(* files differ from HEAD.                                                 *)
Continue ==
  /\ pc = "idle" /\ present
  /\ \/ idx > N /\ pc' = "loop"
     \/ idx <= N /\ status[idx] = "failed" /\ engine[idx] # "out" /\ pc' = "rewrite"
  /\ snap' = 0
  /\ rewound' = IF rewound = "no" THEN "no" ELSE "used"
  /\ UNCHANGED <<outcome, todo, session, engine, files, deployed, pending, handler, ended>>

(* updatePatchAndMetadata *)
Rewrite ==
  /\ pc = "rewrite" /\ pc' = "mark"
  /\ body' = [body EXCEPT ![idx] = "new"]
  /\ stamp' = [stamp EXCEPT ![idx] = "new"]
  /\ UNCHANGED <<outcome, todo, session, engine, deployed, pending, process, rewound>>

(* The section opens with the session update... *)
Mark ==
  /\ pc = "mark" /\ pc' = "settle"
  /\ status' = [status EXCEPT ![idx] = "resolved"]
  /\ idx' = idx + 1
  /\ UNCHANGED <<outcome, todo, present, engine, files, deployed, pending, process, rewound>>

(* ...and closes when pendingResolution is cleared. *)
Settle ==
  /\ pc = "settle" /\ pc' = "loop"
  /\ pending' = 0
  /\ CloseSection
  /\ UNCHANGED <<outcome, todo, session, engine, files, deployed, snap, ended, rewound>>

-----------------------------------------------------------------------------
(* fireforge rebase --abort: the session goes last. *)

Abort ==
  /\ pc = "idle" /\ present
  /\ pc' = "areset" /\ snap' = 0
  /\ UNCHANGED <<outcome, todo, session, engine, files, deployed, pending, handler, ended, rewound>>

AbortReset ==
  /\ pc = "areset" /\ pc' = "aforget"
  /\ engine' = [i \in Patches |-> "out"]
  /\ rewound' = IF rewound = "used" THEN "used" ELSE "yes"
  /\ UNCHANGED <<outcome, todo, session, files, deployed, pending, process>>

AbortForget ==
  /\ pc = "aforget" /\ pc' = "aunpend"
  /\ deployed' = FALSE
  /\ UNCHANGED <<outcome, todo, session, engine, files, pending, process, rewound>>

(* Mutant: pendingResolution is left to the next command. *)
AbortUnpendNot ==
  /\ pc = "aunpend" /\ pc' = "aclear"
  /\ UNCHANGED <<outcome, todo, session, engine, files, deployed, pending, process, rewound>>

AbortUnpend ==
  /\ pc = "aunpend" /\ pc' = "aclear"
  /\ pending' = 0
  /\ UNCHANGED <<outcome, todo, session, engine, files, deployed, process, rewound>>

AbortClear ==
  /\ pc = "aclear"
  /\ present' = FALSE
  /\ rewound' = IF rewound = "used" THEN "used" ELSE "no"
  /\ End("normal")
  /\ UNCHANGED <<outcome, todo, idx, status, engine, files, deployed, pending, snap>>

-----------------------------------------------------------------------------
(* Signals and faults. *)

(* The patch whose section is open. *)
OpenSection == IF pc = "save" THEN idx ELSE IF pc = "settle" THEN idx - 1 ELSE 0

(* Mutant: the handler waits for no section. *)
SignalUnheld ==
  /\ pc # "idle" /\ handler = "none" /\ "signal" \in FaultKinds
  /\ handler' = "leaving"
  /\ snap' = OpenSection
  /\ UNCHANGED <<pc, outcome, todo, session, engine, files, deployed, pending, ended, rewound>>

(* waitForActiveCriticalSections looks once. *)
Signal ==
  /\ pc # "idle" /\ handler = "none" /\ "signal" \in FaultKinds
  /\ handler' = IF OpenSection = 0 THEN "leaving" ELSE "held"
  /\ snap' = OpenSection
  /\ UNCHANGED <<pc, outcome, todo, session, engine, files, deployed, pending, ended, rewound>>

(* A section that lasts longer than 5 s is not waited for. *)
HoldTimeout ==
  /\ handler = "held" /\ "slow" \in FaultKinds
  /\ handler' = "leaving" /\ snap' = 0
  /\ UNCHANGED <<pc, outcome, todo, session, engine, files, deployed, pending, ended, rewound>>

Exit ==
  /\ pc # "idle" /\ handler = "leaving"
  /\ End("signal")
  /\ UNCHANGED <<outcome, todo, session, engine, files, deployed, pending, snap, rewound>>

(* The process dies, or a read or write fails and the error ends it. *)
Die ==
  /\ pc # "idle"
  /\ \/ "crash" \in FaultKinds /\ End("crash")
     \/ "io" \in FaultKinds /\ End("failed")
  /\ UNCHANGED <<outcome, todo, session, engine, files, deployed, pending, snap, rewound>>

-----------------------------------------------------------------------------
(* Between two commands. *)

(* The user fixes the rejects of the failed patch. *)
Fix ==
  /\ pc = "idle" /\ present /\ idx \in Patches /\ status[idx] = "failed"
  /\ engine' = [engine EXCEPT ![idx] = "in"]
  /\ UNCHANGED <<pc, outcome, todo, session, files, deployed, pending, process, rewound>>

(* fireforge resolve refreshes the patch that pendingResolution names. *)
ResolveCommand ==
  /\ pc = "idle" /\ pending \in Patches /\ engine[pending] # "out"
  /\ body' = [body EXCEPT ![pending] = "new"]
  /\ stamp' = [stamp EXCEPT ![pending] = "new"]
  /\ pending' = 0
  /\ UNCHANGED <<pc, outcome, todo, session, engine, deployed, process, rewound>>

(* Furnace components are applied again. *)
Deploy ==
  /\ pc = "idle" /\ deployed' = TRUE
  /\ UNCHANGED <<pc, outcome, todo, session, engine, files, pending, process, rewound>>

-----------------------------------------------------------------------------
FreshStart == Reset \/ Forget \/ Create
PatchLoop == \/ Skip \/ Apply \/ Save \/ Note \/ LoopDone \/ Stamp \/ Refuse \/ Clear \/ Unpend
             \/ \E i \in Patches : ReExport(i)
Continuing == Rewrite \/ Mark \/ Settle
Aborting == AbortReset \/ AbortForget \/ AbortUnpend \/ AbortClear

Step == FreshStart \/ PatchLoop \/ Continuing \/ Aborting

Next == \/ Start \/ Continue \/ Abort \/ Step
        \/ \E i \in Patches : ReExportFails(i)
        \/ Signal \/ HoldTimeout \/ Exit \/ Die
        \/ Fix \/ ResolveCommand \/ Deploy

Spec == Init /\ [][Next]_vars

-----------------------------------------------------------------------------
Flags == present \in BOOLEAN /\ deployed \in BOOLEAN

Values ==
  /\ pc \in {"idle", "reset", "forget", "create", "loop", "save", "note", "reexport", "clear",
             "unpend", "rewrite", "mark", "settle", "areset", "aforget", "aunpend", "aclear"}
  /\ outcome \in {"applied", "failed"} /\ todo \subseteq Patches
  /\ idx \in 1 .. N + 1
  /\ status \in [Patches -> Settled \cup {"pending", "failed"}]
  /\ engine \in [Patches -> {"out", "part", "in"}]
  /\ body \in [Patches -> {"old", "new"}] /\ stamp \in [Patches -> {"old", "new"}]
  /\ pending \in 0 .. N
  /\ handler \in {"none", "held", "leaving"} /\ snap \in 0 .. N
  /\ ended \in {"normal", "failed", "signal", "crash"}
  /\ rewound \in {"no", "yes", "used"}

(* Every variable has its type. *)
TypeOK == Flags /\ Values

(* The session is never behind the engine by more than the patch at its    *)
(* index, and never ahead of it, whatever crash, signal or failed write    *)
(* ended a command: what it calls applied or resolved is in the engine,    *)
(* and nothing after the index is.                                         *)
SessionKeepsUp ==
  present /\ rewound = "no" =>
    \A i \in Patches :
      /\ status[i] \in {"applied", "resolved"} => engine[i] # "out"
      /\ i > idx => engine[i] = "out"

(* No patch is applied to an engine that already has it: an interrupted    *)
(* apply is not repeated by --continue.                                    *)
NeverReapplied ==
  [][pc = "loop" /\ pc' = "save" => engine[idx] = "out"]_vars

(* The section that was open when the signal came is complete when the     *)
(* process exits, unless it outlasted the bound: both writes of its pair   *)
(* have landed.                                                            *)
DrainHolds ==
  pc = "idle" /\ ended = "signal" /\ snap # 0 =>
    status[snap] # "pending" /\ (status[snap] = "resolved" => pending # snap)

Finished == \A i \in Patches : /\ status[i] \in Settled
                               /\ status[i] # "skipped" /\ i \notin Overlap => stamp[i] = "new"
Undone == (\A i \in Patches : engine[i] = "out") /\ ~deployed /\ pending = 0

(* The session file goes only when the rebase is finished or undone, so    *)
(* that whatever interrupts it can be retried.                             *)
SessionOutlivesWork == [][present /\ ~present' => Finished \/ Undone]_vars

(* Versions are stamped only on patches whose file reflects the new        *)
(* source, so the queue does not lie about what was tested.                *)
QueueTellsTruth == \A i \in Patches : stamp[i] = "new" => body[i] = "new"

(* The same, as long as no abort was cut short and then continued.         *)
StampsTrue == rewound # "used" => QueueTellsTruth
=============================================================================
