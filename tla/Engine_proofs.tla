---------------------------- MODULE Engine_proofs ----------------------------
(***************************************************************************)
(* Proofs about what runs over engine/, as MCEngine puts it together.       *)
(*                                                                         *)
(* First the rebase, for any queue and any mix of faults.  Shape says what  *)
(* the entries on either side of the index are, and what the program        *)
(* counter knows of them; Tracks ties the session to the engine; Drained,   *)
(* Told and Retracing are what the handler, the stamps and the abort rely   *)
(* on.  Each is inductive given those before it.                            *)
(*                                                                         *)
(* Then the processes of the tests, for any workers, dispatches and faults.  *)
(* A pid that is about to be killed belongs to a dispatch that has been      *)
(* spawned and whose mach is gone, and no later dispatch can bring that mach *)
(* back (Apart, Known); so nothing of a running harness is ever a target.    *)
(*                                                                         *)
(* At the end the properties of all three parts in MCEngine's specification, *)
(* whose steps are steps of one of them; those of the tests come from        *)
(* TestSession_proofs.                                                       *)
(***************************************************************************)
EXTENDS MCEngine, TLAPS

(* The entries before the index are settled, those after it untouched.     *)
Shape ==
  /\ present =>
       /\ \A i \in Patches : i < idx => status[i] \in Settled
       /\ \A i \in Patches : i > idx => status[i] = "pending"
       /\ idx \in Patches => status[idx] \in {"pending", "failed"}
  /\ pc \in {"reset", "forget", "create", "unpend"} => ~present
  /\ pc \in {"loop", "save", "note", "reexport", "clear", "rewrite", "mark", "settle",
             "areset", "aforget", "aunpend", "aclear"} => present
  /\ pc \in {"save", "note", "rewrite", "mark"} => idx \in Patches
  /\ pc \in {"note", "rewrite", "mark"} => status[idx] = "failed"
  /\ pc = "settle" => idx - 1 \in Patches /\ status[idx - 1] = "resolved"
  /\ pc \in {"reexport", "clear"} => idx = N + 1

(* The engine holds what the session says, give or take the current patch. *)
Tracks ==
  /\ present /\ rewound = "no" =>
       \A i \in Patches : status[i] \in {"applied", "resolved"} => engine[i] # "out"
  /\ present => \A i \in Patches : i > idx => engine[i] = "out"
  /\ pc \in {"forget", "create"} => \A i \in Patches : engine[i] = "out"
  /\ pc = "save" /\ outcome = "applied" => engine[idx] # "out"
  /\ pc \in {"rewrite", "mark"} => engine[idx] # "out"
  /\ pc \in {"loop", "settle"} /\ idx \in Patches => engine[idx] = "out"

Landed(i) == status[i] # "pending" /\ (status[i] = "resolved" => pending # i)

(* The handler is held by an open section, and leaves when it is complete. *)
Drained ==
  /\ handler = "held" => snap = OpenSection /\ snap # 0
  /\ pc # "idle" /\ handler = "none" => snap = 0
  /\ pc \in {"reset", "forget", "create", "rewrite", "mark"} => snap = 0
  /\ snap # 0 /\ (handler = "leaving" \/ (pc = "idle" /\ ended = "signal")) => Landed(snap)

(* Patches are stamped after their file was written. *)
Told ==
  /\ rewound = "yes" => present
  /\ pc \in {"loop", "save", "note", "reexport", "clear", "rewrite", "mark", "settle"} =>
       rewound # "yes"
  /\ pc \in {"mark", "settle"} => body[IF pc = "mark" THEN idx ELSE idx - 1] = "new"
  /\ present => \A i \in Patches : status[i] = "resolved" => body[i] = "new"
  /\ pc = "reexport" /\ outcome = "applied" /\ rewound = "no" =>
       \A i \in Patches : status[i] = "applied" /\ i \notin todo /\ i \notin Overlap => body[i] = "new"
  /\ rewound # "used" => \A i \in Patches : stamp[i] = "new" => body[i] = "new"

(* What the last step before the session goes can rely on. *)
Retracing ==
  /\ pc = "clear" => \A i \in Patches : status[i] = "resolved" \/ i \in AppliedOnes \ Overlap
                                        => stamp[i] = "new"
  /\ pc \in {"aforget", "aunpend", "aclear"} => \A i \in Patches : engine[i] = "out"
  /\ pc \in {"aunpend", "aclear"} => ~deployed
  /\ pc = "aclear" => pending = 0

USE RebaseAssumption DEF Patches

LEMMA InitAll == Init => TypeOK /\ Shape /\ Tracks /\ Drained /\ Told /\ Retracing
<1> SUFFICES ASSUME Init PROVE TypeOK /\ Shape /\ Tracks /\ Drained /\ Told /\ Retracing
  OBVIOUS
<1>3. Values
  BY DEF Init, Values, Settled
<1>1. Flags
  BY DEF Init, Flags
<1>2. Shape /\ Tracks /\ Drained /\ Told /\ Retracing
  BY DEF Init, Shape, Tracks, Drained, Told, Retracing
<1> QED BY <1>1, <1>2, <1>3 DEF TypeOK

LEMMA ValuesStep == Values /\ Shape /\ [Next]_vars => Values'
<1> SUFFICES ASSUME Values, Shape, [Next]_vars PROVE Values'
  OBVIOUS
<1> USE DEF Values, Settled, session, files, process, End, CloseSection
<1>1. CASE Start
  BY <1>1 DEF Start
<1>2. CASE Continue
  BY <1>2 DEF Continue
<1>3. CASE Abort
  BY <1>3 DEF Abort
<1>4. CASE Reset
  BY <1>4 DEF Reset
<1>5. CASE Forget
  BY <1>5 DEF Forget
<1>6. CASE Create
  BY <1>6 DEF Create
<1>7. CASE Skip
  BY <1>7 DEF Skip
<1>8. CASE Apply
  BY <1>8 DEF Apply
<1>9. CASE Save
  BY <1>9 DEF Save, Shape
<1>10. CASE Note
  BY <1>10 DEF Note, Shape
<1>11. CASE LoopDone
  BY <1>11 DEF LoopDone, AppliedOnes
<1>12. CASE Stamp
  BY <1>12 DEF Stamp, AppliedOnes
<1>13. CASE Refuse
  BY <1>13 DEF Refuse
<1>14. CASE Clear
  BY <1>14 DEF Clear
<1>15. CASE Unpend
  BY <1>15 DEF Unpend
<1>16. CASE Rewrite
  BY <1>16 DEF Rewrite
<1>17. CASE Mark
  BY <1>17 DEF Mark, Shape
<1>18. CASE Settle
  BY <1>18 DEF Settle
<1>19. CASE AbortReset
  BY <1>19 DEF AbortReset
<1>20. CASE AbortForget
  BY <1>20 DEF AbortForget
<1>21. CASE AbortUnpend
  BY <1>21 DEF AbortUnpend
<1>22. CASE AbortClear
  BY <1>22 DEF AbortClear
<1>23. CASE Signal
  BY <1>23 DEF Signal, OpenSection, Shape
<1>24. CASE HoldTimeout
  BY <1>24 DEF HoldTimeout
<1>25. CASE Exit
  BY <1>25 DEF Exit
<1>26. CASE Die
  BY <1>26 DEF Die
<1>27. CASE Fix
  BY <1>27 DEF Fix
<1>28. CASE ResolveCommand
  BY <1>28 DEF ResolveCommand
<1>29. CASE Deploy
  BY <1>29 DEF Deploy
<1>30. ASSUME NEW i \in Patches, ReExport(i) \/ ReExportFails(i) PROVE Values'
  BY <1>30 DEF ReExport, ReExportFails
<1>31. CASE UNCHANGED vars
  BY <1>31 DEF vars
<1> QED
  BY <1>1, <1>2, <1>3, <1>4, <1>5, <1>6, <1>7, <1>8, <1>9, <1>10, <1>11, <1>12, <1>13, <1>14,
     <1>15, <1>16, <1>17, <1>18, <1>19, <1>20, <1>21, <1>22, <1>23, <1>24, <1>25, <1>26, <1>27, <1>28,
     <1>29, <1>30, <1>31
  DEF Next, Step, FreshStart, PatchLoop, Continuing, Aborting

LEMMA FlagsStep == Flags /\ [Next]_vars => Flags'
<1> SUFFICES ASSUME Flags, [Next]_vars PROVE Flags'
  OBVIOUS
<1> USE DEF Flags, session, files, process, End, CloseSection
<1>1. CASE Start \/ Continue \/ Abort \/ FreshStart
  BY <1>1 DEF Start, Continue, Abort, FreshStart, Reset, Forget, Create
<1>2. CASE Skip \/ Apply \/ Save \/ Note \/ LoopDone
  BY <1>2 DEF Skip, Apply, Save, Note, LoopDone
<1>3. ASSUME NEW i \in Patches, ReExport(i) \/ ReExportFails(i) PROVE Flags'
  BY <1>3 DEF ReExport, ReExportFails
<1>4. CASE Stamp \/ Refuse \/ Clear \/ Unpend
  BY <1>4 DEF Stamp, Refuse, Clear, Unpend
<1>5. CASE Continuing \/ Aborting
  BY <1>5 DEF Continuing, Rewrite, Mark, Settle, Aborting, AbortReset, AbortForget, AbortUnpend,
              AbortClear
<1>6. CASE Signal \/ HoldTimeout \/ Exit \/ Die \/ Fix \/ ResolveCommand \/ Deploy
  BY <1>6 DEF Signal, HoldTimeout, Exit, Die, Fix, ResolveCommand, Deploy
<1>7. CASE UNCHANGED vars
  BY <1>7 DEF vars
<1> QED BY <1>1, <1>2, <1>3, <1>4, <1>5, <1>6, <1>7 DEF Next, Step, PatchLoop

LEMMA TypeStep == TypeOK /\ Shape /\ [Next]_vars => TypeOK'
BY ValuesStep, FlagsStep DEF TypeOK

LEMMA ShapeStep == TypeOK /\ Shape /\ [Next]_vars => Shape'
<1> SUFFICES ASSUME TypeOK, Shape, [Next]_vars PROVE Shape'
  OBVIOUS
<1> USE DEF TypeOK, Values, Shape, session, files, process, End, CloseSection, Settled
<1>1. CASE Start \/ Continue \/ Abort
  BY <1>1 DEF Start, Continue, Abort
<1>2. CASE FreshStart
  BY <1>2 DEF FreshStart, Reset, Forget, Create
<1>3. CASE Skip
  BY <1>3 DEF Skip
<1>4. CASE Apply
  BY <1>4 DEF Apply
<1>5. CASE Save
  BY <1>5 DEF Save
<1>6. CASE Note \/ LoopDone \/ Refuse \/ Clear \/ Unpend
  BY <1>6 DEF Note, LoopDone, Refuse, Clear, Unpend, AppliedOnes
<1>7. ASSUME NEW i \in Patches, ReExport(i) \/ ReExportFails(i) PROVE Shape'
  BY <1>7, SMTT(30) DEF ReExport, ReExportFails
<1>8. CASE Stamp
  BY <1>8 DEF Stamp, AppliedOnes
<1>9. CASE Rewrite \/ Settle
  BY <1>9 DEF Rewrite, Settle
<1>10. CASE Mark
  BY <1>10 DEF Mark
<1>11. CASE Aborting
  BY <1>11 DEF Aborting, AbortReset, AbortForget, AbortUnpend, AbortClear
<1>12. CASE Signal \/ HoldTimeout \/ Exit \/ Die
  <2>1. CASE Signal \/ HoldTimeout
    BY <2>1 DEF Signal, HoldTimeout
  <2>2. CASE Exit
    BY <2>2 DEF Exit
  <2>3. CASE Die
    BY <2>3 DEF Die
  <2> QED BY <1>12, <2>1, <2>2, <2>3
<1>13. CASE Fix \/ ResolveCommand \/ Deploy
  BY <1>13 DEF Fix, ResolveCommand, Deploy
<1>14. CASE UNCHANGED vars
  BY <1>14 DEF vars
<1> QED BY <1>1, <1>2, <1>3, <1>4, <1>5, <1>6, <1>7, <1>8, <1>9, <1>10, <1>11, <1>12, <1>13, <1>14
        DEF Next, Step, PatchLoop, Continuing

LEMMA TracksStep == TypeOK /\ Shape /\ Tracks /\ [Next]_vars => Tracks'
<1> SUFFICES ASSUME TypeOK, Shape, Tracks, [Next]_vars PROVE Tracks'
  OBVIOUS
<1> USE DEF TypeOK, Values, Shape, Tracks, session, files, process, End, CloseSection, Settled
<1>1. CASE Start \/ Continue \/ Abort
  BY <1>1 DEF Start, Continue, Abort
<1>2. CASE FreshStart
  BY <1>2 DEF FreshStart, Reset, Forget, Create
<1>3. CASE Skip
  BY <1>3 DEF Skip
<1>4. CASE Apply
  BY <1>4 DEF Apply
<1>5. CASE Save
  BY <1>5 DEF Save
<1>6. CASE Note \/ LoopDone \/ Refuse \/ Clear \/ Unpend
  BY <1>6 DEF Note, LoopDone, Refuse, Clear, Unpend, AppliedOnes
<1>7. ASSUME NEW i \in Patches, ReExport(i) \/ ReExportFails(i) PROVE Tracks'
  BY <1>7 DEF ReExport, ReExportFails
<1>8. CASE Stamp
  BY <1>8 DEF Stamp, AppliedOnes
<1>9. CASE Rewrite \/ Settle
  BY <1>9 DEF Rewrite, Settle
<1>10. CASE Mark
  BY <1>10 DEF Mark
<1>11. CASE Aborting
  BY <1>11 DEF Aborting, AbortReset, AbortForget, AbortUnpend, AbortClear
<1>12. CASE Signal \/ HoldTimeout \/ Exit \/ Die
  <2>1. CASE Signal \/ HoldTimeout
    BY <2>1 DEF Signal, HoldTimeout
  <2>2. CASE Exit \/ Die
    BY <2>2 DEF Exit, Die
  <2> QED BY <1>12, <2>1, <2>2
<1>13. CASE Fix \/ ResolveCommand \/ Deploy
  BY <1>13 DEF Fix, ResolveCommand, Deploy
<1>14. CASE UNCHANGED vars
  BY <1>14 DEF vars
<1> QED BY <1>1, <1>2, <1>3, <1>4, <1>5, <1>6, <1>7, <1>8, <1>9, <1>10, <1>11, <1>12, <1>13, <1>14
        DEF Next, Step, PatchLoop, Continuing

LEMMA DrainedStep == TypeOK /\ Shape /\ Drained /\ [Next]_vars => Drained'
<1> SUFFICES ASSUME TypeOK, Shape, Drained, [Next]_vars PROVE Drained'
  OBVIOUS
<1> USE DEF TypeOK, Values, Shape, Drained, session, files, process, End, CloseSection, Landed, Settled, OpenSection
<1>1. CASE Start \/ Continue \/ Abort
  BY <1>1 DEF Start, Continue, Abort
<1>2. CASE FreshStart
  BY <1>2 DEF FreshStart, Reset, Forget, Create
<1>3. CASE Skip
  BY <1>3 DEF Skip
<1>4. CASE Apply
  BY <1>4 DEF Apply
<1>5. CASE Save
  BY <1>5 DEF Save
<1>6. CASE Note \/ LoopDone \/ Refuse \/ Clear \/ Unpend
  BY <1>6 DEF Note, LoopDone, Refuse, Clear, Unpend, AppliedOnes
<1>7. ASSUME NEW i \in Patches, ReExport(i) \/ ReExportFails(i) PROVE Drained'
  BY <1>7 DEF ReExport, ReExportFails
<1>8. CASE Stamp
  BY <1>8 DEF Stamp, AppliedOnes
<1>9. CASE Rewrite \/ Settle
  BY <1>9 DEF Rewrite, Settle
<1>10. CASE Mark
  BY <1>10 DEF Mark
<1>11. CASE Aborting
  BY <1>11 DEF Aborting, AbortReset, AbortForget, AbortUnpend, AbortClear
<1>12. CASE Signal \/ HoldTimeout \/ Exit \/ Die
  <2>1. CASE Signal
    BY <2>1 DEF Signal
  <2>2. CASE HoldTimeout
    BY <2>2 DEF HoldTimeout
  <2>3. CASE Exit
    <3>1. snap # 0 => Landed(snap)
      BY <2>3 DEF Exit
    <3>2. UNCHANGED <<snap, status, pending>> /\ pc' = "idle" /\ handler' = "none"
      BY <2>3 DEF Exit
    <3> QED BY <3>1, <3>2
  <2>4. CASE Die
    BY <2>4 DEF Die
  <2> QED BY <1>12, <2>1, <2>2, <2>3, <2>4
<1>13. CASE Fix \/ ResolveCommand \/ Deploy
  BY <1>13 DEF Fix, ResolveCommand, Deploy
<1>14. CASE UNCHANGED vars
  BY <1>14 DEF vars
<1> QED BY <1>1, <1>2, <1>3, <1>4, <1>5, <1>6, <1>7, <1>8, <1>9, <1>10, <1>11, <1>12, <1>13, <1>14
        DEF Next, Step, PatchLoop, Continuing

LEMMA ToldStep == TypeOK /\ Shape /\ Tracks /\ Told /\ [Next]_vars => Told'
<1> SUFFICES ASSUME TypeOK, Shape, Tracks, Told, [Next]_vars PROVE Told'
  OBVIOUS
<1> USE DEF TypeOK, Values, Shape, Tracks, Told, session, files, process, End, CloseSection, Settled
<1>1. CASE Start \/ Continue \/ Abort
  BY <1>1 DEF Start, Continue, Abort
<1>2. CASE FreshStart
  <2>1. CASE Reset
    BY <2>1 DEF Reset
  <2>2. CASE Forget
    BY <2>2 DEF Forget
  <2>3. CASE Create
    BY <2>3 DEF Create
  <2> QED BY <1>2, <2>1, <2>2, <2>3 DEF FreshStart
<1>3. CASE Skip
  BY <1>3 DEF Skip
<1>4. CASE Apply
  BY <1>4 DEF Apply
<1>5. CASE Save
  BY <1>5 DEF Save
<1>6. CASE Note \/ LoopDone \/ Refuse \/ Clear \/ Unpend
  BY <1>6, SMTT(30) DEF Note, LoopDone, Refuse, Clear, Unpend, AppliedOnes
<1>7. ASSUME NEW i \in Patches, ReExport(i) \/ ReExportFails(i) PROVE Told'
  BY <1>7 DEF ReExport, ReExportFails
<1>8. CASE Stamp
  BY <1>8 DEF Stamp, AppliedOnes
<1>9. CASE Rewrite \/ Settle
  BY <1>9, SMTT(30) DEF Rewrite, Settle
<1>10. CASE Mark
  BY <1>10 DEF Mark
<1>11. CASE Aborting
  BY <1>11 DEF Aborting, AbortReset, AbortForget, AbortUnpend, AbortClear
<1>12. CASE Signal \/ HoldTimeout \/ Exit \/ Die
  BY <1>12 DEF Signal, HoldTimeout, Exit, Die
<1>13. CASE Fix \/ ResolveCommand \/ Deploy
  BY <1>13 DEF Fix, ResolveCommand, Deploy
<1>14. CASE UNCHANGED vars
  BY <1>14 DEF vars
<1> QED BY <1>1, <1>2, <1>3, <1>4, <1>5, <1>6, <1>7, <1>8, <1>9, <1>10, <1>11, <1>12, <1>13, <1>14
        DEF Next, Step, PatchLoop, Continuing

LEMMA RetracingStep == TypeOK /\ Retracing /\ [Next]_vars => Retracing'
<1> SUFFICES ASSUME TypeOK, Retracing, [Next]_vars PROVE Retracing'
  OBVIOUS
<1> USE DEF TypeOK, Values, Retracing, session, files, process, End, CloseSection, AppliedOnes
<1>1. CASE Start \/ Continue \/ Abort
  BY <1>1 DEF Start, Continue, Abort
<1>2. CASE FreshStart
  BY <1>2 DEF FreshStart, Reset, Forget, Create
<1>3. CASE Skip
  BY <1>3 DEF Skip
<1>4. CASE Apply
  BY <1>4 DEF Apply
<1>5. CASE Save
  BY <1>5 DEF Save
<1>6. CASE Note \/ LoopDone \/ Refuse \/ Clear \/ Unpend
  BY <1>6 DEF Note, LoopDone, Refuse, Clear, Unpend, AppliedOnes
<1>7. ASSUME NEW i \in Patches, ReExport(i) \/ ReExportFails(i) PROVE Retracing'
  BY <1>7 DEF ReExport, ReExportFails
<1>8. CASE Stamp
  BY <1>8 DEF Stamp, AppliedOnes
<1>9. CASE Rewrite \/ Settle
  BY <1>9 DEF Rewrite, Settle
<1>10. CASE Mark
  BY <1>10 DEF Mark
<1>11. CASE Aborting
  BY <1>11 DEF Aborting, AbortReset, AbortForget, AbortUnpend, AbortClear
<1>12. CASE Signal \/ HoldTimeout \/ Exit \/ Die
  BY <1>12 DEF Signal, HoldTimeout, Exit, Die
<1>13. CASE Fix \/ ResolveCommand \/ Deploy
  BY <1>13 DEF Fix, ResolveCommand, Deploy
<1>14. CASE UNCHANGED vars
  BY <1>14 DEF vars
<1> QED BY <1>1, <1>2, <1>3, <1>4, <1>5, <1>6, <1>7, <1>8, <1>9, <1>10, <1>11, <1>12, <1>13, <1>14
        DEF Next, Step, PatchLoop, Continuing

LEMMA AllStep ==
  TypeOK /\ Shape /\ Tracks /\ Drained /\ Told /\ Retracing /\ [Next]_vars
  => (TypeOK /\ Shape /\ Tracks /\ Drained /\ Told /\ Retracing)'
BY TypeStep, ShapeStep, TracksStep, DrainedStep, ToldStep, RetracingStep

-----------------------------------------------------------------------------
(* Every variable keeps its type. *)
THEOREM TypeCorrect == Spec => []TypeOK
BY InitAll, TypeStep, ShapeStep, PTL DEF Spec

(* Session and engine differ by the current patch at most, after any       *)
(* crash, signal or failed write.                                          *)
THEOREM KeepsUp == Spec => []SessionKeepsUp
<1>1. TypeOK /\ Tracks => SessionKeepsUp
  BY DEF Tracks, SessionKeepsUp
<1> QED BY <1>1, InitAll, AllStep, PTL DEF Spec

(* A patch is only ever applied to an engine that does not have it. *)
THEOREM AppliedOnce == Spec => NeverReapplied
<1>1. TypeOK /\ Shape /\ Tracks /\ [Next]_vars => [pc = "loop" /\ pc' = "save" => engine[idx] = "out"]_vars
  <2> SUFFICES ASSUME TypeOK, Shape, Tracks, [Next]_vars, pc = "loop", pc' = "save"
               PROVE  engine[idx] = "out"
    OBVIOUS
  <2>1. idx \in Patches => engine[idx] = "out"
    BY DEF Tracks
  <2>2. idx \in Patches
    <3>1. CASE Apply
      BY <3>1 DEF Apply
    <3>2. ASSUME ~Apply PROVE FALSE
      <4> USE DEF End, session, files, process, CloseSection
      <4>1. CASE Start \/ Continue \/ Abort \/ FreshStart
        BY <4>1 DEF Start, Continue, Abort, FreshStart, Reset, Forget, Create
      <4>2. CASE PatchLoop
        BY <4>2, <3>2 DEF PatchLoop, Skip, Save, Note, LoopDone, ReExport, Stamp, Refuse, Clear, Unpend
      <4>3. CASE Continuing \/ Aborting
        BY <4>3 DEF Continuing, Aborting, Rewrite, Mark, Settle, AbortReset, AbortForget,
                    AbortUnpend, AbortClear
      <4>4. CASE Signal \/ HoldTimeout \/ Exit \/ Die \/ Fix \/ ResolveCommand \/ Deploy
        BY <4>4 DEF Signal, HoldTimeout, Exit, Die, Fix, ResolveCommand, Deploy
      <4>5. ASSUME NEW i \in Patches, ReExportFails(i) PROVE FALSE
        BY <4>5 DEF ReExportFails
      <4>6. CASE UNCHANGED vars
        BY <4>6 DEF vars
      <4> QED BY <4>1, <4>2, <4>3, <4>4, <4>5, <4>6 DEF Next, Step
    <3> QED BY <3>1, <3>2
  <2> QED BY <2>1, <2>2
<1> QED BY <1>1, InitAll, AllStep, PTL DEF Spec, NeverReapplied

(* The section a signal found open is complete when the process exits. *)
THEOREM Drains == Spec => []DrainHolds
<1>1. TypeOK /\ Drained => DrainHolds
  BY DEF Drained, DrainHolds, Landed
<1> QED BY <1>1, InitAll, AllStep, PTL DEF Spec

(* Versions are stamped only on patches that were rewritten, unless an     *)
(* abort that was cut short is continued.                                  *)
THEOREM Stamps == Spec => []StampsTrue
<1>1. Told => StampsTrue
  BY DEF Told, StampsTrue, QueueTellsTruth
<1> QED BY <1>1, InitAll, AllStep, PTL DEF Spec

(* The session file goes only when the rebase is finished or undone. *)
THEOREM SessionLast == Spec => SessionOutlivesWork
<1>1. TypeOK /\ Shape /\ Retracing /\ [Next]_vars
      => [present /\ ~present' => Finished \/ Undone]_vars
  <2> SUFFICES ASSUME TypeOK, Shape, Retracing, [Next]_vars, present, ~present'
               PROVE  Finished \/ Undone
    OBVIOUS
  <2>1. CASE Clear
    BY <2>1 DEF Clear, TypeOK, Shape, Retracing, Finished, Settled, AppliedOnes
  <2>2. CASE AbortClear
    BY <2>2 DEF AbortClear, Retracing, Undone
  <2>3. ASSUME ~Clear, ~AbortClear PROVE FALSE
    <3> USE DEF session
    <3>1. CASE Start \/ Continue \/ Abort \/ FreshStart
      BY <3>1 DEF Start, Continue, Abort, FreshStart, Reset, Forget, Create
    <3>2. CASE PatchLoop
      BY <3>2, <2>3 DEF PatchLoop, Skip, Apply, Save, Note, LoopDone, ReExport, Stamp, Refuse, Unpend
    <3>3. CASE Continuing \/ Aborting
      BY <3>3, <2>3 DEF Continuing, Aborting, Rewrite, Mark, Settle, AbortReset, AbortForget,
                        AbortUnpend
    <3>4. CASE Signal \/ HoldTimeout \/ Exit \/ Die \/ Fix \/ ResolveCommand \/ Deploy
      BY <3>4 DEF Signal, HoldTimeout, Exit, Die, Fix, ResolveCommand, Deploy
    <3>5. ASSUME NEW i \in Patches, ReExportFails(i) PROVE FALSE
      BY <3>5 DEF ReExportFails
    <3>6. CASE UNCHANGED vars
      BY <3>6 DEF vars
    <3> QED BY <3>1, <3>2, <3>3, <3>4, <3>5, <3>6 DEF Next, Step
  <2> QED BY <2>1, <2>2, <2>3
<1> QED BY <1>1, InitAll, AllStep, PTL DEF Spec, SessionOutlivesWork

-----------------------------------------------------------------------------
(* The workers' dispatches are their own, and unsettled while they run.     *)
Apart ==
    /\ settled \subseteq 1..spawned
    /\ \A w \in Workers :
          /\ current[w] <= spawned
          /\ \A x \in Workers : w # x => current[w] = 0 \/ current[w] # current[x]
          /\ worker[w] \in {"spawn", "run", "reap", "kill"} => current[w] \in (1..spawned) \ settled

(* A dispatch that has been spawned, and will not be spawned again.         *)
Known(d) ==
    /\ d \in 1..spawned
    /\ \A w \in Workers : worker[w] = "spawn" => current[w] # d

Past ==
    /\ \A p \in alive \cup stranger : p = Tests!Earlier \/ Known(p[1])
    /\ \A d \in announced : Known(d)

(* The survivor of an earlier run is there, in every baseline, ...          *)
Spared ==
    /\ Tests!Earlier \in alive
    /\ \A w \in Workers : helpersBefore[w] = Tests!NoBase \/ Tests!Earlier \in helpersBefore[w]

(* ... and no target.                                                       *)
Aimed ==
    \A w \in Workers :
        /\ worker[w] # "kill" => targets[w] = {}
        /\ termed[w] \subseteq targets[w]
        /\ \A p \in targets[w] : /\ p # Tests!Earlier /\ Known(p[1]) /\ Tests!Orphan(p)
                                 /\ p \in stranger => p \in reused

(* After 'close' the group is gone.                                         *)
Closed ==
    \A w \in Workers : worker[w] \in {"reap", "kill"} => alive \cap Tests!Group(current[w]) = {}

HarnessSafe == Tests!TypeOK /\ Apart /\ Past /\ Spared /\ Closed /\ Aimed /\ Tests!SparesOthers

(* What a teardown can see of its dispatch is a target until it is dead, and *)
(* its baseline is older than the dispatch.                                 *)
Reaping ==
    \A w \in Workers :
        /\ worker[w] = "kill" =>
              \A p \in alive \cap Tests!Of(current[w]) : p \in targets[w] \cup missed
        /\ worker[w] \in {"idle", "settled", "done"} => helpersBefore[w] = Tests!NoBase
        /\ helpersBefore[w] # Tests!NoBase => \A p \in helpersBefore[w] : p[1] # current[w]

(* The two halves of NothingLeft.                                           *)
Left == \A p \in alive \ {Tests!Earlier} : p[1] \in settled => p \in missed

Abandoned == exited => \A p \in alive \ {Tests!Earlier} : p \in missed \/ p[1] \in excused

(* A dispatch is under way until it has settled.                            *)
UnderWay ==
    \A d \in (1..spawned) \ settled :
        \E w \in Workers : current[w] = d /\ worker[w] \in {"spawn", "run", "reap", "kill"}

HarnessClean == Reaping /\ Left /\ Abandoned /\ UnderWay

HarnessBounds == MaxDispatches \in Nat /\ MaxFaults \in Nat

-----------------------------------------------------------------------------
LEMMA KindsOf == Tests!Kinds = {"mach", "child", "browser", "http2"} /\ Tests!Earlier[2] = "http2"
  /\ Tests!Earlier[1] = 0
BY DEF Tests!Kinds, Tests!Earlier

LEMMA InitSafe ==
    ASSUME HarnessBounds
    PROVE  Tests!Init => HarnessSafe
<1> SUFFICES ASSUME Tests!Init PROVE HarnessSafe
  OBVIOUS
<1> USE DEF Tests!Init, HarnessBounds
<1>1. Tests!TypeOK
  <2>1. Tests!Earlier \in Tests!Pids
    BY DEF Tests!Pids
  <2>2. /\ helpersBefore \in [Workers -> (SUBSET Tests!Helpers) \cup {Tests!NoBase}]
        /\ targets \in [Workers -> SUBSET Tests!Pids] /\ termed \in [Workers -> SUBSET Tests!Pids]
        /\ worker \in [Workers -> {"idle", "spawn", "run", "reap", "kill", "settled", "done"}]
    OBVIOUS
  <2>3. /\ current \in [Workers -> 0..MaxDispatches] /\ bare \in [Workers -> BOOLEAN]
        /\ watch \in [Workers -> BOOLEAN]
    OBVIOUS
  <2>4. parent \in BOOLEAN /\ noticed \in BOOLEAN /\ signalled \in BOOLEAN /\ exited \in BOOLEAN
    OBVIOUS
  <2>5. /\ alive \subseteq Tests!Pids /\ stranger \subseteq Tests!Pids \ alive
        /\ spawned \in 0..MaxDispatches /\ faults \in 0..MaxFaults
    BY <2>1
  <2>6. /\ piped \subseteq Tests!Dispatches /\ announced \subseteq Tests!Dispatches
        /\ settled \subseteq Tests!Dispatches /\ awaited \subseteq Tests!Dispatches
        /\ excused \subseteq Tests!Dispatches
        /\ missed \subseteq Tests!Pids /\ hit \subseteq Tests!Pids /\ reused \subseteq Tests!Pids
    OBVIOUS
  <2> QED BY <2>2, <2>3, <2>4, <2>5, <2>6 DEF Tests!TypeOK
<1>2. Apart /\ Past /\ Spared /\ Closed /\ Aimed /\ Tests!SparesOthers
  BY DEF Apart, Past, Spared, Closed, Aimed, Tests!SparesOthers
<1> QED BY <1>1, <1>2 DEF HarnessSafe

(* Every variable keeps its type; Past is what keeps a new process from being *)
(* taken for a reused pid.                                                  *)
LEMMA HarnessTypeStep ==
    ASSUME HarnessBounds, Tests!TypeOK, Apart, Past, [Tests!Next]_(Tests!vars)
    PROVE  Tests!TypeOK'
<1> USE DEF Tests!TypeOK, HarnessBounds, Tests!Goto, Tests!Fault
<1> USE DEF Tests!procs, Tests!worker, Tests!signals, Tests!past
<1>1. ASSUME NEW w \in Workers, Tests!Begin(w) PROVE Tests!TypeOK'
  BY <1>1 DEF Tests!Begin
<1>2. ASSUME NEW w \in Workers, Tests!Spawn(w) PROVE Tests!TypeOK'
  <2>1. PICK K \in SUBSET Tests!Kinds :
            /\ alive' = alive \cup ({current[w]} \X K)
            /\ announced' \in {announced, announced \cup {current[w]}}
            /\ piped' \in {piped, piped \cup {current[w]}}
    BY <1>2 DEF Tests!Spawn
  <2>2. current[w] \in Tests!Dispatches /\ current[w] # 0
    BY <1>2 DEF Tests!Spawn, Apart, Tests!Dispatches
  <2>3. {current[w]} \X K \subseteq Tests!Pids
    BY <2>2 DEF Tests!Pids
  <2>4. ({current[w]} \X K) \cap stranger = {}
    BY <1>2, <2>2, KindsOf DEF Tests!Spawn, Past, Known
  <2> QED BY <1>2, <2>1, <2>2, <2>3, <2>4 DEF Tests!Spawn
<1>3. ASSUME NEW w \in Workers, Tests!Close(w) PROVE Tests!TypeOK'
  <2>1. current[w] \in Tests!Dispatches
    BY <1>3 DEF Tests!Close, Apart, Tests!Dispatches
  <2>2. CASE Tests!Settle(w)
               /\ missed' = missed \cup ((alive \cap Tests!Of(current[w])) \ Tests!Group(current[w]))
    BY <1>3, <2>1, <2>2 DEF Tests!Close, Tests!Settle
  <2>3. CASE worker' = [worker EXCEPT ![w] = "reap"]
             /\ UNCHANGED <<settled, watch, helpersBefore, announced, piped, missed>>
    BY <1>3, <2>3 DEF Tests!Close
  <2> QED BY <1>3, <2>2, <2>3 DEF Tests!Close
<1>4. ASSUME NEW w \in Workers, Tests!Reap(w) PROVE Tests!TypeOK'
  <2>1. current[w] \in Tests!Dispatches
    BY <1>4 DEF Tests!Reap, Apart, Tests!Dispatches
  <2>2. PICK told \in SUBSET {"announced", "all"},
             alike \in SUBSET (stranger \cap Tests!Of(current[w])) :
            /\ missed' = missed \cup Tests!Unseen(w, told)
            /\ targets' = [targets EXCEPT ![w] = Tests!Targets(w, told, alike)]
            /\ reused' = reused \cup (Tests!Targets(w, told, alike) \ alive)
    BY <1>4 DEF Tests!Reap
  <2>3. /\ Tests!Unseen(w, told) \subseteq Tests!Pids
        /\ Tests!Targets(w, told, alike) \subseteq Tests!Pids
    BY DEF Tests!Unseen, Tests!Targets, Tests!Tracked, Tests!Unannounced
  <2>4. faults' \in 0..MaxFaults
    BY <1>4 DEF Tests!Reap
  <2>5. CASE Tests!Settle(w)
    BY <1>4, <2>1, <2>2, <2>3, <2>4, <2>5 DEF Tests!Reap, Tests!Settle
  <2>6. CASE worker' = [worker EXCEPT ![w] = "kill"]
             /\ UNCHANGED <<settled, watch, helpersBefore, announced, piped>>
    BY <1>4, <2>2, <2>3, <2>4, <2>6 DEF Tests!Reap
  <2> QED BY <1>4, <2>5, <2>6 DEF Tests!Reap
<1>5. ASSUME NEW w \in Workers, Tests!Reaped(w) PROVE Tests!TypeOK'
  <2>1. current[w] \in Tests!Dispatches
    BY <1>5 DEF Tests!Reaped, Apart, Tests!Dispatches
  <2> QED BY <1>5, <2>1 DEF Tests!Reaped, Tests!Settle
<1>6. ASSUME NEW w \in Workers, Tests!Throw(w) PROVE Tests!TypeOK'
  BY <1>6 DEF Tests!Throw, Tests!Dispatches
<1>7. ASSUME NEW w \in Workers, Tests!Repair(w) PROVE Tests!TypeOK'
  BY <1>7 DEF Tests!Repair
<1>8. ASSUME NEW w \in Workers, Tests!Classify(w) PROVE Tests!TypeOK'
  BY <1>8 DEF Tests!Classify
<1>9. ASSUME NEW w \in Workers, Tests!WatchdogFires(w) PROVE Tests!TypeOK'
  BY <1>9 DEF Tests!WatchdogFires
<1>10. ASSUME NEW w \in Workers, Tests!Escalate(w) PROVE Tests!TypeOK'
  BY <1>10 DEF Tests!Escalate
<1>11. ASSUME NEW w \in Workers, NEW p \in targets[w], Tests!Term(w, p) PROVE Tests!TypeOK'
  BY <1>11 DEF Tests!Term
<1>12. ASSUME NEW w \in Workers, NEW p \in targets[w], Tests!Kill(w, p) PROVE Tests!TypeOK'
  BY <1>12 DEF Tests!Kill
<1>13. CASE Tests!ParentDies
  <2>1. parent' \in BOOLEAN
    BY <1>13 DEF Tests!ParentDies
  <2> QED BY <1>13, <2>1 DEF Tests!ParentDies
<1>14. CASE Tests!Signal
  <2>1. signalled' \in BOOLEAN
    BY <1>14 DEF Tests!Signal
  <2>2. awaited' \subseteq Tests!Dispatches
    BY <1>14 DEF Tests!Signal, Apart, Tests!Dispatches
  <2> QED BY <1>14, <2>1, <2>2 DEF Tests!Signal
<1>15. CASE Tests!HandlerExits
  <2>1. excused' \subseteq excused \cup 1..spawned
    BY <1>15 DEF Tests!HandlerExits
  <2>2. excused' \subseteq Tests!Dispatches
    BY <2>1 DEF Tests!Dispatches
  <2> QED BY <1>15, <2>2 DEF Tests!HandlerExits
<1>16. CASE Tests!Exit
  BY <1>16 DEF Tests!Exit
<1>17. ASSUME NEW d \in Tests!Dispatches, Tests!MachEnds(d) PROVE Tests!TypeOK'
  BY <1>17 DEF Tests!MachEnds
<1>18. ASSUME NEW d \in Tests!Dispatches, Tests!Reuse(d) PROVE Tests!TypeOK'
  <2>1. <<d, "browser">> \in Tests!Pids
    BY KindsOf DEF Tests!Pids
  <2> QED BY <1>18, <2>1 DEF Tests!Reuse
<1>19. ASSUME NEW p \in alive, Tests!Dies(p) PROVE Tests!TypeOK'
  BY <1>19 DEF Tests!Dies
<1>20. CASE UNCHANGED Tests!vars
  BY <1>20 DEF Tests!vars
<1> QED
  BY <1>1, <1>2, <1>3, <1>4, <1>5, <1>6, <1>7, <1>8, <1>9, <1>10, <1>11, <1>12, <1>13,
     <1>14, <1>15, <1>16, <1>17, <1>18, <1>19, <1>20 DEF Tests!Next

(* The steps that leave the workers where they are.                         *)
Aside ==
    \/ \E w \in Workers : Tests!Throw(w) \/ Tests!WatchdogFires(w) \/ Tests!Escalate(w)
    \/ Tests!ParentDies \/ Tests!Signal \/ Tests!HandlerExits \/ Tests!Exit
    \/ \E d \in Tests!Dispatches : Tests!MachEnds(d) \/ Tests!Reuse(d)
    \/ \E p \in alive : Tests!Dies(p)
    \/ UNCHANGED Tests!vars

LEMMA AsideStays == Aside => UNCHANGED <<Tests!worker, spawned, settled>>
<1> USE DEF Tests!worker
<1>1. ASSUME NEW w \in Workers, Tests!Throw(w) \/ Tests!WatchdogFires(w) \/ Tests!Escalate(w)
      PROVE  UNCHANGED <<Tests!worker, spawned, settled>>
  BY <1>1 DEF Tests!Throw, Tests!WatchdogFires, Tests!Escalate
<1>2. CASE Tests!ParentDies \/ Tests!Signal \/ Tests!HandlerExits \/ Tests!Exit
  BY <1>2 DEF Tests!ParentDies, Tests!Signal, Tests!HandlerExits, Tests!Exit
<1>3. ASSUME NEW d \in Tests!Dispatches, Tests!MachEnds(d) \/ Tests!Reuse(d)
      PROVE  UNCHANGED <<Tests!worker, spawned, settled>>
  BY <1>3 DEF Tests!MachEnds, Tests!Reuse
<1>4. ASSUME NEW p \in alive, Tests!Dies(p) PROVE UNCHANGED <<Tests!worker, spawned, settled>>
  BY <1>4 DEF Tests!Dies
<1>5. CASE UNCHANGED Tests!vars
  BY <1>5 DEF Tests!vars
<1> QED BY <1>1, <1>2, <1>3, <1>4, <1>5 DEF Aside

(* A worker's way through the teardown of its dispatch.                     *)
Teardown(w) ==
    /\ worker[w] \in {"run", "reap", "kill"} /\ UNCHANGED <<current, spawned>>
    /\ \/ worker' = [worker EXCEPT ![w] = "settled"] /\ settled' = settled \cup {current[w]}
       \/ /\ worker' \in {[worker EXCEPT ![w] = "reap"], [worker EXCEPT ![w] = "kill"]}
          /\ settled' = settled

LEMMA TearsDown ==
    ASSUME NEW w \in Workers, Tests!Close(w) \/ Tests!Reap(w) \/ Tests!Reaped(w)
    PROVE  Teardown(w)
<1> USE DEF Teardown, Tests!Goto, Tests!Settle
<1>1. CASE Tests!Close(w)
  BY <1>1 DEF Tests!Close
<1>2. CASE Tests!Reap(w)
  BY <1>2 DEF Tests!Reap
<1>3. CASE Tests!Reaped(w)
  BY <1>3 DEF Tests!Reaped
<1> QED BY <1>1, <1>2, <1>3

(* The workers' own steps.                                                  *)
LEMMA ApartStep ==
    ASSUME Tests!TypeOK, Apart, [Tests!Next]_(Tests!vars)
    PROVE  Apart'
<1> USE DEF Tests!TypeOK, Apart, Tests!Goto, Tests!Settle
<1>1. ASSUME NEW w \in Workers, Tests!Begin(w) PROVE Apart'
  BY <1>1 DEF Tests!Begin
<1>2. ASSUME NEW w \in Workers, Tests!Spawn(w) PROVE Apart'
  BY <1>2 DEF Tests!Spawn
<1>3. ASSUME NEW w \in Workers, Tests!Close(w) \/ Tests!Reap(w) \/ Tests!Reaped(w) PROVE Apart'
  <2>1. Teardown(w)
    BY <1>3, TearsDown
  <2>2. settled' \subseteq 1..spawned'
    BY <2>1 DEF Teardown
  <2>3. ASSUME NEW x \in Workers, worker'[x] \in {"spawn", "run", "reap", "kill"}
        PROVE  worker[x] \in {"spawn", "run", "reap", "kill"} /\ current[x] \notin settled'
    BY <2>1, <2>3 DEF Teardown
  <2> QED BY <2>1, <2>2, <2>3 DEF Teardown
<1>6. ASSUME NEW w \in Workers, Tests!Repair(w) PROVE Apart'
  BY <1>6 DEF Tests!Repair
<1>7. ASSUME NEW w \in Workers, Tests!Classify(w) PROVE Apart'
  BY <1>7 DEF Tests!Classify
<1>8. ASSUME NEW w \in Workers, NEW p \in targets[w], Tests!Term(w, p) \/ Tests!Kill(w, p)
      PROVE Apart'
  <2>1. UNCHANGED <<worker, current, spawned, settled>>
    BY <1>8 DEF Tests!Term, Tests!Kill
  <2> QED BY <2>1
<1>9. CASE Aside
  BY <1>9, AsideStays DEF Tests!worker
<1> QED BY <1>1, <1>2, <1>3, <1>6, <1>7, <1>8, <1>9 DEF Tests!Next, Aside

(* A known dispatch stays known.                                            *)
LEMMA KnownStays ==
    ASSUME Tests!TypeOK, Apart, [Tests!Next]_(Tests!vars), NEW d, Known(d)
    PROVE  Known(d)'
<1> USE DEF Tests!TypeOK, Known, Tests!Goto, Tests!Settle
<1>1. ASSUME NEW w \in Workers, Tests!Begin(w) \/ Tests!Repair(w) PROVE Known(d)'
  BY <1>1 DEF Tests!Begin, Tests!Repair
<1>2. ASSUME NEW w \in Workers, Tests!Spawn(w) \/ Tests!Classify(w) PROVE Known(d)'
  BY <1>2 DEF Tests!Spawn, Tests!Classify
<1>3. ASSUME NEW w \in Workers, Tests!Close(w) \/ Tests!Reap(w) \/ Tests!Reaped(w) PROVE Known(d)'
  BY <1>3, TearsDown DEF Teardown
<1>5. ASSUME NEW w \in Workers, NEW p \in targets[w], Tests!Term(w, p) \/ Tests!Kill(w, p)
      PROVE  Known(d)'
  BY <1>5 DEF Tests!Term, Tests!Kill
<1>6. CASE Aside
  BY <1>6, AsideStays DEF Tests!worker
<1> QED BY <1>1, <1>2, <1>3, <1>5, <1>6 DEF Tests!Next, Aside

(* Only a dispatch that was not known yet gets new processes.               *)
LEMMA NewOnes ==
    ASSUME Tests!TypeOK, Apart, [Tests!Next]_(Tests!vars)
    PROVE  \A p \in alive' \ alive :
              /\ ~Known(p[1]) /\ Known(p[1])' /\ p # Tests!Earlier
              /\ \E w \in Workers : Tests!Spawn(w) /\ p[1] = current[w]
<1> USE DEF Tests!TypeOK, Tests!procs
<1>1. ASSUME NEW w \in Workers, Tests!Spawn(w), NEW p \in alive' \ alive
      PROVE  ~Known(p[1]) /\ Known(p[1])' /\ p # Tests!Earlier /\ p[1] = current[w]
  <2>1. p[1] = current[w]
    BY <1>1 DEF Tests!Spawn
  <2>2. ~Known(p[1]) /\ current[w] \in 1..spawned
    BY <1>1, <2>1 DEF Tests!Spawn, Known, Apart
  <2>3. Known(p[1])'
    BY <1>1, <2>1, <2>2 DEF Tests!Spawn, Known, Apart, Tests!Goto
  <2> QED BY <2>1, <2>2, <2>3 DEF Tests!Earlier
<1>2. ASSUME NEW w \in Workers, \/ Tests!Begin(w) \/ Tests!Reap(w) \/ Tests!Reaped(w)
        \/ Tests!Throw(w) \/ Tests!Repair(w)
                                \/ Tests!Classify(w) \/ Tests!Close(w) \/ Tests!WatchdogFires(w)
                                     \/ Tests!Escalate(w)
      PROVE  alive' \subseteq alive
  BY <1>2 DEF Tests!Begin, Tests!Reap, Tests!Reaped, Tests!Throw, Tests!Repair, Tests!Classify,
     Tests!Close, Tests!WatchdogFires, Tests!Escalate
<1>3. ASSUME NEW w \in Workers, NEW p \in targets[w], Tests!Term(w, p) \/ Tests!Kill(w, p)
      PROVE  alive' \subseteq alive
  BY <1>3 DEF Tests!Term, Tests!Kill
<1>4. ASSUME Tests!ParentDies \/ Tests!Signal \/ Tests!HandlerExits \/ Tests!Exit
        \/ UNCHANGED Tests!vars
      PROVE  alive' \subseteq alive
  BY <1>4 DEF Tests!ParentDies, Tests!Signal, Tests!HandlerExits, Tests!Exit, Tests!vars
<1>5. ASSUME NEW d \in Tests!Dispatches, Tests!MachEnds(d) \/ Tests!Reuse(d)
      PROVE alive' \subseteq alive
  BY <1>5 DEF Tests!MachEnds, Tests!Reuse
<1>6. ASSUME NEW p \in alive, Tests!Dies(p) PROVE alive' \subseteq alive
  BY <1>6 DEF Tests!Dies
<1> QED BY <1>1, <1>2, <1>3, <1>4, <1>5, <1>6 DEF Tests!Next

(* Whose pids are reused, and whose are announced.                          *)
LEMMA StrangersKnown ==
    ASSUME Tests!TypeOK, Apart, Past, [Tests!Next]_(Tests!vars)
    PROVE  /\ \A p \in stranger' \ stranger : p[1] \in announced /\ p[2] = "browser"
           /\ \A d \in announced' \ announced : Known(d)'
<1> USE DEF Tests!TypeOK, Tests!procs
<1> DEFINE Goal == /\ \A p \in stranger' \ stranger : p[1] \in announced /\ p[2] = "browser"
                   /\ \A d \in announced' \ announced : Known(d)'
<1>1. ASSUME NEW w \in Workers, Tests!Spawn(w) PROVE Goal
  <2>1. stranger' = stranger /\ announced' \subseteq announced \cup {current[w]}
    BY <1>1 DEF Tests!Spawn
  <2>2. ASSUME NEW d, d = current[w] PROVE Known(d)'
    BY <1>1, <2>2 DEF Tests!Spawn, Known, Apart, Tests!Goto
  <2> QED BY <2>1, <2>2
<1>2. ASSUME NEW d \in Tests!Dispatches, Tests!Reuse(d) PROVE Goal
  BY <1>2 DEF Tests!Reuse
<1>3. ASSUME NEW w \in Workers, \/ Tests!Begin(w) \/ Tests!Throw(w) \/ Tests!Repair(w)
        \/ Tests!Classify(w)
                                \/ Tests!WatchdogFires(w) \/ Tests!Escalate(w)
      PROVE  Goal
  BY <1>3 DEF Tests!Begin, Tests!Throw, Tests!Repair, Tests!Classify, Tests!WatchdogFires,
     Tests!Escalate
<1>4. ASSUME NEW w \in Workers, Tests!Close(w) \/ Tests!Reap(w) \/ Tests!Reaped(w)
      PROVE  Goal
  BY <1>4 DEF Tests!Close, Tests!Reap, Tests!Reaped, Tests!Settle
<1>5. ASSUME NEW w \in Workers, NEW p \in targets[w], Tests!Term(w, p) \/ Tests!Kill(w, p)
      PROVE  Goal
  BY <1>5 DEF Tests!Term, Tests!Kill
<1>6. CASE Tests!ParentDies \/ Tests!Signal \/ Tests!HandlerExits \/ Tests!Exit
             \/ UNCHANGED Tests!vars
  BY <1>6 DEF Tests!ParentDies, Tests!Signal, Tests!HandlerExits, Tests!Exit, Tests!vars
<1>7. ASSUME NEW d \in Tests!Dispatches, Tests!MachEnds(d) PROVE Goal
  BY <1>7 DEF Tests!MachEnds
<1>8. ASSUME NEW p \in alive, Tests!Dies(p) PROVE Goal
  BY <1>8 DEF Tests!Dies
<1> QED BY <1>1, <1>2, <1>3, <1>4, <1>5, <1>6, <1>7, <1>8 DEF Tests!Next

LEMMA PastStep ==
    ASSUME Tests!TypeOK, Apart, Past, [Tests!Next]_(Tests!vars)
    PROVE  Past'
<1>1. ASSUME NEW p \in alive' \cup stranger' PROVE p = Tests!Earlier \/ Known(p[1])'
  <2>1. CASE p \in alive \cup stranger
    BY <2>1, KnownStays DEF Past
  <2>2. CASE p \in alive' \ alive
    BY <2>2, NewOnes
  <2>3. CASE p \in stranger' \ stranger
    BY <2>3, StrangersKnown, KnownStays DEF Past
  <2> QED BY <1>1, <2>1, <2>2, <2>3
<1>2. ASSUME NEW d \in announced' PROVE Known(d)'
  BY <1>2, StrangersKnown, KnownStays DEF Past
<1> QED BY <1>1, <1>2 DEF Past

(* Nothing kills the survivor of an earlier run: it is no target, and in no  *)
(* group.                                                                   *)
LEMMA SparedStep ==
    ASSUME Tests!TypeOK, Spared, Aimed, [Tests!Next]_(Tests!vars)
    PROVE  Spared'
<1> USE DEF Tests!TypeOK, Tests!procs, Tests!worker
<1> Tests!Earlier \in Tests!Helpers /\ \A d \in Tests!Dispatches : Tests!Earlier \notin Tests!Of(d)
  BY DEF Tests!Earlier, Tests!Helpers, Tests!Pids, Tests!Of, Tests!Dispatches
<1> \A d : Tests!Earlier \notin Tests!Group(d)
  BY DEF Tests!Earlier, Tests!Group, Tests!Mach
<1>1. ASSUME NEW w \in Workers, Tests!Begin(w) PROVE Spared'
  BY <1>1 DEF Tests!Begin, Spared
<1>2. ASSUME NEW w \in Workers, Tests!Spawn(w) PROVE Spared'
  BY <1>2 DEF Tests!Spawn, Spared
<1>3. ASSUME NEW w \in Workers, Tests!Close(w) \/ Tests!Reap(w) \/ Tests!Reaped(w) PROVE Spared'
  <2>1. helpersBefore' \in {helpersBefore, [helpersBefore EXCEPT ![w] = Tests!NoBase]}
    BY <1>3 DEF Tests!Close, Tests!Reap, Tests!Reaped, Tests!Settle
  <2>2. alive' \in {alive, alive \ Tests!Group(current[w])}
    BY <1>3 DEF Tests!Close, Tests!Reap, Tests!Reaped
  <2> QED BY <2>1, <2>2 DEF Spared
<1>4. ASSUME NEW w \in Workers, Tests!Throw(w) \/ Tests!Repair(w) \/ Tests!Classify(w) PROVE Spared'
  BY <1>4 DEF Tests!Throw, Tests!Repair, Tests!Classify, Spared
<1>5. ASSUME NEW w \in Workers, Tests!WatchdogFires(w) \/ Tests!Escalate(w) PROVE Spared'
  BY <1>5 DEF Tests!WatchdogFires, Tests!Escalate, Spared
<1>6. ASSUME NEW w \in Workers, NEW p \in targets[w], Tests!Term(w, p) \/ Tests!Kill(w, p)
      PROVE  Spared'
  BY <1>6 DEF Tests!Term, Tests!Kill, Spared, Aimed
<1>7. CASE Tests!ParentDies \/ Tests!Signal \/ Tests!HandlerExits \/ Tests!Exit
             \/ UNCHANGED Tests!vars
  BY <1>7 DEF Tests!ParentDies, Tests!Signal, Tests!HandlerExits, Tests!Exit, Tests!vars, Spared
<1>8. ASSUME NEW d \in Tests!Dispatches, Tests!MachEnds(d) \/ Tests!Reuse(d) PROVE Spared'
  <2>1. alive' \in {alive, alive \ {Tests!Mach(d)}, alive \ Tests!Of(d)} /\ UNCHANGED helpersBefore
    BY <1>8 DEF Tests!MachEnds, Tests!Reuse
  <2>2. Tests!Earlier # Tests!Mach(d)
    BY DEF Tests!Earlier, Tests!Mach
  <2> QED BY <2>1, <2>2 DEF Spared
<1>9. ASSUME NEW p \in alive, Tests!Dies(p) PROVE Spared'
  BY <1>9 DEF Tests!Dies, Spared
<1> QED BY <1>1, <1>2, <1>3, <1>4, <1>5, <1>6, <1>7, <1>8, <1>9 DEF Tests!Next

(* After 'close' nothing of the group comes back, because nobody else starts *)
(* processes for that dispatch.                                             *)
LEMMA ClosedStep ==
    ASSUME Tests!TypeOK, Apart, Closed, [Tests!Next]_(Tests!vars)
    PROVE  Closed'
<1> USE DEF Tests!TypeOK, Tests!Goto, Tests!Settle
<1>1. ASSUME NEW w \in Workers, current'[w] = current[w], worker[w] \in {"reap", "kill"},
             worker'[w] \in {"reap", "kill"}
      PROVE  alive' \cap Tests!Group(current'[w]) = {}
  <2>1. current[w] \in 1..spawned /\ worker[w] # "spawn"
    BY <1>1 DEF Apart
  <2>2. Known(current[w])
    BY <1>1, <2>1 DEF Apart, Known
  <2>3. ASSUME NEW p \in Tests!Group(current[w]) PROVE p[1] = current[w]
    BY <2>3 DEF Tests!Group, Tests!Mach
  <2> QED BY <1>1, <2>2, <2>3, NewOnes DEF Closed
<1>2. ASSUME NEW w \in Workers, Tests!Close(w), worker'[w] \in {"reap", "kill"}
      PROVE  alive' \cap Tests!Group(current'[w]) = {}
  BY <1>2 DEF Tests!Close
<1>3. ASSUME NEW w \in Workers, worker'[w] \in {"reap", "kill"}
      PROVE  Tests!Close(w) \/ (worker[w] \in {"reap", "kill"} /\ current'[w] = current[w])
  <2>1. ASSUME NEW x \in Workers, \/ Tests!Begin(x) \/ Tests!Spawn(x) \/ Tests!Repair(x)
          \/ Tests!Classify(x)
        PROVE  worker[w] \in {"reap", "kill"} /\ current'[w] = current[w]
    BY <1>3, <2>1 DEF Tests!Begin, Tests!Spawn, Tests!Repair, Tests!Classify
  <2>2. ASSUME NEW x \in Workers, Tests!Close(x) \/ Tests!Reap(x)
          \/ Tests!Reaped(x), ~Tests!Close(w)
        PROVE  worker[w] \in {"reap", "kill"} /\ current'[w] = current[w]
    <3>1. CASE x = w
      BY <1>3, <2>2, <3>1 DEF Tests!Reap, Tests!Reaped
    <3>2. CASE x # w
      BY <1>3, <2>2, <3>2, TearsDown DEF Teardown
    <3> QED BY <3>1, <3>2
  <2>3. ASSUME NEW x \in Workers, NEW p \in targets[x], Tests!Term(x, p) \/ Tests!Kill(x, p)
        PROVE  worker[w] \in {"reap", "kill"} /\ current'[w] = current[w]
    BY <1>3, <2>3 DEF Tests!Term, Tests!Kill
  <2>4. CASE Aside
    BY <1>3, <2>4, AsideStays DEF Tests!worker
  <2> QED BY <2>1, <2>2, <2>3, <2>4 DEF Tests!Next, Aside
<1> QED BY <1>1, <1>2, <1>3 DEF Closed

(* What a target is, it remains until it is killed.                         *)
LEMMA AimStays ==
    ASSUME Tests!TypeOK, Apart, Past, [Tests!Next]_(Tests!vars),
           NEW p, p # Tests!Earlier, Known(p[1]), Tests!Orphan(p)
    PROVE  /\ Known(p[1])' /\ Tests!Orphan(p)'
           /\ p \in stranger' \ stranger /\ (\E w \in Workers : p \in targets[w])
                  => p \in reused'
           /\ reused \subseteq reused'
<1>1. Known(p[1])'
  BY KnownStays
<1>2. Tests!Orphan(p)'
  <2>1. ASSUME Tests!Mach(p[1]) \in alive' \ alive PROVE FALSE
    <3>1. Tests!Mach(p[1])[1] = p[1]
      BY DEF Tests!Mach
    <3> QED BY <2>1, <3>1, NewOnes
  <2> QED BY <2>1 DEF Tests!Orphan, Tests!Mach
<1>3. ASSUME p \in stranger' \ stranger, \E w \in Workers : p \in targets[w]
      PROVE  p \in reused'
  <2>1. ASSUME NEW d \in Tests!Dispatches, Tests!Reuse(d) PROVE p \in reused'
    BY <1>3, <2>1 DEF Tests!Reuse
  <2>2. ASSUME \A d \in Tests!Dispatches : ~Tests!Reuse(d) PROVE stranger' \subseteq stranger
    <3> USE DEF Tests!procs
    <3>1. ASSUME NEW w \in Workers, \/ Tests!Begin(w) \/ Tests!Spawn(w) \/ Tests!Close(w)
            \/ Tests!Reap(w) \/ Tests!Reaped(w)
                                    \/ Tests!Throw(w) \/ Tests!Repair(w) \/ Tests!Classify(w)
                                    \/ Tests!WatchdogFires(w) \/ Tests!Escalate(w)
                                    \/ \E q \in targets[w] : Tests!Term(w, q) \/ Tests!Kill(w, q)
          PROVE  stranger' \subseteq stranger
      BY <3>1 DEF Tests!Begin, Tests!Spawn, Tests!Close, Tests!Reap, Tests!Reaped, Tests!Throw,
         Tests!Repair, Tests!Classify, Tests!WatchdogFires, Tests!Escalate, Tests!Term, Tests!Kill
    <3>2. CASE Tests!ParentDies \/ Tests!Signal \/ Tests!HandlerExits \/ Tests!Exit
                 \/ UNCHANGED Tests!vars
      BY <3>2 DEF Tests!ParentDies, Tests!Signal, Tests!HandlerExits, Tests!Exit, Tests!vars
    <3>3. ASSUME NEW d \in Tests!Dispatches, Tests!MachEnds(d) PROVE stranger' \subseteq stranger
      BY <3>3 DEF Tests!MachEnds
    <3>4. ASSUME NEW q \in alive, Tests!Dies(q) PROVE stranger' \subseteq stranger
      BY <3>4 DEF Tests!Dies
    <3> QED BY <2>2, <3>1, <3>2, <3>3, <3>4 DEF Tests!Next
  <2> QED BY <1>3, <2>1, <2>2
<1>4. reused \subseteq reused'
  <2> USE DEF Tests!past
  <2>1. ASSUME NEW w \in Workers, \/ Tests!Begin(w) \/ Tests!Spawn(w) \/ Tests!Close(w)
          \/ Tests!Reap(w) \/ Tests!Reaped(w)
                                  \/ Tests!Throw(w) \/ Tests!Repair(w) \/ Tests!Classify(w)
                                  \/ Tests!WatchdogFires(w) \/ Tests!Escalate(w)
                                  \/ \E q \in targets[w] : Tests!Term(w, q) \/ Tests!Kill(w, q)
        PROVE  reused \subseteq reused'
    BY <2>1 DEF Tests!Begin, Tests!Spawn, Tests!Close, Tests!Reap, Tests!Reaped, Tests!Throw,
       Tests!Repair, Tests!Classify, Tests!WatchdogFires, Tests!Escalate, Tests!Term, Tests!Kill
  <2>2. CASE Tests!ParentDies \/ Tests!Signal \/ Tests!HandlerExits \/ Tests!Exit
               \/ UNCHANGED Tests!vars
    BY <2>2 DEF Tests!ParentDies, Tests!Signal, Tests!HandlerExits, Tests!Exit, Tests!vars
  <2>3. ASSUME NEW d \in Tests!Dispatches, Tests!MachEnds(d) \/ Tests!Reuse(d)
        PROVE reused \subseteq reused'
    BY <2>3 DEF Tests!MachEnds, Tests!Reuse
  <2>4. ASSUME NEW q \in alive, Tests!Dies(q) PROVE reused \subseteq reused'
    BY <2>4 DEF Tests!Dies
  <2> QED BY <2>1, <2>2, <2>3, <2>4 DEF Tests!Next
<1> QED BY <1>1, <1>2, <1>3, <1>4

(* What a reap picks: what is alive, or has its pid and looks like it.       *)
LEMMA Picked ==
    ASSUME Tests!TypeOK, Apart, Past, Spared, Closed,
           NEW w \in Workers, worker[w] = "reap", NEW told, NEW alike \in SUBSET stranger,
           NEW p \in Tests!Targets(w, told, alike)
    PROVE  /\ p \in alive \cup stranger /\ p # Tests!Earlier
           /\ Known(p[1]) /\ Tests!Orphan(p)
<1>1. CASE p \in Tests!Tracked(current[w], alike)
  <2>1. p = <<current[w], "browser">> /\ p \in alive \cup stranger
    BY <1>1 DEF Tests!Tracked
  <2>2. Tests!Mach(current[w]) \notin alive
    BY DEF Closed, Tests!Group
  <2> QED BY <2>1, <2>2 DEF Tests!TypeOK, Past, Tests!Orphan, Tests!Earlier
<1>2. CASE p \in Tests!Unannounced(w)
  BY <1>2 DEF Tests!Unannounced, Tests!TypeOK, Past, Spared
<1> QED BY <1>1, <1>2 DEF Tests!Targets

(* Who gets new targets, and who loses some.                                *)
LEMMA TargetsMove ==
    ASSUME Tests!TypeOK, Apart, Past, Spared, Closed, Aimed, [Tests!Next]_(Tests!vars)
    PROVE  \A w \in Workers :
              /\ worker'[w] # "kill" => targets'[w] = {}
              /\ termed'[w] \subseteq targets'[w]
              /\ \A p \in targets'[w] \ targets[w] :
                    /\ UNCHANGED stranger /\ (p \in stranger => p \in reused')
                    /\ p # Tests!Earlier /\ Known(p[1]) /\ Tests!Orphan(p)
<1> USE DEF Tests!TypeOK, Tests!worker, Tests!procs, Tests!Goto
<1> DEFINE Goal == \A w \in Workers :
              /\ worker'[w] # "kill" => targets'[w] = {}
              /\ termed'[w] \subseteq targets'[w]
              /\ \A p \in targets'[w] \ targets[w] :
                    /\ UNCHANGED stranger /\ (p \in stranger => p \in reused')
                    /\ p # Tests!Earlier /\ Known(p[1]) /\ Tests!Orphan(p)
<1>1. ASSUME NEW x \in Workers, Tests!Reap(x) PROVE Goal
  <2>1. PICK told \in SUBSET {"announced", "all"},
             alike \in SUBSET (stranger \cap Tests!Of(current[x])) :
            /\ targets' = [targets EXCEPT ![x] = Tests!Targets(x, told, alike)]
            /\ reused' = reused \cup (Tests!Targets(x, told, alike) \ alive)
            /\ IF Tests!Targets(x, told, alike) = {} THEN Tests!Settle(x)
               ELSE worker' = [worker EXCEPT ![x] = "kill"]
    BY <1>1 DEF Tests!Reap
  <2>4. /\ worker'[x] = IF Tests!Targets(x, told, alike) = {} THEN "settled" ELSE "kill"
        /\ \A w \in Workers : w # x => worker'[w] = worker[w]
    BY <2>1 DEF Tests!Settle
  <2>2. termed' = termed /\ stranger' = stranger /\ worker[x] = "reap"
    BY <1>1 DEF Tests!Reap
  <2>3. termed[x] = {}
    BY <2>2 DEF Aimed
  <2>5. \A p \in Tests!Targets(x, told, alike) :
           /\ p \in stranger => p \in reused'
           /\ p # Tests!Earlier /\ Known(p[1]) /\ Tests!Orphan(p)
    BY <2>1, <2>2, Picked
  <2> QED BY <2>1, <2>2, <2>3, <2>4, <2>5 DEF Aimed
<1>2. ASSUME NEW x \in Workers, NEW q \in targets[x], Tests!Term(x, q) PROVE Goal
  BY <1>2 DEF Tests!Term, Aimed
<1>3. ASSUME NEW x \in Workers, NEW q \in targets[x], Tests!Kill(x, q) PROVE Goal
  BY <1>3 DEF Tests!Kill, Aimed
<1>4. ASSUME NEW x \in Workers, \/ Tests!Begin(x) \/ Tests!Spawn(x) \/ Tests!Close(x)
        \/ Tests!Reaped(x)
                                \/ Tests!Repair(x) \/ Tests!Classify(x)
      PROVE  Goal
  <2>1. UNCHANGED <<targets, termed>> /\ targets[x] = {}
    BY <1>4 DEF Tests!Begin, Tests!Spawn, Tests!Close, Tests!Reaped, Tests!Repair, Tests!Classify,
       Aimed
  <2>2. \A w \in Workers : w # x => worker'[w] = worker[w]
    BY <1>4 DEF Tests!Begin, Tests!Spawn, Tests!Close, Tests!Reaped, Tests!Repair, Tests!Classify,
       Tests!Settle
  <2> QED BY <2>1, <2>2 DEF Aimed
<1>5. CASE Aside
  BY <1>5, AsideStays DEF Aimed
<1> QED BY <1>1, <1>2, <1>3, <1>4, <1>5 DEF Tests!Next, Aside

LEMMA AimedStep ==
    ASSUME Tests!TypeOK, Apart, Past, Spared, Closed, Aimed, [Tests!Next]_(Tests!vars)
    PROVE  Aimed'
<1>1. ASSUME NEW w \in Workers, NEW p \in targets'[w]
      PROVE  p # Tests!Earlier /\ Known(p[1])' /\ Tests!Orphan(p)'
               /\ (p \in stranger' => p \in reused')
  <2>1. p # Tests!Earlier /\ Known(p[1]) /\ Tests!Orphan(p)
    BY <1>1, TargetsMove DEF Aimed
  <2>2. p \in targets[w] => (p \in stranger => p \in reused)
    BY DEF Aimed
  <2>3. p \notin targets[w] => (p \in stranger' => p \in reused')
    BY <1>1, TargetsMove
  <2> QED BY <2>1, <2>2, <2>3, AimStays
<1> QED BY <1>1, TargetsMove DEF Aimed

(* Killing is the only step with victims, and it takes targets.             *)
LEMMA SparesStep ==
    ASSUME Tests!TypeOK, Apart, Past, Aimed, Tests!SparesOthers, [Tests!Next]_(Tests!vars)
    PROVE  Tests!SparesOthers'
<1> USE DEF Tests!TypeOK, Tests!SparesOthers
<1>1. ASSUME NEW w \in Workers, NEW p \in targets[w], Tests!Term(w, p) \/ Tests!Kill(w, p)
      PROVE  Tests!SparesOthers'
  <2>1. Tests!Wrong(w, p) => p \in reused
    BY DEF Tests!Wrong, Aimed
  <2> QED BY <1>1, <2>1 DEF Tests!Term, Tests!Kill
<1>2. ASSUME NEW w \in Workers, \/ Tests!Begin(w) \/ Tests!Spawn(w) \/ Tests!Close(w)
        \/ Tests!Reap(w) \/ Tests!Reaped(w)
                                \/ Tests!Throw(w) \/ Tests!Repair(w) \/ Tests!Classify(w)
                                \/ Tests!WatchdogFires(w) \/ Tests!Escalate(w)
      PROVE  Tests!SparesOthers'
  BY <1>2 DEF Tests!Begin, Tests!Spawn, Tests!Close, Tests!Reap, Tests!Reaped, Tests!Throw,
     Tests!Repair, Tests!Classify, Tests!WatchdogFires, Tests!Escalate, Tests!past
<1>3. CASE Tests!ParentDies \/ Tests!Signal \/ Tests!HandlerExits \/ Tests!Exit
             \/ UNCHANGED Tests!vars
  BY <1>3 DEF Tests!ParentDies, Tests!Signal, Tests!HandlerExits, Tests!Exit, Tests!vars, Tests!past
<1>4. ASSUME NEW d \in Tests!Dispatches, Tests!MachEnds(d) \/ Tests!Reuse(d)
      PROVE Tests!SparesOthers'
  BY <1>4 DEF Tests!MachEnds, Tests!Reuse, Tests!past
<1>5. ASSUME NEW p \in alive, Tests!Dies(p) PROVE Tests!SparesOthers'
  BY <1>5 DEF Tests!Dies, Tests!past
<1> QED BY <1>1, <1>2, <1>3, <1>4, <1>5 DEF Tests!Next

LEMMA SafeStep ==
    ASSUME HarnessBounds, HarnessSafe, [Tests!Next]_(Tests!vars)
    PROVE  HarnessSafe'
BY HarnessTypeStep, ApartStep, PastStep, SparedStep, ClosedStep, AimedStep, SparesStep DEF
   HarnessSafe

(* Every variable of the model of a test command's processes keeps its type, *)
(* for any workers, dispatches and faults.                                  *)
THEOREM HarnessTyped == ASSUME HarnessBounds PROVE Tests!Spec => []Tests!TypeOK
<1>1. Tests!Init => HarnessSafe
  BY InitSafe
<1>2. HarnessSafe /\ [Tests!Next]_(Tests!vars) => HarnessSafe'
  BY SafeStep
<1>3. HarnessSafe => Tests!TypeOK
  BY DEF HarnessSafe
<1> QED BY <1>1, <1>2, <1>3, PTL DEF Tests!Spec

(* reapTrackedHarnessPids and terminateHarnessProcesses kill nothing of a     *)
(* harness that runs, no earlier run's survivor, and no process that has an  *)
(* announced pid by now, except one that got it between ps and the kill, or  *)
(* that ps shows running from an objdir, like the browser that had it.       *)
THEOREM ReapsItsOwn == ASSUME HarnessBounds PROVE Tests!Spec => []Tests!SparesOthers
<1>1. Tests!Init => HarnessSafe
  BY InitSafe
<1>2. HarnessSafe /\ [Tests!Next]_(Tests!vars) => HarnessSafe'
  BY SafeStep
<1>3. HarnessSafe => Tests!SparesOthers
  BY DEF HarnessSafe
<1> QED BY <1>1, <1>2, <1>3, PTL DEF Tests!Spec

-----------------------------------------------------------------------------
(* What is of a dispatch, and how it is seen.                               *)
LEMMA OfDispatch ==
    ASSUME Tests!TypeOK, NEW p \in alive, p # Tests!Earlier
    PROVE  p \in Tests!Of(p[1])
BY DEF Tests!TypeOK, Tests!Pids, Tests!Of

LEMMA Seen ==
    ASSUME Tests!TypeOK, Closed, Reaping, NEW w \in Workers, worker[w] = "reap",
           NEW told, NEW alike, NEW p \in alive \cap Tests!Of(current[w]), p # Tests!Earlier
    PROVE  p \in Tests!Targets(w, told, alike) \cup Tests!Unseen(w, told)
<1>1. p[1] = current[w] /\ p = <<current[w], p[2]>> /\ p[2] \in Tests!Kinds
  BY DEF Tests!Of
<1>2. p \notin Tests!Group(current[w]) /\ p[2] # "mach" /\ p[2] # "child" /\ Tests!Orphan(p)
  BY <1>1 DEF Closed, Tests!Group, Tests!Mach, Tests!Orphan
<1>3. CASE p[2] = "browser"
  <2>1. "announced" \in told /\ current[w] \in announced => p \in Tests!Tracked(current[w], alike)
    BY <1>1, <1>3 DEF Tests!Tracked
  <2>2. ~("announced" \in told /\ current[w] \in announced) => p \in Tests!Unseen(w, told)
    BY <1>2, <1>3 DEF Tests!Unseen
  <2> QED BY <2>1, <2>2 DEF Tests!Targets
<1>4. CASE p[2] = "http2"
  <2>1. "all" \in told /\ helpersBefore[w] # Tests!NoBase => p \in Tests!Unannounced(w)
    BY <1>1, <1>2, <1>4 DEF Tests!Unannounced, Tests!Helpers, Reaping, Tests!TypeOK
  <2>2. ~("all" \in told /\ helpersBefore[w] # Tests!NoBase) => p \in Tests!Unseen(w, told)
    BY <1>2, <1>4 DEF Tests!Unseen
  <2> QED BY <2>1, <2>2 DEF Tests!Targets
<1> QED BY <1>1, <1>2, <1>3, <1>4, KindsOf

(* missed only grows.                                                       *)
LEMMA MissedGrows == [Tests!Next]_(Tests!vars) => missed \subseteq missed'
<1> SUFFICES ASSUME [Tests!Next]_(Tests!vars) PROVE missed \subseteq missed'
  OBVIOUS
<1> USE DEF Tests!past
<1>1. ASSUME NEW w \in Workers, \/ Tests!Begin(w) \/ Tests!Spawn(w) \/ Tests!Close(w)
        \/ Tests!Reap(w) \/ Tests!Reaped(w)
                                \/ Tests!Throw(w) \/ Tests!Repair(w) \/ Tests!Classify(w)
                                \/ Tests!WatchdogFires(w) \/ Tests!Escalate(w)
                                \/ \E q \in targets[w] : Tests!Term(w, q) \/ Tests!Kill(w, q)
      PROVE  missed \subseteq missed'
  BY <1>1 DEF Tests!Begin, Tests!Spawn, Tests!Close, Tests!Reap, Tests!Reaped, Tests!Throw,
     Tests!Repair, Tests!Classify, Tests!WatchdogFires, Tests!Escalate, Tests!Term, Tests!Kill
<1>2. CASE Tests!ParentDies \/ Tests!Signal \/ Tests!HandlerExits \/ Tests!Exit
             \/ UNCHANGED Tests!vars
  BY <1>2 DEF Tests!ParentDies, Tests!Signal, Tests!HandlerExits, Tests!Exit, Tests!vars
<1>3. ASSUME NEW d \in Tests!Dispatches, Tests!MachEnds(d) \/ Tests!Reuse(d)
      PROVE missed \subseteq missed'
  BY <1>3 DEF Tests!MachEnds, Tests!Reuse
<1>4. ASSUME NEW q \in alive, Tests!Dies(q) PROVE missed \subseteq missed'
  BY <1>4 DEF Tests!Dies
<1> QED BY <1>1, <1>2, <1>3, <1>4 DEF Tests!Next

(* What settles, and what it leaves.                                        *)
LEMMA LeftStep ==
    ASSUME Tests!TypeOK, Apart, Closed, Reaping, Left, [Tests!Next]_(Tests!vars)
    PROVE  Left'
<1> USE DEF Tests!TypeOK
<1> SUFFICES ASSUME NEW p \in alive', p # Tests!Earlier, p[1] \in settled' PROVE p \in missed'
  BY DEF Left
<1>1. CASE p \notin alive
  <2>2. PICK w \in Workers : Tests!Spawn(w) /\ p[1] = current[w]
    BY <1>1, NewOnes
  <2>3. settled' = settled
    BY <2>2 DEF Tests!Spawn
  <2> QED BY <2>2, <2>3 DEF Tests!Spawn, Apart
<1>2. CASE p \in alive /\ p[1] \in settled
  BY <1>2, MissedGrows DEF Left
<1>3. CASE p \in alive /\ p[1] \notin settled
  <2>1. PICK w \in Workers : (Tests!Close(w) \/ Tests!Reap(w) \/ Tests!Reaped(w))
                               /\ p[1] = current[w] /\ Tests!Settle(w)
    <3>1. ASSUME NEW w \in Workers, Tests!Close(w) \/ Tests!Reap(w) \/ Tests!Reaped(w)
          PROVE  p[1] = current[w] /\ Tests!Settle(w)
      BY <1>3, <3>1 DEF Tests!Close, Tests!Reap, Tests!Reaped, Tests!Settle
    <3>2. ASSUME NEW w \in Workers, \/ Tests!Begin(w) \/ Tests!Spawn(w) \/ Tests!Repair(w)
            \/ Tests!Classify(w)
                                    \/ \E q \in targets[w] : Tests!Term(w, q) \/ Tests!Kill(w, q)
          PROVE  settled' = settled
      BY <3>2 DEF Tests!Begin, Tests!Spawn, Tests!Repair, Tests!Classify, Tests!Term, Tests!Kill
    <3>3. ASSUME Aside PROVE settled' = settled
      BY <3>3, AsideStays
    <3> QED BY <1>3, <3>1, <3>2, <3>3 DEF Tests!Next, Aside
  <2>2. p \in alive \cap Tests!Of(current[w])
    BY <1>3, <2>1, OfDispatch
  <2>3. CASE Tests!Close(w)
    <3>1. p \notin Tests!Group(current[w])
      BY <2>3 DEF Tests!Close
    <3> QED BY <2>1, <2>2, <2>3, <3>1 DEF Tests!Close, Tests!Settle, Tests!Goto
  <2>4. CASE Tests!Reap(w)
    <3>1. PICK told, alike :
             /\ missed' = missed \cup Tests!Unseen(w, told)
             /\ Tests!Targets(w, told, alike) = {} \/ worker'[w] = "kill"
      BY <2>4 DEF Tests!Reap, Tests!Goto
    <3>2. worker[w] = "reap" /\ worker'[w] = "settled"
      BY <2>1, <2>4 DEF Tests!Reap, Tests!Settle, Tests!Goto
    <3> QED BY <2>2, <3>1, <3>2, Seen
  <2>5. CASE Tests!Reaped(w)
    BY <2>2, <2>5, MissedGrows DEF Tests!Reaped, Reaping
  <2> QED BY <2>1, <2>3, <2>4, <2>5
<1> QED BY <1>1, <1>2, <1>3

LEMMA ReapingStep ==
    ASSUME Tests!TypeOK, Apart, Past, Closed, Aimed, Reaping, [Tests!Next]_(Tests!vars)
    PROVE  Reaping'
<1> USE DEF Tests!TypeOK, Tests!Goto
<1> DEFINE Seeing(w) == worker[w] = "kill" =>
                          \A p \in alive \cap Tests!Of(current[w]) : p \in targets[w] \cup missed
           Based(w) == /\ worker[w] \in {"idle", "settled", "done"} => helpersBefore[w] = Tests!NoBase
                       /\ helpersBefore[w] # Tests!NoBase => \A p \in helpersBefore[w] : p[1] # current[w]
<1>1. ASSUME NEW w \in Workers PROVE Based(w)'
  <2> Based(w)
    BY DEF Reaping
  <2>1. CASE Tests!Begin(w)
    <3>1. ASSUME NEW p \in alive PROVE p[1] # spawned + 1
      BY KindsOf DEF Past, Known
    <3> QED BY <2>1, <3>1 DEF Tests!Begin
  <2>2. CASE Tests!Spawn(w) \/ Tests!Repair(w) \/ Tests!Classify(w)
    BY <2>2 DEF Tests!Spawn, Tests!Repair, Tests!Classify
  <2>3. CASE Tests!Close(w)
    BY <2>3 DEF Tests!Close, Tests!Settle
  <2>4. CASE Tests!Reap(w)
    <3>1. CASE Tests!Settle(w)
      BY <2>4, <3>1 DEF Tests!Reap, Tests!Settle
    <3>2. CASE worker' = [worker EXCEPT ![w] = "kill"] /\ helpersBefore' = helpersBefore
      BY <2>4, <3>2 DEF Tests!Reap
    <3> QED BY <2>4, <3>1, <3>2 DEF Tests!Reap
  <2>5. CASE Tests!Reaped(w)
    BY <2>5 DEF Tests!Reaped, Tests!Settle
  <2>6. ASSUME NEW x \in Workers, x # w, \/ Tests!Begin(x) \/ Tests!Spawn(x) \/ Tests!Close(x)
          \/ Tests!Reap(x) \/ Tests!Reaped(x)
                                         \/ Tests!Repair(x) \/ Tests!Classify(x)
        PROVE  worker'[w] = worker[w] /\ helpersBefore'[w] = helpersBefore[w]
                 /\ current'[w] = current[w]
    BY <2>6 DEF Tests!Begin, Tests!Spawn, Tests!Close, Tests!Reap, Tests!Reaped, Tests!Repair,
       Tests!Classify, Tests!Settle
  <2>7. ASSUME NEW x \in Workers, NEW q \in targets[x], Tests!Term(x, q) \/ Tests!Kill(x, q)
        PROVE  UNCHANGED <<worker, helpersBefore, current>>
    BY <2>7 DEF Tests!Term, Tests!Kill
  <2>8. CASE Aside
    BY <2>8, AsideStays DEF Tests!worker
  <2> QED BY <2>1, <2>2, <2>3, <2>6, <2>7, <2>8, <2>4, <2>5 DEF Tests!Next, Aside
<1>2. ASSUME NEW w \in Workers, worker'[w] = "kill", NEW p \in alive' \cap Tests!Of(current'[w])
      PROVE  p \in targets'[w] \cup missed'
  <2>1. CASE Tests!Reap(w)
    <3>1. PICK told, alike :
             /\ missed' = missed \cup Tests!Unseen(w, told)
             /\ targets' = [targets EXCEPT ![w] = Tests!Targets(w, told, alike)]
      BY <2>1 DEF Tests!Reap
    <3>2. worker[w] = "reap" /\ p \in alive \cap Tests!Of(current[w]) /\ current[w] # 0
      BY <1>2, <2>1 DEF Tests!Reap, Apart
    <3>3. p # Tests!Earlier
      BY <3>2 DEF Tests!Of, Tests!Earlier
    <3> QED BY <3>1, <3>2, <3>3, Seen
  <2>2. ASSUME ~Tests!Reap(w)
        PROVE  worker[w] = "kill" /\ current'[w] = current[w]
                 /\ (targets[w] \cap alive') \subseteq targets'[w]
    <3>1. ASSUME NEW x \in Workers, \/ Tests!Begin(x) \/ Tests!Spawn(x) \/ Tests!Close(x)
            \/ Tests!Reaped(x)
                                    \/ Tests!Repair(x) \/ Tests!Classify(x)
          PROVE  worker[w] = "kill" /\ current'[w] = current[w] /\ targets'[w] = targets[w]
      BY <1>2, <3>1 DEF Tests!Begin, Tests!Spawn, Tests!Close, Tests!Reaped, Tests!Repair,
         Tests!Classify, Tests!Settle
    <3>2. ASSUME NEW x \in Workers, Tests!Reap(x)
          PROVE  worker[w] = "kill" /\ current'[w] = current[w] /\ targets'[w] = targets[w]
      <4>1. x # w /\ current' = current /\ \E T : targets' = [targets EXCEPT ![x] = T]
        BY <2>2, <3>2 DEF Tests!Reap
      <4>2. worker'[w] = worker[w]
        BY <3>2, <4>1 DEF Tests!Reap, Tests!Settle
      <4> QED BY <1>2, <4>1, <4>2
    <3>3. ASSUME NEW x \in Workers, NEW q \in targets[x], Tests!Term(x, q) \/ Tests!Kill(x, q)
          PROVE  /\ worker[w] = "kill" /\ current'[w] = current[w]
                 /\ (targets[w] \cap alive') \subseteq targets'[w]
      BY <1>2, <3>3 DEF Tests!Term, Tests!Kill, Tests!procs
    <3>4. CASE Aside
      BY <1>2, <3>4, AsideStays DEF Tests!worker
    <3> QED BY <3>1, <3>2, <3>3, <3>4 DEF Tests!Next, Aside
  <2>3. ASSUME ~Tests!Reap(w), p \notin alive PROVE FALSE
    <3>1. worker[w] = "kill" /\ p[1] = current[w]
      BY <1>2, <2>2, <2>3 DEF Tests!Of
    <3>2. Known(current[w])
      BY <3>1 DEF Apart, Known
    <3> QED BY <1>2, <2>3, <3>1, <3>2, NewOnes
  <2> QED BY <1>2, <2>1, <2>2, <2>3, MissedGrows DEF Reaping
<1> QED BY <1>1, <1>2 DEF Reaping

LEMMA UnderWayStep ==
    ASSUME Tests!TypeOK, Apart, UnderWay, [Tests!Next]_(Tests!vars)
    PROVE  UnderWay'
<1> USE DEF Tests!TypeOK, Tests!Goto, Tests!Settle
<1> DEFINE Runs(d, w) == current[w] = d /\ worker[w] \in {"spawn", "run", "reap", "kill"}
<1> SUFFICES ASSUME NEW d \in (1..spawned') \ settled'
             PROVE  \E w \in Workers : Runs(d, w)'
  BY DEF UnderWay
<1>1. ASSUME NEW x \in Workers, Tests!Begin(x) \/ Tests!Repair(x)
      PROVE \E w \in Workers : Runs(d, w)'
  <2>1. CASE d = spawned + 1
    BY <1>1, <2>1 DEF Tests!Begin, Tests!Repair
  <2>2. CASE d \in (1..spawned) \ settled
    <3>1. PICK w \in Workers : Runs(d, w)
      BY <2>2 DEF UnderWay
    <3>2. w # x
      BY <1>1, <3>1 DEF Tests!Begin, Tests!Repair
    <3> QED BY <1>1, <3>1, <3>2 DEF Tests!Begin, Tests!Repair
  <2> QED BY <1>1, <2>1, <2>2 DEF Tests!Begin, Tests!Repair
<1>2. ASSUME NEW x \in Workers, Tests!Spawn(x) \/ Tests!Classify(x)
      PROVE \E w \in Workers : Runs(d, w)'
  BY <1>2 DEF Tests!Spawn, Tests!Classify, UnderWay
<1>3. ASSUME NEW x \in Workers, Tests!Close(x) \/ Tests!Reap(x) \/ Tests!Reaped(x)
      PROVE  \E w \in Workers : Runs(d, w)'
  BY <1>3, TearsDown DEF Teardown, UnderWay
<1>4. ASSUME NEW x \in Workers, NEW q \in targets[x], Tests!Term(x, q) \/ Tests!Kill(x, q)
      PROVE  \E w \in Workers : Runs(d, w)'
  BY <1>4 DEF Tests!Term, Tests!Kill, UnderWay
<1>5. CASE Aside
  BY <1>5, AsideStays DEF Tests!worker, UnderWay
<1> QED BY <1>1, <1>2, <1>3, <1>4, <1>5 DEF Tests!Next, Aside

(* Whoever exits has swept what it leaves, or abandoned it.                 *)
LEMMA AbandonedStep ==
    ASSUME Tests!TypeOK, Apart, Past, Left, Abandoned, UnderWay, [Tests!Next]_(Tests!vars)
    PROVE  Abandoned'
<1> USE DEF Tests!TypeOK
<1>1. ASSUME NEW p \in alive, p # Tests!Earlier PROVE p[1] \in 1..spawned
  BY <1>1 DEF Past, Known
<1>2. CASE ~exited /\ \E w \in Workers : Tests!Throw(w)
  <2>1. alive' = alive /\ missed' = missed /\ excused' = excused \cup (1..spawned \ settled)
    BY <1>2 DEF Tests!Throw, Tests!procs
  <2> QED BY <1>1, <2>1 DEF Left, Abandoned
<1>3. CASE ~exited /\ Tests!HandlerExits
  <2>1. alive' = alive /\ missed' = missed
    BY <1>3 DEF Tests!HandlerExits, Tests!procs
  <2>2. CASE awaited \subseteq settled /\ excused' = excused \cup (1..spawned \ awaited)
    BY <1>1, <2>1, <2>2 DEF Left, Abandoned
  <2>3. CASE excused' = excused \cup (1..spawned \ settled)
    BY <1>1, <2>1, <2>3 DEF Left, Abandoned
  <2> QED BY <1>3, <2>2, <2>3 DEF Tests!HandlerExits
<1>4. CASE ~exited /\ Tests!Exit
  <2>1. alive' = alive /\ missed' = missed /\ excused' = excused
    BY <1>4 DEF Tests!Exit, Tests!procs, Tests!past
  <2>2. (1..spawned) \ settled = {}
    BY <1>4 DEF Tests!Exit, UnderWay
  <2> QED BY <1>1, <2>1, <2>2 DEF Left, Abandoned
<1>5. CASE UNCHANGED Tests!vars
  BY <1>5 DEF Abandoned, Tests!vars, Tests!procs, Tests!past
<1>6. CASE exited' = exited /\ ~exited
  BY <1>6 DEF Abandoned
<1>7. ASSUME NEW w \in Workers, \/ Tests!Begin(w) \/ Tests!Spawn(w) \/ Tests!Close(w)
        \/ Tests!Reap(w) \/ Tests!Reaped(w)
                                \/ Tests!Repair(w) \/ Tests!Classify(w)
                                \/ Tests!WatchdogFires(w) \/ Tests!Escalate(w)
                                \/ \E q \in targets[w] : Tests!Term(w, q) \/ Tests!Kill(w, q)
      PROVE  exited' = exited
  BY <1>7 DEF Tests!Begin, Tests!Spawn, Tests!Close, Tests!Reap, Tests!Reaped, Tests!Repair,
     Tests!Classify, Tests!WatchdogFires, Tests!Escalate, Tests!Term, Tests!Kill
<1>8. ASSUME NEW d \in Tests!Dispatches, Tests!MachEnds(d) \/ Tests!Reuse(d) PROVE exited' = exited
  BY <1>8 DEF Tests!MachEnds, Tests!Reuse
<1>9. ASSUME NEW q \in alive, Tests!Dies(q) PROVE exited' = exited
  BY <1>9 DEF Tests!Dies
<1>10. (Tests!ParentDies \/ Tests!Signal) => exited' = exited
  BY DEF Tests!ParentDies, Tests!Signal
<1> QED BY <1>2, <1>3, <1>4, <1>5, <1>6, <1>7, <1>8, <1>9, <1>10 DEF Tests!Next

LEMMA InitClean == Tests!Init => HarnessClean
BY DEF Tests!Init, HarnessClean, Reaping, Left, Abandoned, UnderWay

LEMMA CleanStep ==
    ASSUME HarnessSafe, HarnessClean, [Tests!Next]_(Tests!vars)
    PROVE  HarnessClean'
BY LeftStep, ReapingStep, UnderWayStep, AbandonedStep DEF HarnessSafe, HarnessClean

(* A dispatch of `fireforge test` that has settled has left no process behind *)
(* but those its teardown cannot see, and FireForge's exit leaves no others   *)
(* but those of the dispatches it abandons.                                   *)
THEOREM LeavesNothing == ASSUME HarnessBounds PROVE Tests!Spec => []Tests!NothingLeft
<1>1. Tests!Init => HarnessSafe /\ HarnessClean
  BY InitSafe, InitClean
<1>2. HarnessSafe /\ HarnessClean /\ [Tests!Next]_(Tests!vars) => (HarnessSafe /\ HarnessClean)'
  BY SafeStep, CleanStep
<1>3. HarnessSafe /\ HarnessClean => Tests!NothingLeft
  BY DEF HarnessClean, Left, Abandoned, Tests!NothingLeft
<1> QED BY <1>1, <1>2, <1>3, PTL DEF Tests!Spec

-----------------------------------------------------------------------------
(* The instance that the lemmas about the tests are taken from: the same as  *)
(* MCEngine's own.                                                           *)
SP == INSTANCE TestSession_proofs

LEMMA SameSession ==
    /\ SP!Init <=> Session!Init
    /\ SP!Next <=> Session!Next
    /\ UNCHANGED SP!vars <=> UNCHANGED Session!vars
    /\ SP!TypeOK <=> Session!TypeOK
    /\ SP!VerdictTrue <=> Session!VerdictTrue
    /\ SP!BytesKept <=> Session!BytesKept
    /\ SP!EditsSurvive <=> Session!EditsSurvive
BY DEF SP!vars, Session!vars, SP!Contents, Session!Contents, SP!Clean, Session!Clean, SP!Neuter,
       Session!Neuter, SP!Dirty, Session!Dirty, SP!NoPrint, Session!NoPrint, SP!NoJournal,
       Session!NoJournal, SP!Journals, Session!Journals, SP!Baselines, Session!Baselines,
       SP!Fingerprint, Session!Fingerprint, SP!Commands, Session!Commands, SP!PCs, Session!PCs,
       SP!Runs, Session!Runs, SP!Idle, Session!Idle, SP!Controls, Session!Controls, SP!NoControl,
       Session!NoControl, SP!TypeOK, Session!TypeOK, SP!NoVerdict, Session!NoVerdict, SP!Init,
       Session!Init, SP!At, Session!At, SP!Goto, Session!Goto, SP!source, Session!source,
       SP!objdir, Session!objdir, SP!history, Session!history, SP!bounds, Session!bounds,
       SP!Write, Session!Write, SP!Overwrite, Session!Overwrite, SP!Unrecorded,
       Session!Unrecorded, SP!Finish, Session!Finish, SP!Start, Session!Start, SP!Exclusive,
       Session!Exclusive, SP!Enter, Session!Enter, SP!Look, Session!Look, SP!Put, Session!Put,
       SP!Remove, Session!Remove, SP!Recover, Session!Recover, SP!Recovered, Session!Recovered,
       SP!Prepare, Session!Prepare, SP!WriteJournal, Session!WriteJournal, SP!Mutate,
       Session!Mutate, SP!MutateFails, Session!MutateFails, SP!Reads, Session!Reads, SP!Compile,
       Session!Compile, SP!Link, Session!Link, SP!AfterBuild, Session!AfterBuild, SP!Continue,
       Session!Continue, SP!BuildFails, Session!BuildFails, SP!Stamp, Session!Stamp, SP!Record,
       Session!Record, SP!StalePackage, Session!StalePackage, SP!StaleCompiled,
       Session!StaleCompiled, SP!ControlBuilt, Session!ControlBuilt, SP!Gate, Session!Gate,
       SP!Snapshot, Session!Snapshot, SP!Dispatch, Session!Dispatch, SP!Unmoved, Session!Unmoved,
       SP!Verify, Session!Verify, SP!BeginRestore, Session!BeginRestore, SP!Restored,
       Session!Restored, SP!InWindow, Session!InWindow, SP!Unseen, Session!Unseen, SP!Edit,
       Session!Edit, SP!Signal, Session!Signal, SP!Exit, Session!Exit, SP!Kill, Session!Kill,
       SP!Step, Session!Step, SP!Next, Session!Next, SP!VerdictTrue, Session!VerdictTrue,
       SP!BytesKept, Session!BytesKept, SP!EditsSurvive, Session!EditsSurvive

(* A step of the run is, for each of the three, a step or none.              *)
LEMMA EngineStep ==
    ASSUME [EngineNext]_engineVars
    PROVE  /\ [Next]_vars
           /\ [SP!Next]_(SP!vars)
           /\ [Tests!Next]_(Tests!vars)
<1> USE DEF EngineNext, Others, engineVars
<1>1. [Next]_vars
  OBVIOUS
<1>2. [Session!Next]_(Session!vars)
  <2>1. UNCHANGED sessionVars => UNCHANGED Session!vars
    BY DEF sessionVars, Session!vars, Session!source, Session!objdir, Session!history,
           Session!bounds
  <2> QED BY <2>1
<1>3. [Tests!Next]_(Tests!vars)
  <2>1. UNCHANGED harnessVars => UNCHANGED Tests!vars
    BY DEF harnessVars, Tests!vars, Tests!procs, Tests!worker, Tests!signals, Tests!past
  <2> QED BY <2>1
<1> QED BY <1>1, <1>2, <1>3, SameSession

(* The invariants of the parts, together.                                    *)
RebaseInv == TypeOK /\ Shape /\ Tracks /\ Drained /\ Told /\ Retracing
EngineInv == RebaseInv /\ SP!Inv /\ HarnessSafe /\ HarnessClean

LEMMA EngineBegins == EngineInit => EngineInv
<1> SUFFICES ASSUME EngineInit PROVE EngineInv
  OBVIOUS
<1>1. RebaseInv
  BY InitAll DEF EngineInit, RebaseInv
<1>2. SP!Inv
  BY EngineAssumption, SameSession, SP!SessionInit DEF EngineInit, SP!Bounds
<1>3. HarnessSafe /\ HarnessClean
  BY EngineAssumption, InitSafe, InitClean DEF EngineInit, HarnessBounds
<1> QED BY <1>1, <1>2, <1>3 DEF EngineInv

LEMMA EngineKeeps == EngineInv /\ [EngineNext]_engineVars => EngineInv'
<1> SUFFICES ASSUME EngineInv, [EngineNext]_engineVars PROVE EngineInv'
  OBVIOUS
<1>1. RebaseInv'
  BY EngineStep, AllStep DEF EngineInv, RebaseInv
<1>2. SP!Inv'
  BY EngineAssumption, EngineStep, SP!SessionStep DEF EngineInv, SP!Bounds
<1>3. HarnessSafe' /\ HarnessClean'
  BY EngineAssumption, EngineStep, SafeStep, CleanStep DEF EngineInv, HarnessBounds
<1> QED BY <1>1, <1>2, <1>3 DEF EngineInv

(* Every variable of a rebase, of the tests and of their processes keeps its *)
(* type.                                                                     *)
THEOREM EngineTyped == EngineSpec => []EngineTypes
<1>1. EngineInv => EngineTypes
  BY SameSession DEF EngineInv, RebaseInv, SP!Inv, HarnessSafe, EngineTypes
<1> QED BY <1>1, EngineBegins, EngineKeeps, PTL DEF EngineSpec

(* A verdict is about what the engine held when it was checked, and that of  *)
(* a controlled run about the control: VerdictTrue, but for its blind spots. *)
THEOREM VerdictsTrue == EngineSpec => []VerdictTrue
<1>1. EngineInv => VerdictTrue
  BY SameSession DEF EngineInv, SP!Inv, VerdictTrue
<1> QED BY <1>1, EngineBegins, EngineKeeps, PTL DEF EngineSpec

(* As long as a control's lines are in the engine, what was there before     *)
(* them is on disk for a later run: BytesKept, whoever is killed when.       *)
THEOREM ControlsKeepBytes == EngineSpec => []BytesKept
<1>1. EngineInv => BytesKept
  BY SameSession DEF EngineInv, SP!Inv, SP!Journaled, BytesKept
<1> QED BY <1>1, EngineBegins, EngineKeeps, PTL DEF EngineSpec

(* No control, and no restore, overwrites an edit that did not fall between  *)
(* its reading of the file and its writing of it: EditsSurvive.              *)
THEOREM ControlsSpareEdits == EngineSpec => []EditsSurvive
<1>1. EngineInv => EditsSurvive
  BY SameSession DEF EngineInv, SP!Inv, SP!Read, EditsSurvive
<1> QED BY <1>1, EngineBegins, EngineKeeps, PTL DEF EngineSpec

(* A settled dispatch has left no process behind but those its teardown      *)
(* cannot see: NothingLeft.                                                  *)
THEOREM DispatchesEnd == EngineSpec => []NothingLeft
<1>1. HarnessClean => Tests!NothingLeft
  BY DEF HarnessClean, Left, Abandoned, Tests!NothingLeft
<1>2. EngineInv => NothingLeft
  BY <1>1 DEF EngineInv, NothingLeft
<1> QED BY <1>2, EngineBegins, EngineKeeps, PTL DEF EngineSpec

(* No teardown kills what is not its dispatch's, but a pid that changed      *)
(* hands between ps and the kill: SparesOthers.                              *)
THEOREM DispatchesSpare == EngineSpec => []SparesOthers
<1>1. EngineInv => SparesOthers
  BY DEF EngineInv, HarnessSafe, SparesOthers
<1> QED BY <1>1, EngineBegins, EngineKeeps, PTL DEF EngineSpec
=============================================================================
