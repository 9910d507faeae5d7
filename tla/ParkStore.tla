----------------------------- MODULE ParkStore -----------------------------
(***************************************************************************)
(* `fireforge park`: a session's edits in a patch's files are set aside     *)
(* under .fireforge/park/<label>/ and merged back later.  Sources:          *)
(* core/park-store.ts and commands/park.ts.                                 *)
(*                                                                         *)
(* Parking and restoring run under the engine session lock, one command at  *)
(* a time; dropping takes no lock, nor does whoever edits the engine.  A    *)
(* command may fail or be killed between any two of its steps; every file   *)
(* is written by renaming.  A file's content is the set of session hunks    *)
(* in it.                                                                   *)
(***************************************************************************)
EXTENDS Naturals

CONSTANTS
    Files,        \* of one patch
    Created,      \* ... those its baseline does not have
    Hunks,
    Labels,
    MaxCommands, MaxEdits, MaxStops   \* bounds

VARIABLES
    source,     \* engine/: each file's content
    parks,      \* .fireforge/park: each label's directory
    step,       \* what the running command does next
    label,      \* ... for which park
    plan,       \* ... the files it has planned
    todo,       \* ... and those this step still has to write
    mode,       \* ... parking, restoring, or restoring with a conflict
    made,       \* history: edits somebody made and did not take back or drop
    raced,      \* history: edits made to a file between its reading and writing
    runs, edits, stops

record == <<source, parks>>
plans  == <<label, plan, mode>>
past   == <<made, raced>>
bounds == <<runs, edits, stops>>
vars   == <<record, step, plans, todo, past, bounds>>

Absent   == {"absent"}
Contents == (SUBSET Hunks) \cup {Absent}
Bodies   == [path : Files, before : Contents, after : Contents]
NoPark   == [there |-> FALSE, bodies |-> {}, listed |-> FALSE, index |-> {}]

Base(f)     == IF f \in Created THEN Absent ELSE {}
Paths(P)    == {b.path : b \in P}
Readable(l) == parks[l].listed /\ parks[l].index \subseteq Paths(parks[l].bodies)
HunksOf(P)  == {e \in Files \X Hunks : \E b \in P : b.path = e[1] /\ e[2] \in b.before}

TypeOK ==
    /\ source \in [Files -> Contents]
    /\ parks \in [Labels -> [there : BOOLEAN, bodies : SUBSET Bodies, listed : BOOLEAN,
                            index : SUBSET Files]]
    /\ step \in {"idle", "check", "bodies", "index", "write", "finish", "drop"}
    /\ label \in Labels /\ plan \subseteq Bodies /\ todo \subseteq plan
    /\ mode \in {"park", "restore", "conflict"}
    /\ made \subseteq Files \X Hunks /\ raced \subseteq Files \X Hunks
    /\ runs \in 0..MaxCommands /\ edits \in 0..MaxEdits /\ stops \in 0..MaxStops

Init ==
    /\ source = [f \in Files |-> Base(f)]
    /\ parks = [l \in Labels |-> NoPark]
    /\ step = "idle" /\ label \in Labels /\ plan = {} /\ todo = {}
    /\ mode = "park"
    /\ made = {} /\ raced = {}
    /\ runs = 0 /\ edits = 0 /\ stops = 0

-----------------------------------------------------------------------------
Leave == step' = "idle" /\ plan' = {} /\ todo' = {} /\ mode' = "park"
Stay  == UNCHANGED <<plan, todo, mode>>

-----------------------------------------------------------------------------
(* Parking                                                                  *)

Begin(l, m, P) ==
    /\ step = "idle" /\ runs < MaxCommands /\ runs' = runs + 1
    /\ label' = l /\ mode' = m /\ plan' = P /\ todo' = P
    /\ UNCHANGED <<record, past, edits, stops>>

(* planPark: every drifted file goes back to the baseline, or one loses the  *)
(* hunks a diff names.                                                      *)
Drifted ==
    {[path |-> f, before |-> source[f], after |-> Base(f)] :
        f \in {g \in Files : source[g] # Base(g)}}

Park(l) ==
    /\ \/ Drifted # {} /\ Begin(l, "park", Drifted)
       \/ \E f \in Files : \E H \in SUBSET (source[f] \cap Hunks) \ {{}} :
            Begin(l, "park", {[path |-> f, before |-> source[f], after |-> source[f] \ H]})
    /\ step' = "check"

(* Mutant: an existing park of that name is written over. *)
CheckNothing ==
    /\ step = "check"
    /\ step' = "bodies"
    /\ UNCHANGED <<record, plans, todo, past, bounds>>

(* writePark *)
Check ==
    /\ step = "check"
    /\ IF parks[label].there THEN Leave ELSE step' = "bodies" /\ Stay
    /\ UNCHANGED <<record, label, past, bounds>>

Body(b) ==
    /\ step = "bodies" /\ b \in todo /\ todo' = todo \ {b}
    /\ parks' = [parks EXCEPT ![label] =
                    [@ EXCEPT !.there = TRUE,
                              !.bodies = {c \in parks[label].bodies : c.path # b.path} \cup {b}]]
    /\ UNCHANGED <<source, step, plans, past, bounds>>

Index ==
    /\ step = "bodies" /\ todo = {}
    /\ parks' = [parks EXCEPT ![label] =
                    [@ EXCEPT !.there = TRUE, !.listed = TRUE, !.index = Paths(plan)]]
    /\ step' = "write" /\ todo' = plan
    /\ UNCHANGED <<source, plans, past, bounds>>

WriteEngineFile(b) ==
    /\ step = "write" /\ b \in todo /\ todo' = todo \ {b}
    /\ source' = [source EXCEPT ![b.path] = b.after]
    /\ UNCHANGED <<parks, step, plans, past, bounds>>

-----------------------------------------------------------------------------
(* Restoring                                                                *)

(* planRestore, mergeThreeWay.  Where the file has changed since, the merge  *)
(* is clean or (`clash`) leaves both sides between markers; absence does     *)
(* not merge.                                                               *)
Merges(b)  == source[b.path] \notin {b.after, b.before}
Fails(b)   == Merges(b) /\ Absent \in {source[b.path], b.before, b.after}
Merged(b)  == (source[b.path] \ (b.after \ b.before)) \cup (b.before \ b.after)

Content(b, clash) ==
    CASE ~Merges(b) -> b.before
      [] Fails(b) -> source[b.path]
      [] b \in clash -> source[b.path] \cup b.before
      [] OTHER -> Merged(b)

Restore(l) ==
    /\ Readable(l)
    /\ LET B == {b \in parks[l].bodies : b.path \in parks[l].index}
       IN \E clash \in SUBSET {b \in B : Merges(b) /\ ~Fails(b)} :
            Begin(l,
                  IF clash # {} \/ \E b \in B : Fails(b) THEN "conflict" ELSE "restore",
                  {[b EXCEPT !.after = Content(b, clash)] : b \in B})
    /\ step' = "write"

(* A restoration without conflicts drops the park.                          *)
Finish ==
    /\ step = "write" /\ todo = {}
    /\ IF mode = "restore" THEN step' = "drop" /\ Stay ELSE Leave
    /\ UNCHANGED <<record, label, past, bounds>>

(* dropPark removes the directory entry by entry.                           *)
DropSome ==
    /\ step = "drop" /\ parks[label].there
    /\ \E b \in parks[label].bodies :
         parks' = [parks EXCEPT ![label].bodies = @ \ {b}]
    /\ UNCHANGED <<source, step, plans, todo, past, bounds>>

DropRest ==
    /\ step = "drop"
    /\ parks' = [parks EXCEPT ![label] = NoPark]
    /\ Leave
    /\ UNCHANGED <<source, label, past, bounds>>

-----------------------------------------------------------------------------
(* Outside the lock                                                         *)

(* park --drop: what only this park has, or is about to have, is given up.   *)
Drop(l) ==
    /\ parks[l].there
    /\ parks' = [parks EXCEPT ![l] = NoPark]
    /\ LET running == IF step \in {"bodies", "write"} /\ label = l THEN plan ELSE {}
           given   == {e \in HunksOf(parks[l].bodies) : e[2] \notin source[e[1]]}
       IN made' = made \ (given \cup HunksOf(running))
    /\ UNCHANGED <<source, step, plans, todo, raced, bounds>>

Stop ==
    /\ step # "idle" /\ stops < MaxStops /\ stops' = stops + 1
    /\ Leave
    /\ UNCHANGED <<record, label, past, runs, edits>>

(* f has been read by the running command, and not written yet. *)
Pending(f) ==
    \/ step \in {"check", "bodies"} /\ f \in Paths(plan)
    \/ step = "write" /\ f \in Paths(todo)

Edit(f, h) ==
    /\ edits < MaxEdits /\ edits' = edits + 1
    /\ IF h \in source[f]
       THEN /\ source' = [source EXCEPT ![f] = @ \ {h}]
            /\ made' = made \ {<<f, h>>} /\ UNCHANGED raced
       ELSE /\ source' = [source EXCEPT ![f] = (@ \ Absent) \cup {h}]
            /\ made' = made \cup {<<f, h>>}
            /\ raced' = IF Pending(f) THEN raced \cup {<<f, h>>} ELSE raced \ {<<f, h>>}
    /\ UNCHANGED <<parks, step, plans, todo, runs, stops>>

-----------------------------------------------------------------------------
Next ==
    \/ \E l \in Labels : Park(l) \/ Restore(l) \/ Drop(l)
    \/ \E b \in todo : Body(b) \/ WriteEngineFile(b)
    \/ Check \/ Index \/ Finish \/ DropSome \/ DropRest \/ Stop
    \/ \E f \in Files, h \in Hunks : Edit(f, h)

Spec == Init /\ [][Next]_vars

-----------------------------------------------------------------------------
(* Properties *)

(* Whatever fails, is killed, dropped or restored in between: an edit is in  *)
(* the engine or in a park that can be restored, unless somebody took it     *)
(* back or dropped it, or made it to a file in the command's hands.          *)
WorkKept ==
    \A e \in made \ raced :
        \/ e[2] \in source[e[1]]
        \/ \E l \in Labels : Readable(l) /\ e \in HunksOf(parks[l].bodies)
=============================================================================
