------------------------------ MODULE MCEngine ------------------------------
(***************************************************************************)
(* What runs over engine/ as a whole: a rebase, builds and tests, or the     *)
(* processes of one test command.  The modules describe different aspects    *)
(* and share no variable, so `part` picks one at the start.                  *)
(***************************************************************************)
EXTENDS Rebase, TLC

CONSTANTS
    Procs, Nobody, MaxEdits, MaxCommands, MaxKills,
    Workers, MaxDispatches, MaxHelpers, MaxFaults

VARIABLES
    part,
    kind, file, built, obj, newer, objOld, baseline, journal, lock, run, control, verdict, lost,
    windowed, unseen, edits, commands, kills,
    alive, piped, stranger, worker, current, bare, helpersBefore, announced, targets, termed,
    watch, spawned, settled, parent, noticed, signalled, awaited, exited, missed, excused, hit,
    reused, faults

sessionVars == <<kind, file, built, obj, newer, objOld, baseline, journal, lock, run, control,
                 verdict, lost, windowed, unseen, edits, commands, kills>>

harnessVars == <<alive, piped, stranger, worker, current, bare, helpersBefore, announced,
                 targets, termed, watch, spawned, settled, parent, noticed, signalled, awaited,
                 exited, missed, excused, hit, reused, faults>>

Session == INSTANCE TestSession
Tests   == INSTANCE Harness WITH pc <- worker, baseline <- helpersBefore, ended <- exited,
                                 windowed <- reused

(* What the proofs ask of the constants: bounds are numbers, and nobody is no *)
(* process.                                                                 *)
ASSUME EngineAssumption ==
    /\ Nobody \notin Procs
    /\ MaxEdits \in Nat /\ MaxCommands \in Nat /\ MaxKills \in Nat
    /\ MaxDispatches \in Nat /\ MaxFaults \in Nat

engineVars == <<part, vars, sessionVars, harnessVars>>

Symmetry == Permutations(Procs) \cup Permutations(Workers)

\* Only the gates of a copied file read whether there is a baseline; elsewhere there is one.
EngineInit ==
    /\ part \in {"rebase", "session", "harness"}
    /\ Init /\ Session!Init /\ Tests!Init
    /\ kind # "copied" => baseline.there
    /\ part # "session" => kind = "live" /\ file = Session!Clean

Others(p) ==
    /\ part = p /\ part' = part
    /\ p # "rebase" => UNCHANGED vars
    /\ p # "session" => UNCHANGED sessionVars
    /\ p # "harness" => UNCHANGED harnessVars

EngineNext ==
    \/ Others("rebase") /\ Next
    \/ Others("session") /\ Session!Next
    \/ Others("harness") /\ Tests!Next

EngineSpec == EngineInit /\ [][EngineNext]_engineVars

(* Every variable of the rebase, the tests and their processes stays in its type. *)
EngineTypes ==
    /\ part = "rebase" => TypeOK
    /\ part = "session" => Session!TypeOK
    /\ part = "harness" => Tests!TypeOK

(* The properties of the tests and of their processes, stated in their modules. *)
VerdictTrue  == part = "session" => Session!VerdictTrue
BytesKept    == part = "session" => Session!BytesKept
EditsSurvive == part = "session" => Session!EditsSurvive
NothingLeft  == part = "harness" => Tests!NothingLeft
SparesOthers == part = "harness" => Tests!SparesOthers
=============================================================================
