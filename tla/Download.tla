------------------------------ MODULE Download ------------------------------
(***************************************************************************)
(* `fireforge download`: the source archive is fetched into the cache,      *)
(* verified, extracted beside engine/, moved into place and committed as    *)
(* the baseline; --force sets the old engine aside meanwhile.  Sources:     *)
(* commands/download.ts, core/firefox.ts, firefox-cache.ts,                 *)
(* firefox-download.ts, firefox-extract.ts, git.ts (initRepository).        *)
(*                                                                         *)
(* One command runs at a time: everything happens under the download lock,  *)
(* which a killed command leaves to the next one.  Every file operation is  *)
(* a step that may fail, and the command may die between any two.           *)
(*                                                                         *)
(* Engines have generations, 1 being the one there may be at first.         *)
(***************************************************************************)
EXTENDS Naturals, FiniteSets

CONSTANTS
    MaxCommands,    \* bound on commands
    MaxFaults,      \* bound on failures and kills
    MaxAttempts     \* requests before a download is given up

VARIABLES
    tarball,    \* the archive in the cache, under its final name
    part,       \* an archive being downloaded, or left by a killed download
    metadata,   \* its sidecar is there
    tmp,        \* engine.tmp-*: an extraction
    fresh,      \* engine.replacement-*
    engine,     \* engine/
    backups,    \* engine.backup-*
    stamp,      \* the generation state.json names, by version and baseCommit
    furnace,    \* the generation the applied checksums describe
    pc, force,  \* the running command
    replacing,  \* ... will replace engine/
    tries,      \* ... its requests so far
    agreed,     \* history: generations found to hold nothing, or whose loss was confirmed
    worked,     \* history: generations somebody has worked in
    late,       \* history: a failure after the stamp, or of a put-back
    commands, faults

cache  == <<tarball, part, metadata>>
trees  == <<tmp, fresh, engine, backups>>
states == <<stamp, furnace>>
choice == <<force, replacing, agreed>>
rest   == <<worked, late, commands, faults>>
vars   == <<cache, trees, states, pc, choice, tries, rest>>

Nothing  == "nothing"
\* "trusted": taken without its digest, good or bad.
Archives == {Nothing, "good", "bad", "trusted"}
Accepted == {"good", "trusted"}
Gens     == 1..MaxCommands + 1
NoGen    == 0
NoTree   == [gen |-> 1, git |-> Nothing, work |-> FALSE, state |-> Nothing]
Trees    == [gen : Gens, git : {Nothing, "unborn", "head"}, work : BOOLEAN,
             state : {Nothing, "whole", "torn"}]
There(t) == t.state # Nothing

PCs == {"idle", "sweep", "look", "validate", "invalidate", "unlink", "fetch", "promote",
        "verify", "describe", "discard", "extract", "extracting", "unextract", "install",
        "aside", "activate", "unactivate", "init", "commit", "clean", "forget", "record",
        "note", "unbackup", "drop", "putback", "resume", "resumed"}

TypeOK ==
    /\ tarball \in Archives /\ part \in Archives /\ metadata \in BOOLEAN
    /\ tmp \in {Nothing, "partial", "whole"}
    /\ fresh \in Trees /\ engine \in Trees /\ backups \subseteq Trees
    /\ stamp \in {NoGen} \cup Gens /\ furnace \in {NoGen} \cup Gens
    /\ pc \in PCs /\ force \in BOOLEAN /\ replacing \in BOOLEAN
    /\ tries \in 0..MaxAttempts
    /\ agreed \subseteq Gens /\ worked \subseteq Gens /\ late \in BOOLEAN
    /\ commands \in 0..MaxCommands /\ faults \in 0..MaxFaults

(* A new project, or one with a worked-in engine and Furnace components in it. *)
Init ==
    /\ \/ engine = NoTree /\ stamp = NoGen /\ furnace = NoGen
       \/ engine = [gen |-> 1, git |-> "head", work |-> FALSE, state |-> "whole"]
          /\ stamp = 1 /\ furnace = 1
    /\ tarball = Nothing /\ part = Nothing /\ metadata = FALSE
    /\ tmp = Nothing /\ fresh = NoTree /\ backups = {}
    /\ pc = "idle" /\ force = FALSE /\ replacing = FALSE /\ tries = 0
    /\ agreed = {} /\ worked = {} /\ late = FALSE
    /\ commands = 0 /\ faults = 0

-----------------------------------------------------------------------------
(* Helpers *)

Goto(from, to) == pc = from /\ pc' = to

(* A step that fails, and what the command does about it. *)
Fault(from, to) ==
    /\ faults < MaxFaults /\ faults' = faults + 1
    /\ Goto(from, to)
    /\ UNCHANGED <<worked, late, commands>>

(* How the command leaves when something fails before the engine is replaced:*)
(* a replacement directory is removed.                                       *)
GiveUp == IF replacing THEN "drop" ELSE "idle"

(* ... and after: the previous engine comes back.                            *)
GoBack == IF replacing THEN "putback" ELSE "idle"

-----------------------------------------------------------------------------
(* Under the download lock: the sweep, and what is there already.            *)

Start ==
    /\ commands < MaxCommands /\ commands' = commands + 1
    /\ Goto("idle", "sweep")
    /\ force' \in BOOLEAN
    /\ replacing' = FALSE /\ tries' = 0
    /\ UNCHANGED <<agreed, cache, trees, states, worked, late, faults>>

(* Working directories of interrupted commands go; backups stay.             *)
Sweep ==
    /\ Goto("sweep", "look")
    /\ tmp' = Nothing /\ fresh' = NoTree
    /\ UNCHANGED <<cache, engine, backups, states, choice, tries, rest>>

(* describeForcedReplacementLoss: work against HEAD, or a HEAD nobody recorded *)
Loss == engine.git = "head" /\ (engine.work \/ stamp # engine.gen)

Look ==
    /\ pc = "look"
    /\ \/ ~There(engine) /\ pc' = "validate" /\ UNCHANGED <<replacing, agreed>>
       \/ /\ There(engine) /\ ~force
          /\ pc' = IF engine.git = "unborn" THEN "resume" ELSE "idle"
          /\ UNCHANGED <<replacing, agreed>>
       \/ /\ There(engine) /\ force
          /\ \/ pc' = "validate" /\ replacing' = TRUE   \* nothing to lose, or confirmed
                /\ agreed' = agreed \cup {engine.gen}
             \/ Loss /\ pc' = "idle" /\ UNCHANGED <<replacing, agreed>>
    /\ UNCHANGED <<cache, trees, states, force, tries, rest>>

-----------------------------------------------------------------------------
(* The cache.                                                                *)

(* Mutant: a promoted archive is as good as one with a sidecar. *)
ValidAnyway == tarball # Nothing

(* validateCachedArchive: the sidecar names the digest, which is recomputed,  *)
(* but not how it was come by.                                               *)
Valid == tarball \in Accepted /\ metadata

Validate ==
    /\ pc = "validate"
    /\ pc' = CASE Valid -> "extract"
               [] ~Valid /\ (tarball # Nothing \/ metadata) -> "invalidate"
               [] OTHER -> "fetch"
    /\ part' = IF Valid THEN part ELSE Nothing
    /\ UNCHANGED <<tarball, metadata, trees, states, choice, tries, rest>>

(* Archive first, sidecar second: a sidecar alone is no valid entry.         *)
Invalidate ==
    /\ Goto("invalidate", "unlink")
    /\ tarball' = Nothing
    /\ UNCHANGED <<part, metadata, trees, states, choice, tries, rest>>

Unlink ==
    /\ Goto("unlink", "fetch")
    /\ metadata' = FALSE
    /\ UNCHANGED <<tarball, part, trees, states, choice, tries, rest>>

(* Transient failures are retried; a body may arrive damaged.                *)
Fetch ==
    /\ pc = "fetch"
    /\ \E body \in {"good", "bad"} :
         /\ body = "bad" => faults < MaxFaults
         /\ faults' = IF body = "bad" THEN faults + 1 ELSE faults
         /\ part' = body
    /\ pc' = "promote"
    /\ UNCHANGED <<tarball, metadata, trees, states, choice, tries, worked, late, commands>>

Retry ==
    /\ pc = "fetch"
    /\ tries' = tries + 1
    /\ IF tries + 1 < MaxAttempts THEN UNCHANGED <<pc>> ELSE pc' = "discard"
    /\ UNCHANGED <<cache, trees, states, choice, rest>>

(* A body that stalls or breaks off is not asked for again.                  *)
FetchFails ==
    /\ Fault("fetch", "discard")
    /\ part' = "bad"
    /\ UNCHANGED <<tarball, metadata, trees, states, choice, tries>>

(* The archive gets its final name before it is verified.                    *)
Promote ==
    /\ Goto("promote", "verify")
    /\ tarball' = part /\ part' = Nothing
    /\ UNCHANGED <<metadata, trees, states, choice, tries, rest>>

Verify ==
    /\ pc = "verify"
    /\ pc' = IF tarball = "good" THEN "describe" ELSE "discard"
    /\ UNCHANGED <<cache, trees, states, choice, tries, rest>>

(* The digest cannot be obtained: fails closed, unless fireforge.json allows *)
(* an unverified download.                                                   *)
Unverifiable ==
    /\ \/ Fault("verify", "discard") /\ UNCHANGED tarball
       \/ Fault("verify", "describe") /\ tarball' = "trusted"
    /\ UNCHANGED <<part, metadata, trees, states, choice, tries>>

Describe ==
    /\ Goto("describe", "extract")
    /\ metadata' = TRUE
    /\ UNCHANGED <<tarball, part, trees, states, choice, tries, rest>>

DescribeFails ==
    /\ Fault("describe", "discard")
    /\ UNCHANGED <<cache, trees, states, choice, tries>>

Discard ==
    /\ Goto("discard", GiveUp)
    /\ part' = Nothing /\ tarball' = Nothing /\ metadata' = FALSE
    /\ UNCHANGED <<trees, states, choice, tries, rest>>

-----------------------------------------------------------------------------
(* The tree: extracted beside, then moved to its place.                      *)

Extract ==
    /\ Goto("extract", "extracting")
    /\ tmp' = "partial"
    /\ UNCHANGED <<cache, fresh, engine, backups, states, choice, tries, rest>>

Extracted ==
    /\ Goto("extracting", "install")
    /\ tmp' = "whole"
    /\ UNCHANGED <<cache, fresh, engine, backups, states, choice, tries, rest>>

(* A failure that indicts the archive takes it out of the cache.             *)
ExtractFails ==
    /\ Fault("extracting", GiveUp)
    /\ tmp' = Nothing
    /\ \/ UNCHANGED cache
       \/ tarball' = Nothing /\ part' = Nothing /\ metadata' = FALSE
    /\ UNCHANGED <<fresh, engine, backups, states, choice, tries>>

NewTree == [gen |-> commands + 1, git |-> Nothing, work |-> FALSE,
            state |-> IF tmp = "whole" /\ tarball \in Accepted THEN "whole" ELSE "torn"]

Install ==
    /\ pc = "install"
    /\ tmp' = Nothing
    /\ IF replacing THEN fresh' = NewTree /\ pc' = "aside" /\ UNCHANGED engine
                    ELSE engine' = NewTree /\ pc' = "init" /\ UNCHANGED fresh
    /\ UNCHANGED <<cache, backups, states, choice, tries, rest>>

(* activateReplacementEngine *)
Aside ==
    /\ Goto("aside", "activate")
    /\ backups' = backups \cup {engine} /\ engine' = NoTree
    /\ UNCHANGED <<cache, tmp, fresh, states, choice, tries, rest>>

(* Mutant: the backup goes as soon as the replacement is in place. *)
ActivateAlone ==
    /\ Goto("activate", "init")
    /\ engine' = fresh /\ fresh' = NoTree /\ backups' = {}
    /\ UNCHANGED <<cache, tmp, states, choice, tries, rest>>

Activate ==
    /\ Goto("activate", "init")
    /\ engine' = fresh /\ fresh' = NoTree
    /\ UNCHANGED <<cache, tmp, backups, states, choice, tries, rest>>

(* The newest backup is this command's. *)
Backup == CHOOSE t \in backups : \A u \in backups : u.gen <= t.gen

AsideFails ==
    /\ \/ Fault("aside", "drop") \/ Fault("activate", "unactivate")
    /\ UNCHANGED <<cache, trees, states, choice, tries>>

Unactivate ==
    /\ Goto("unactivate", "drop")
    /\ engine' = Backup /\ backups' = backups \ {Backup}
    /\ UNCHANGED <<cache, tmp, fresh, states, choice, tries, rest>>

UnactivateFails ==
    /\ Fault("unactivate", "drop")
    /\ UNCHANGED <<cache, trees, states, choice, tries>>

(* The replacement directory of a failed command. *)
Drop ==
    /\ Goto("drop", "idle")
    /\ fresh' = NoTree
    /\ UNCHANGED <<cache, tmp, engine, backups, states, choice, tries, rest>>

-----------------------------------------------------------------------------
(* The baseline.                                                             *)

InitRepository ==
    /\ Goto("init", "commit")
    /\ engine' = [engine EXCEPT !.git = "unborn"]
    /\ UNCHANGED <<cache, tmp, fresh, backups, states, choice, tries, rest>>

(* The tree is staged, at once or directory by directory, and committed. *)
Commit ==
    /\ Goto("commit", "clean")
    /\ engine' = [engine EXCEPT !.git = "head"]
    /\ UNCHANGED <<cache, tmp, fresh, backups, states, choice, tries, rest>>

CleanPatchTouched ==
    /\ Goto("clean", IF replacing THEN "forget" ELSE "record")
    /\ UNCHANGED <<cache, trees, states, choice, tries, rest>>

ForgetFurnace ==
    /\ Goto("forget", "record")
    /\ furnace' = NoGen
    /\ UNCHANGED <<cache, trees, stamp, choice, tries, rest>>

Record ==
    /\ Goto("record", "note")
    /\ stamp' = engine.gen
    /\ UNCHANGED <<cache, trees, furnace, choice, tries, rest>>

NoteUnapplied ==
    /\ Goto("note", IF replacing THEN "unbackup" ELSE "idle")
    /\ UNCHANGED <<cache, trees, states, choice, tries, rest>>

RemoveBackup ==
    /\ Goto("unbackup", "idle")
    /\ backups' = backups \ {Backup}
    /\ UNCHANGED <<cache, tmp, fresh, engine, states, choice, tries, rest>>

BaselineFails ==
    /\ \E from \in {"init", "commit", "clean", "forget", "record"} : Fault(from, GoBack)
    /\ UNCHANGED <<cache, trees, states, choice, tries>>

(* So may what follows the stamp: the manifest cannot be read, or the backup *)
(* only half removed.                                                        *)
FailsLate ==
    /\ pc \in {"note", "unbackup"}
    /\ faults < MaxFaults /\ faults' = faults + 1
    /\ pc' = GoBack
    /\ late' = TRUE
    /\ \/ UNCHANGED backups
       \/ /\ pc = "unbackup"
          /\ backups' = (backups \ {Backup}) \cup {[Backup EXCEPT !.state = "torn"]}
    /\ UNCHANGED <<cache, tmp, fresh, engine, states, choice, tries, worked, commands>>

(* restorePreviousEngine *)
PutBack ==
    /\ Goto("putback", "idle")
    /\ engine' = Backup /\ backups' = backups \ {Backup}
    /\ UNCHANGED <<cache, tmp, fresh, states, choice, tries, rest>>

PutBackFails ==
    /\ Goto("putback", "idle")
    /\ faults < MaxFaults /\ faults' = faults + 1
    /\ late' = TRUE
    /\ engine' \in {engine, [engine EXCEPT !.state = "torn"], NoTree}
    /\ UNCHANGED <<cache, tmp, fresh, backups, states, choice, tries, worked, commands>>

(* A later command finds an unborn HEAD and takes up the indexing.           *)
Resume ==
    /\ Goto("resume", "resumed")
    /\ engine' = [engine EXCEPT !.git = "head"]
    /\ UNCHANGED <<cache, tmp, fresh, backups, states, choice, tries, rest>>

Resumed ==
    /\ Goto("resumed", "idle")
    /\ stamp' = engine.gen
    /\ UNCHANGED <<cache, trees, furnace, choice, tries, rest>>

ResumeFails ==
    /\ \/ Fault("resume", "idle") \/ Fault("resumed", "idle")
    /\ UNCHANGED <<cache, trees, states, choice, tries>>

-----------------------------------------------------------------------------
(* The outside.                                                              *)

Kill ==
    /\ pc # "idle"
    /\ faults < MaxFaults /\ faults' = faults + 1
    /\ pc' = "idle"
    /\ UNCHANGED <<cache, trees, states, choice, tries, worked, late, commands>>

(* Somebody works in a finished engine, or lets Furnace write to it; even    *)
(* while it is about to be replaced.                                         *)
Work ==
    /\ engine.state = "whole" /\ engine.git = "head" /\ ~engine.work
    /\ pc = "idle" \/ engine.gen \in agreed
    /\ engine' = [engine EXCEPT !.work = TRUE]
    /\ furnace' = engine.gen
    /\ worked' = worked \cup {engine.gen}
    /\ UNCHANGED <<cache, tmp, fresh, backups, stamp, pc, choice, tries, late, commands, faults>>

-----------------------------------------------------------------------------
Next ==
    \/ Start \/ Sweep \/ Look
    \/ Validate \/ Invalidate \/ Unlink \/ Fetch \/ FetchFails \/ Retry \/ Promote \/ Verify
    \/ Unverifiable \/ Describe \/ DescribeFails \/ Discard
    \/ Extract \/ Extracted \/ ExtractFails \/ Install
    \/ Aside \/ Activate \/ AsideFails \/ Unactivate \/ UnactivateFails \/ Drop
    \/ InitRepository \/ Commit \/ CleanPatchTouched \/ ForgetFurnace \/ Record
    \/ NoteUnapplied \/ RemoveBackup \/ BaselineFails \/ FailsLate
    \/ PutBack \/ PutBackFails \/ Resume \/ Resumed \/ ResumeFails
    \/ Kill \/ Work

Spec == Init /\ [][Next]_vars

-----------------------------------------------------------------------------
(* Properties *)

Intact(g) == \E t \in {engine} \cup backups : t.gen = g /\ t.work /\ t.state = "whole"

(* Whatever fails or is killed, work in an engine is in engine/ or in a      *)
(* backup until its loss has been agreed to and its successor is committed   *)
(* and recorded.                                                             *)
WorkKept ==
    \A g \in worked : Intact(g) \/ (g \in agreed /\ stamp > g)

(* engine/ is only ever a whole tree of a verified archive, or of one that   *)
(* fireforge.json let through when its digest could not be had.  The other   *)
(* exceptions are a failure after the stamp, which puts a half-removed       *)
(* backup back, and a put-back that fails itself.                            *)
EngineWhole ==
    engine.state = "torn" => late

(* Once a new baseline is recorded, no checksum describes an older engine.   *)
FurnaceFollows ==
    pc = "idle" /\ engine.git = "head" /\ stamp = engine.gen /\ ~late =>
        furnace \in {NoGen, engine.gen}
=============================================================================
