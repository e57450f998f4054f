--------------------------- MODULE CacheMigration ---------------------------
(***************************************************************************)
(* The cache directory moves to the standard place of macOS                *)
(* (engine/control/migrate_darwin.go): the old directory is copied to a    *)
(* staging directory beside the target, the target is set aside, the copy  *)
(* takes its name, the configuration is committed, and what was set aside  *)
(* is removed.  Steps fail and are taken back, the program may die between *)
(* any two of them, the proxy writes into the cache all the while, and     *)
(* the user puts files of his own into the target.                         *)
(*                                                                         *)
(* A directory is the set of its files, or Missing.  What the walks over   *)
(* both trees make of a file is given by the set it belongs to: the names, *)
(* the metadata and the bytes behind that verdict are left out.            *)
(***************************************************************************)
EXTENDS Integers, FiniteSets

CONSTANTS Cached,     \* assets of the cache, by name, metadata and content
          Named,      \* files named like assets, whose content is none
          Residue,    \* temporary and quarantined files of the program
          Own,        \* other files of the user
          MaxRuns,    \* bound: how many migrations begin
          MaxDeaths,  \* bound: how often the program dies
          Missing

\* A directory that is not there is no set of files.
ASSUME MissingAssumption ==
    \A files \in SUBSET (Cached \union Named \union Residue \union Own) : Missing # files

VARIABLES source,     \* the directory the cache was in
          target,     \* the standard directory
          stage,      \* .gbf-cache-migration-*
          aside,      \* .gbf-cache-old-* of the migration under way
          leftover,   \* what is in .gbf-cache-old-* of earlier ones
          saved,      \* config.json: "source" or "target"
          used,       \* Manager.cacheBase
          mig,        \* the migration
          runs, deaths,
          before      \* history: the target's files when it began, and the user's since,
                      \* those aside that he put into the new directory before its commit

migrationVars == <<source, target, stage, aside, leftover, saved, used, mig, runs, deaths, before>>

Files == Cached \union Named \union Residue \union Own
Dirs == (SUBSET Files) \union {Missing}
In(dir) == IF dir = Missing THEN {} ELSE dir

Modes == {"migrate", "overwrite", "switch_only"}
NoMigration == [at |-> "none", mode |-> "migrate", result |-> "none"]

MigrationTypeOK ==
    /\ {source, target, stage, aside} \subseteq Dirs /\ leftover \subseteq Files
    /\ {saved, used} \subseteq {"source", "target"}
    /\ mig \in [at : {"none", "check", "copy", "review", "lock", "aside", "freeze", "restore",
                      "place", "commit", "undo", "base", "clean", "switch"},
                mode : Modes, result : {"none", "completed", "failed", "rollback_failed"}]
    /\ before \subseteq Files

MigrationInit ==
    /\ source \in {Missing, {}, Cached, Files \ Own} /\ target \in {Missing, {}} \union {{f} : f \in Files}
    /\ stage = Missing /\ aside = Missing /\ leftover = {}
    /\ saved = "source" /\ used = "source" /\ mig = NoMigration
    /\ runs = 0 /\ deaths = 0 /\ before = In(target)

-----------------------------------------------------------------------------
Goto(at) == mig' = [mig EXCEPT !.at = at]
Ends(result) == mig' = [mig EXCEPT !.at = "none", !.result = result]
At(stages) == mig.at \in stages
Dirless == <<source, target, stage, aside, leftover>>

\* validateCacheMigrationTree: what may be copied.
Confirmed(dir) == In(dir) \subseteq Cached \union Named \union Residue

\* verifyOverwriteAssetContent: the bytes are looked at before anything is replaced.
VerifiedContent(f) == f \in Cached
HasConfirmedCacheAssets(dir) == \E f \in In(dir) : VerifiedContent(f)

\* validateCacheOverwriteTarget and validateEmptyMigrationTarget: what may be replaced.
OverwriteTarget(dir) == \A f \in In(dir) : VerifiedContent(f)
EmptyTarget(dir) == In(dir) = {}
Replaceable(dir) == IF mig.mode = "overwrite" THEN OverwriteTarget(dir) ELSE EmptyTarget(dir)

\* tryBeginCacheTask keeps the other cache tasks and changes of the directory out.
Begin(mode) ==
    /\ At({"none"}) /\ runs < MaxRuns /\ saved = "source"
    /\ mig' = [at |-> IF mode = "switch_only" THEN "switch" ELSE "check", mode |-> mode,
               result |-> "none"]
    /\ runs' = runs + 1
    /\ before' = In(target)
    /\ UNCHANGED <<Dirless, saved, used, deaths>>

\* An overwriting migration wants a source with assets, the other one accepts none.
SourceFits == /\ Confirmed(source)
              /\ mig.mode = "overwrite" => HasConfirmedCacheAssets(source)

CheckSource ==
    /\ At({"check"})
    /\ \/ SourceFits /\ Replaceable(target) /\ Goto("copy")
       \/ Ends("failed")
    /\ UNCHANGED <<Dirless, saved, used, runs, deaths, before>>

\* cp into a new staging directory, less the residue; a failed one is removed.
Copy ==
    /\ At({"copy"})
    /\ \/ stage' = In(source) \ Residue /\ Goto("review")
       \/ UNCHANGED stage /\ Ends("failed")
    /\ UNCHANGED <<source, target, aside, leftover, saved, used, runs, deaths, before>>

\* Every end but the successful one removes the staging directory.
GivesUp(result) == stage' = Missing /\ Ends(result)

Review ==
    /\ At({"review"})
    /\ IF Confirmed(stage) THEN Goto("lock") /\ UNCHANGED stage ELSE GivesUp("failed")
    /\ UNCHANGED <<source, target, aside, leftover, saved, used, runs, deaths, before>>

\* Under applyMu the target is looked at again, renamed, and looked at once more.
\* That the configuration names another source by then cannot happen, see Begin.
Lock ==
    /\ At({"lock"})
    /\ IF Replaceable(target)
          THEN /\ Goto(IF target = Missing THEN "place" ELSE "aside")
               /\ UNCHANGED stage
          ELSE GivesUp("failed")
    /\ UNCHANGED <<source, target, aside, leftover, saved, used, runs, deaths, before>>

SetAside ==
    /\ At({"aside"})
    /\ \/ /\ target # Missing
          /\ aside' = target /\ target' = Missing /\ Goto("freeze")
          /\ UNCHANGED stage
       \/ UNCHANGED <<target, aside>> /\ GivesUp("failed")
    /\ UNCHANGED <<source, leftover, saved, used, runs, deaths, before>>

\* Faulty variant: what was set aside is not looked at again.
FrozenAnyway(dir) == TRUE
Frozen(dir) == Replaceable(dir)

Freeze ==
    /\ At({"freeze"})
    /\ Goto(IF Frozen(aside) THEN "place" ELSE "restore")
    /\ UNCHANGED <<Dirless, saved, used, runs, deaths, before>>

\* A directory takes the name of one that is missing or empty.
Free(dir) == In(dir) = {}

PutBackDir == aside

\* Back to its name, which may fail; then it stays aside and is reported.
Restore ==
    /\ At({"restore"})
    /\ \/ /\ Free(target) /\ aside # Missing
          /\ target' = PutBackDir /\ aside' = Missing /\ GivesUp("failed")
          /\ UNCHANGED leftover
       \/ /\ aside = Missing /\ GivesUp("failed") /\ UNCHANGED <<target, aside, leftover>>
       \/ /\ aside # Missing /\ leftover' = leftover \union aside /\ aside' = Missing
          /\ GivesUp("rollback_failed") /\ UNCHANGED target
    /\ UNCHANGED <<source, saved, used, runs, deaths, before>>

Place ==
    /\ At({"place"})
    /\ \/ /\ Free(target)
          /\ target' = stage /\ stage' = Missing /\ Goto("commit")
       \/ UNCHANGED <<target, stage>> /\ Goto("restore")
    /\ UNCHANGED <<source, aside, leftover, saved, used, runs, deaths, before>>

\* cfgMgr.Commit: all or nothing.
CommitTarget ==
    /\ At({"commit"})
    /\ \/ saved' = "target" /\ Goto("base")
       \/ UNCHANGED saved /\ Goto("undo")
    /\ UNCHANGED <<Dirless, used, runs, deaths, before>>

\* The new directory is removed, perhaps in part, and the old one put back.
Undo ==
    /\ At({"undo"})
    /\ target' \in {Missing} \union SUBSET In(target)
    /\ Goto("restore")
    /\ UNCHANGED <<source, stage, aside, leftover, saved, used, runs, deaths, before>>

SetBase ==
    /\ At({"base"})
    /\ used' = "target" /\ Goto("clean")
    /\ UNCHANGED <<Dirless, saved, runs, deaths, before>>

\* What was set aside is removed; what cannot be is reported as a warning.
Clean ==
    /\ At({"clean"})
    /\ aside' = Missing /\ Ends("completed")
    /\ \/ UNCHANGED leftover
       \/ aside # Missing /\ \E rest \in SUBSET aside : leftover' = leftover \union rest
    /\ UNCHANGED <<source, target, stage, saved, used, runs, deaths, before>>

\* switch_only: the directory is made when there is none, and removed again if empty.
SwitchOnly ==
    /\ At({"switch"})
    /\ \/ /\ target' = In(target) /\ saved' = "target" /\ used' = "target" /\ Ends("completed")
       \/ UNCHANGED <<target, saved, used>> /\ Ends("failed")
    /\ UNCHANGED <<source, stage, aside, leftover, runs, deaths, before>>

-----------------------------------------------------------------------------
\* The proxy writes what it fetches where the cache is, through temporary files.
Download(f) ==
    /\ \/ used = "source" /\ source' = In(source) \union {f} /\ UNCHANGED target
       \/ used = "target" /\ target' = In(target) \union {f} /\ UNCHANGED source
    /\ UNCHANGED <<stage, aside, leftover, saved, used, mig, runs, deaths, before>>

\* The user's files.  One that he puts into the new directory while its
\* configuration is being committed is removed with it when that fails.
PutOwn(f) ==
    /\ saved = "source"
    /\ target' = In(target) \union {f}
    /\ before' = IF At({"commit", "undo"}) THEN before ELSE before \union {f}
    /\ UNCHANGED <<source, stage, aside, leftover, saved, used, mig, runs, deaths>>

\* The program dies and is started again; nothing looks for what was left.
DieAndRestart ==
    /\ deaths < MaxDeaths /\ ~At({"none"}) /\ deaths' = deaths + 1
    /\ used' = saved /\ mig' = NoMigration
    /\ stage' = Missing
    /\ leftover' = leftover \union In(aside) /\ aside' = Missing
    /\ UNCHANGED <<source, target, saved, runs, before>>

Progress == CheckSource \/ Copy \/ Review \/ Lock \/ SetAside \/ Freeze \/ Restore \/ Place
            \/ CommitTarget \/ Undo \/ SetBase \/ Clean \/ SwitchOnly

MigrationNext == \/ \E mode \in Modes : Begin(mode)
                 \/ Progress
                 \/ \E f \in Cached \union Residue : Download(f)
                 \/ \E f \in Own \union Named : PutOwn(f)
                 \/ DieAndRestart

MigrationSpec == MigrationInit /\ [][MigrationNext]_migrationVars

-----------------------------------------------------------------------------
\* A migration that reports a plain failure has put the target back as it was.
FailureRestores ==
    (At({"none"}) /\ mig.result = "failed") => before \subseteq In(target) /\ stage = Missing

\* Until the configuration that names the standard directory is saved, everything
\* that was there before is still there or set aside, after every failure, taking
\* back and death of the program; what is no asset is kept even after that; and
\* what reports a plain failure has put everything back.
NothingLost ==
    LET kept == In(target) \union In(aside) \union leftover
    IN /\ saved = "source" => before \subseteq kept
       /\ before \ Cached \subseteq kept
       /\ FailureRestores
=============================================================================
