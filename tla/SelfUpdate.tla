----------------------------- MODULE SelfUpdate -----------------------------
(***************************************************************************)
(* The program replaces itself (engine/updater, the update handlers of     *)
(* engine/control/control.go): a release is downloaded and verified, a     *)
(* copy of the program is started as a helper, the program quits, and the  *)
(* helper puts the new program in the place of the old one and starts it.  *)
(* Files are locked, steps fail and are taken back, and the machine may    *)
(* stop at any moment.                                                     *)
(*                                                                         *)
(* The program is a file on Windows and a bundle on macOS; the two differ  *)
(* in the backup copy that Windows makes first, and in a bundle that is    *)
(* removed in part only.                                                   *)
(***************************************************************************)
EXTENDS Integers

CONSTANTS Proxies,     \* how many ways to the server are tried: 1 or 2
          MaxDownloads \* bound: how many downloads begin

ASSUME ProxiesAssumption == Proxies \in Nat \ {0}

VARIABLES dl,       \* dlActive, dlDone, dlApplying, the attempt, and whether it is cancelled
          partial,  \* the .part file
          archive,  \* the file a finished download leaves
          downloads,
          parent,   \* the program: "runs", "quits" or "gone"
          helper,   \* the helper
          platform, \* "windows" or "darwin"
          program,  \* the program's file
          backup,   \* .update-backup
          staged,   \* .gbf-update-*
          started,  \* the helper has started a program
          stuck,    \* history: the old program could not be put back
          outage    \* history: the machine stopped while the helper worked

updateVars == <<dl, partial, archive, downloads, parent, helper, platform, program, backup,
                staged, started, stuck, outage>>

Archives == {"none", "part", "other", "good"}
Programs == {"none", "part", "old", "new"}
Whole(file) == file \in {"old", "new"}

UpdateTypeOK ==
    /\ dl \in [active : BOOLEAN, done : BOOLEAN, applying : BOOLEAN, cancelled : BOOLEAN,
               way : 0 .. Proxies]
    /\ {partial, archive} \subseteq Archives /\ {program, backup, staged} \subseteq Programs
    /\ parent \in {"runs", "quits", "gone"} /\ platform \in {"windows", "darwin"}
    /\ helper \in {"none", "verify", "wait", "extract", "copy", "aside", "place", "launch",
                   "clean", "putback", "done", "failed"}
    /\ {started, stuck, outage} \subseteq BOOLEAN

UpdateInit ==
    /\ dl = [active |-> FALSE, done |-> FALSE, applying |-> FALSE, cancelled |-> FALSE, way |-> 0]
    /\ partial = "none" /\ archive = "none" /\ downloads = 0
    /\ parent = "runs" /\ helper = "none" /\ platform \in {"windows", "darwin"}
    /\ program = "old" /\ backup = "none" /\ staged = "none"
    /\ started = FALSE /\ stuck = FALSE /\ outage = FALSE

programVars == <<parent, helper, platform, program, backup, staged, started, stuck, outage>>

-----------------------------------------------------------------------------
(* handleUpdateDownload and DownloadReleaseAsset.                           *)
BeginDownload ==
    /\ parent = "runs" /\ ~dl.active /\ ~dl.applying /\ downloads < MaxDownloads
    /\ downloads' = downloads + 1
    /\ dl' = [active |-> TRUE, done |-> FALSE, applying |-> FALSE, cancelled |-> FALSE, way |-> 1]
    /\ partial' = "none"
    /\ UNCHANGED <<archive, programVars>>

DownloadEnds(done) == dl' = [dl EXCEPT !.active = FALSE, !.done = done]
NextWay == IF dl.way < Proxies THEN dl' = [dl EXCEPT !.way = @ + 1] ELSE DownloadEnds(FALSE)

\* One way to the server: nothing, a broken stream, or a whole file.
Receive ==
    /\ parent = "runs" /\ dl.active /\ partial = "none"
    /\ \/ NextWay /\ UNCHANGED partial
       \/ dl.cancelled /\ DownloadEnds(FALSE) /\ UNCHANGED partial
       \/ partial' \in {"other", "good"} /\ UNCHANGED dl
    /\ UNCHANGED <<archive, downloads, programVars>>

\* The checksum and the zip directory.
Verifies(file) == file = "good"

\* A file that fails is removed; the other takes the archive's name, unless it is locked.
FinishPart ==
    /\ parent = "runs" /\ dl.active /\ partial # "none"
    /\ partial' = "none"
    /\ \/ ~Verifies(partial) /\ NextWay /\ UNCHANGED archive
       \/ Verifies(partial) /\ archive' = partial /\ DownloadEnds(TRUE)
       \/ Verifies(partial) /\ archive' \in {archive, "none"} /\ DownloadEnds(FALSE)
    /\ UNCHANGED <<downloads, programVars>>

CancelDownload ==
    /\ parent = "runs" /\ dl.active /\ ~dl.cancelled
    /\ dl' = [dl EXCEPT !.cancelled = TRUE]
    /\ UNCHANGED <<partial, archive, downloads, programVars>>

\* The user tidies up his folder.
DeleteArchive ==
    /\ archive # "none" /\ archive' = "none"
    /\ UNCHANGED <<dl, partial, downloads, programVars>>

-----------------------------------------------------------------------------
(* handleUpdateApply: LaunchSelfUpdater, and the program quits.             *)
LaunchSelfUpdater == archive # "none" /\ helper' = "verify"

Apply ==
    /\ parent = "runs" /\ dl.done /\ ~dl.active /\ ~dl.applying
    /\ \/ /\ LaunchSelfUpdater
          /\ dl' = [dl EXCEPT !.applying = TRUE] /\ parent' = "quits"
       \/ UNCHANGED <<dl, helper, parent>>
    /\ UNCHANGED <<partial, archive, downloads, platform, program, backup, staged, started,
                   stuck, outage>>

Quit ==
    /\ parent = "quits" /\ parent' = "gone"
    /\ UNCHANGED <<dl, partial, archive, downloads, helper, platform, program, backup, staged,
                   started, stuck, outage>>

-----------------------------------------------------------------------------
(* The helper: applyUpdate.                                                 *)
Goes(to) == helper' = to
FileVars == <<program, backup, staged>>
Rest == <<dl, partial, archive, downloads, parent, platform, outage>>

VerifyArchive ==
    /\ helper = "verify"
    /\ Goes(IF Verifies(archive) THEN "wait" ELSE "failed")
    /\ UNCHANGED <<FileVars, started, stuck, Rest>>

\* waitForParentExit: until the program is gone, or not long enough.
WaitEnds == IF parent = "gone" THEN "extract" ELSE "failed"

WaitForParent ==
    /\ helper = "wait" /\ Goes(WaitEnds)
    /\ UNCHANGED <<FileVars, started, stuck, Rest>>

\* What failed goes: the staged file is removed.
Abandons == staged' = "none" /\ Goes("failed")

\* One file, or the tree of a bundle; the helper stopped half-way leaves a part.
ExtractWindowsExecutable == platform = "windows" /\ archive = "good" /\ staged' = "new"
ExtractMacBundle == platform = "darwin" /\ archive = "good" /\ staged' = "new"

Extract ==
    /\ helper = "extract"
    /\ \/ (ExtractWindowsExecutable \/ ExtractMacBundle) /\ Goes("copy")
       \/ Abandons
    /\ UNCHANGED <<program, backup, started, stuck, Rest>>

\* An older backup goes; Windows copies the program, in part when that fails.
CopyBackup ==
    /\ helper = "copy"
    /\ \/ platform = "darwin" /\ backup' = "none" /\ Goes("aside") /\ UNCHANGED staged
       \/ platform = "windows" /\ backup' = program /\ Goes("aside") /\ UNCHANGED staged
       \/ platform = "windows" /\ backup' \in {"none", "part"} /\ Abandons
    /\ UNCHANGED <<program, started, stuck, Rest>>

SetProgramAside ==
    /\ helper = "aside"
    /\ \/ backup' = program /\ program' = "none" /\ Goes("place") /\ UNCHANGED staged
       \/ UNCHANGED <<backup, program>> /\ Abandons
    /\ UNCHANGED <<started, stuck, Rest>>

PlaceProgram ==
    /\ helper = "place"
    /\ \/ program' = staged /\ staged' = "none" /\ Goes("launch")
       \/ UNCHANGED <<program, staged>> /\ Goes("putback")
    /\ UNCHANGED <<backup, started, stuck, Rest>>

\* When the new program does not start it is removed, a bundle perhaps in part.
LaunchProgram ==
    /\ helper = "launch"
    /\ \/ started' = TRUE /\ Goes("clean") /\ UNCHANGED program
       \/ UNCHANGED started /\ Goes("putback")
          /\ program' \in {"none", "new"} \union (IF platform = "darwin" THEN {"part"} ELSE {})
    /\ UNCHANGED <<backup, staged, stuck, Rest>>

\* Renaming back, which nobody checks: over a bundle that is still there it fails.
\* Faulty variant: the program is not put back.
NotRestored == program
Restored == backup

PutProgramBack ==
    /\ helper = "putback" /\ Abandons
    /\ \/ /\ program = "none" \/ platform = "windows"
          /\ program' = Restored /\ backup' = "none"
          /\ UNCHANGED stuck
       \/ stuck' = TRUE /\ UNCHANGED <<program, backup>>
    /\ UNCHANGED <<started, Rest>>

CleanBackup ==
    /\ helper = "clean" /\ Goes("done")
    /\ backup' \in {"none", backup} \union (IF platform = "darwin" THEN {"part"} ELSE {})
    /\ UNCHANGED <<program, staged, started, stuck, Rest>>

\* The machine stops while the helper works, perhaps within a copy.
Halt ==
    /\ helper \notin {"none", "done", "failed"}
    /\ Goes("failed") /\ outage' = TRUE /\ parent' = "gone"
    /\ staged' \in IF helper = "extract" THEN {"none", "part"} ELSE {staged}
    /\ backup' \in IF helper = "copy" /\ platform = "windows" THEN {backup, "part"} ELSE {backup}
    /\ UNCHANGED <<dl, partial, archive, downloads, platform, program, started, stuck>>

HelperStep == VerifyArchive \/ WaitForParent \/ Extract \/ CopyBackup \/ SetProgramAside
              \/ PlaceProgram \/ LaunchProgram \/ PutProgramBack \/ CleanBackup

UpdateNext == BeginDownload \/ Receive \/ FinishPart \/ CancelDownload \/ DeleteArchive
              \/ Apply \/ Quit \/ HelperStep \/ Halt

UpdateSpec == UpdateInit /\ [][UpdateNext]_updateVars

-----------------------------------------------------------------------------
\* Whatever fails, and wherever the machine stops, there is a whole program: in its
\* place, or as the backup when putting it back failed or was not reached; what
\* is in place is never the half of one unless that happened.
ProgramSurvives ==
    /\ Whole(program) \/ backup = "old"
    /\ helper \in {"none", "done", "failed"} /\ ~stuck /\ ~outage => Whole(program)

\* The helper starts the new program only after the old one has gone and with a
\* verified archive: "preserving a single-process invariant is safer than risking a
\* duplicate instance" (self_update.go:105).
StartedAlone == started => parent = "gone" /\ program = "new"
=============================================================================
