---------------------------- MODULE AndroidTools ----------------------------
(***************************************************************************)
(* The Android patcher of the control server (engine/control/              *)
(* control_patcher.go, engine/patcher): packages that the user uploads, the*)
(* job that patches one of them, and the tools it needs, which are         *)
(* installed and removed by other requests.  Handlers take one of three    *)
(* mutexes for a moment and work without it; both kinds of work go on in   *)
(* goroutines that are cancelled through their context.  The module that is *)
(* put into packages is replaced by requests and jobs alike, one at a time *)
(* (canonicalModuleMu), while an installation puts its own in its place.   *)
(*                                                                         *)
(* A component is a verified file; an archive has to be unpacked as well.  *)
(* What a package contains, Java and the device are the environment's      *)
(* choice; the backup of the original, which may fail unnoticed, and the   *)
(* requests that only read are left out.                                   *)
(***************************************************************************)
EXTENDS Integers

CONSTANTS Plain,       \* the components that are used as they are
          Zipped,      \* platform-tools and jre
          LSPatch, Module, PlatformTools,
          Provided,    \* the archives whose tools the system has
          Uploads,     \* directories of uploaded or extracted packages
          Requesters,  \* requests to patch
          MaxJobs, MaxInstalls, MaxRemovals,  \* bounds: how many begin
          NoUpload

VARIABLES patch,     \* Running, androidPatchJobID, and whose cancel function is set
          asked,     \* the handlers of requests to patch
          work,      \* the goroutine of each job
          ensure,    \* who holds canonicalModuleMu, and how far it is
          result,    \* the rest of androidPatchStatus: the job and how it ended
          output,    \* the package in the output directory: whose, and whether whole
          kept,      \* androidTempDirs
          onDisk,    \* the upload directories that exist
          upload,    \* the handler of an upload
          install,   \* componentDl... and the goroutine behind it
          file,      \* the components' files
          unpacked,  \* what was unpacked of the archives
          removing,  \* the handler of an uninstallation has passed its check
          removals,
          torn,      \* history: something was removed since the installation began
          misplaced, \* history: a replacement of the module failed since then
          shut       \* Stop was called

patchVars == <<patch, asked, work, ensure, result, output>>
uploadVars == <<kept, onDisk, upload>>
toolVars == <<install, file, unpacked, removing, removals, torn, misplaced>>
androidVars == <<patchVars, uploadVars, toolVars, shut>>

Components == Plain \union Zipped
Jobs == 1 .. MaxJobs
JobStages == {"tools", "ensured", "inspect", "inject", "bundle", "audit"}
Callers == Requesters \union Jobs
Nowhere == [at |-> "idle", input |-> NoUpload]

ASSUME ComponentsAssumption ==
    /\ {LSPatch, Module} \subseteq Plain /\ Plain \intersect Zipped = {}
    /\ {"next", "idle"} \intersect Components = {} /\ Requesters \intersect Jobs = {}
    /\ 0 \notin Requesters
    /\ {MaxJobs, MaxInstalls, MaxRemovals} \subseteq Nat /\ NoUpload \notin Uploads

AndroidTypeOK ==
    /\ patch \in [running : BOOLEAN, last : 0 .. MaxJobs, cancel : 0 .. MaxJobs]
    /\ asked \in [Requesters -> [at : {"idle", "found", "reserved", "ensured", "ready"},
                                 input : Uploads \union {NoUpload}]]
    /\ work \in [Jobs -> [at : JobStages \union {"none", "succeeded", "failed", "over"},
                          input : Uploads \union {NoUpload}, cancelled : BOOLEAN]]
    /\ ensure \in [at : {"free", "copy", "copying", "fetch", "placing"},
                   by : Callers \union {0}]
    /\ result \in [job : 0 .. MaxJobs, is : {"none", "ok", "error"}]
    /\ output \in [by : 0 .. MaxJobs, whole : BOOLEAN]
    /\ kept \union onDisk \subseteq Uploads
    /\ {removing, torn, misplaced, shut} \subseteq BOOLEAN
    /\ upload \in [at : {"idle", "saved", "looked"}, dir : Uploads \union {NoUpload},
                   busy : BOOLEAN]
    /\ install.told \in {"none", "done", "error"} /\ install.todo \subseteq install.specs
    /\ file \in [Components -> {"none", "bad", "good"}]
    /\ unpacked \in [Zipped -> {"no", "part", "yes"}]

NobodyEnsures == [at |-> "free", by |-> 0]
NoInstall == [active |-> FALSE, cancel |-> FALSE, cancelled |-> FALSE, at |-> "idle",
              specs |-> {}, todo |-> {}, told |-> "none", runs |-> 0]

AndroidInit ==
    /\ patch = [running |-> FALSE, last |-> 0, cancel |-> 0]
    /\ asked = [r \in Requesters |-> Nowhere]
    /\ work = [j \in Jobs |-> [at |-> "none", input |-> NoUpload, cancelled |-> FALSE]]
    /\ ensure = NobodyEnsures
    /\ result = [job |-> 0, is |-> "none"] /\ output = [by |-> 0, whole |-> FALSE]
    /\ kept = {} /\ onDisk = {} /\ upload = [at |-> "idle", dir |-> NoUpload, busy |-> FALSE]
    /\ install = NoInstall /\ file \in [Components -> {"none", "good"}]
    /\ unpacked = [a \in Zipped |-> IF file[a] = "good" THEN "yes" ELSE "no"]
    /\ removing = FALSE /\ removals = 0 /\ torn = FALSE /\ misplaced = FALSE
    /\ shut = FALSE

-----------------------------------------------------------------------------
(* handleAndroidUpload and handleAndroidAdbExtract: save, inspect, register.*)
SaveUpload(d) ==
    /\ ~shut /\ upload.at = "idle" /\ d \notin onDisk
    /\ upload' = [at |-> "saved", dir |-> d, busy |-> FALSE]
    /\ onDisk' = onDisk \union {d}
    /\ UNCHANGED <<patchVars, kept, toolVars, shut>>

\* A device's package needs adb, which may be that of the system.
ExtractFromDevice(d) ==
    /\ PlatformTools \in Zipped => PlatformTools \in Provided \/ unpacked[PlatformTools] = "yes"
    /\ SaveUpload(d)

\* A package that cannot be read goes again.
RejectUpload ==
    /\ upload.at = "saved" /\ upload' = [upload EXCEPT !.at = "idle", !.dir = NoUpload]
    /\ onDisk' = onDisk \ {upload.dir}
    /\ UNCHANGED <<patchVars, kept, toolVars, shut>>

\* registerAndroidTempDir looks whether a job runs, and acts on it a lock later.
LookRunning ==
    /\ upload.at = "saved"
    /\ upload' = [upload EXCEPT !.at = "looked", !.busy = patch.running]
    /\ UNCHANGED <<patchVars, kept, onDisk, toolVars, shut>>

\* Faulty variant: what was registered before is forgotten, and stays.
OnlyForgotten == {}
Superseded == kept \ {upload.dir}

RegisterUpload ==
    /\ upload.at = "looked"
    /\ IF upload.busy
          THEN kept' = kept \union {upload.dir} /\ UNCHANGED onDisk
          ELSE kept' = {upload.dir} /\ onDisk' = onDisk \ Superseded
    /\ upload' = [at |-> "idle", dir |-> NoUpload, busy |-> FALSE]
    /\ UNCHANGED <<patchVars, toolVars, shut>>

-----------------------------------------------------------------------------
(* handleAndroidPatch: the file is there; one job at a time; everything is  *)
(* ready; then the job is made, or the reservation given back.              *)
AskPatch(r, d) ==
    /\ ~shut /\ asked[r].at = "idle" /\ d \in onDisk
    /\ asked' = [asked EXCEPT ![r] = [at |-> "found", input |-> d]]
    /\ UNCHANGED <<patch, work, ensure, result, output, uploadVars, toolVars, shut>>

Vacant == ~patch.running

Reserve(r) ==
    /\ asked[r].at = "found"
    /\ IF Vacant
          THEN /\ patch' = [patch EXCEPT !.running = TRUE]
               /\ asked' = [asked EXCEPT ![r].at = "reserved"]
          ELSE asked' = [asked EXCEPT ![r] = Nowhere] /\ UNCHANGED patch
    /\ UNCHANGED <<work, ensure, result, output, uploadVars, toolVars, shut>>

\* CheckComponents; ValidateLSPatchJar; and a module with the right manifest.
AllVerified == \A c \in Plain : file[c] = "good"
ValidLSPatch == file[LSPatch] = "good"
HasModule == file[Module] # "none"

CheckReady(r) ==
    /\ asked[r].at = "ensured"
    /\ \/ /\ AllVerified
          /\ asked' = [asked EXCEPT ![r].at = "ready"] /\ UNCHANGED patch
       \/ asked' = [asked EXCEPT ![r] = Nowhere] /\ patch' = [patch EXCEPT !.running = FALSE]
    /\ UNCHANGED <<work, ensure, result, output, uploadVars, toolVars, shut>>

Launch(r) ==
    LET j == patch.last + 1
    IN /\ asked[r].at = "ready" /\ patch.last < MaxJobs
       /\ patch' = [running |-> TRUE, last |-> j, cancel |-> j]
       /\ work' = [work EXCEPT ![j] = [at |-> "tools", input |-> asked[r].input,
                                       cancelled |-> FALSE]]
       /\ result' = [job |-> j, is |-> "none"]
       /\ asked' = [asked EXCEPT ![r] = Nowhere]
       /\ UNCHANGED <<ensure, output, uploadVars, toolVars, shut>>

-----------------------------------------------------------------------------
(* Patcher.RunContext: five stages, each of which looks at the context.     *)
JobGoes(j, to) == work' = [work EXCEPT ![j].at = to]
JobAt(j, stage) == work[j].at = stage /\ ~work[j].cancelled

FindTools(j) ==
    /\ JobAt(j, "ensured") /\ HasModule /\ JobGoes(j, "inspect")
    /\ UNCHANGED <<patch, asked, ensure, result, output, uploadVars, toolVars, shut>>

InspectInput(j) ==
    /\ JobAt(j, "inspect") /\ work[j].input \in onDisk /\ JobGoes(j, "inject")
    /\ UNCHANGED <<patch, asked, ensure, result, output, uploadVars, toolVars, shut>>

ExecuteLSPatch(j) ==
    /\ JobAt(j, "inject") /\ file[LSPatch] # "none" /\ HasModule
    /\ JobGoes(j, "bundle")
    /\ UNCHANGED <<patch, asked, ensure, result, output, uploadVars, toolVars, shut>>

BundleOutput(j) ==
    /\ JobAt(j, "bundle")
    /\ \/ output' = [by |-> j, whole |-> TRUE] /\ JobGoes(j, "audit")
       \/ output' = [by |-> j, whole |-> FALSE] /\ work' \in {[work EXCEPT ![j].at = to] :
                                                             to \in {"audit", "failed"}}
    /\ UNCHANGED <<patch, asked, ensure, result, uploadVars, toolVars, shut>>

VerifyIntegrity == output.whole

Audit(j) ==
    /\ JobAt(j, "audit") /\ JobGoes(j, IF VerifyIntegrity THEN "succeeded" ELSE "failed")
    /\ UNCHANGED <<patch, asked, ensure, result, output, uploadVars, toolVars, shut>>

\* Any stage may fail, and all do once the context is cancelled.
FailJob(j) ==
    /\ work[j].at \in JobStages /\ ensure.by # j /\ JobGoes(j, "failed")
    /\ UNCHANGED <<patch, asked, ensure, result, output, uploadVars, toolVars, shut>>

\* The deferred function: nothing when a later job has taken the status over.
FinishJob(j) ==
    /\ work[j].at \in {"succeeded", "failed"} /\ JobGoes(j, "over")
    /\ IF patch.last = j
          THEN /\ patch' = [patch EXCEPT !.running = FALSE, !.cancel = 0]
               /\ result' = [job |-> j, is |-> IF work[j].at = "succeeded" THEN "ok" ELSE "error"]
          ELSE UNCHANGED <<patch, result>>
    /\ UNCHANGED <<asked, ensure, output, uploadVars, toolVars, shut>>

\* handleAndroidPatchCancel; the time limit does the same.
CancelPatch ==
    /\ patch.running /\ patch.cancel # 0
    /\ work' = [work EXCEPT ![patch.cancel].cancelled = TRUE]
    /\ UNCHANGED <<patch, asked, ensure, result, output, uploadVars, toolVars, shut>>

-----------------------------------------------------------------------------
(* EnsureCanonicalModule, which requests and jobs call: when the module does *)
(* not have the right checksum it is copied from elsewhere or downloaded,    *)
(* and then it is replaced, whatever has come into its place meanwhile.      *)
Waits(who) == \/ who \in Requesters /\ asked[who].at = "reserved"
              \/ who \in Jobs /\ JobAt(who, "tools") /\ ValidLSPatch

\* The caller goes on, also after a failure: there may be a module all the same.
Returns(who) ==
    /\ asked' = IF who \in Requesters THEN [asked EXCEPT ![who].at = "ensured"] ELSE asked
    /\ work' = IF who \in Jobs THEN [work EXCEPT ![who].at = "ensured"] ELSE work
Ensured == ensure' = NobodyEnsures /\ Returns(ensure.by)
EnsureGoes(to) == ensure' = [ensure EXCEPT !.at = to] /\ UNCHANGED <<asked, work>>
ModuleBecomes(what) == file' = [file EXCEPT ![Module] = what]

EnsureModule(who) ==
    /\ ensure = NobodyEnsures /\ Waits(who)
    /\ \/ file[Module] = "good" /\ Returns(who) /\ UNCHANGED ensure
       \/ /\ file[Module] # "good" /\ UNCHANGED <<asked, work>>
          /\ \E how \in {"copy", "fetch"} : ensure' = [at |-> how, by |-> who]
    /\ UNCHANGED <<patch, result, output, uploadVars, toolVars, shut>>

\* copyFile empties the target before it writes; its error is ignored.
CopyModule ==
    /\ \/ /\ ensure.at = "copy"
          /\ \/ ModuleBecomes("bad") /\ EnsureGoes("copying")
             \/ Ensured /\ UNCHANGED file
          /\ UNCHANGED misplaced
       \/ /\ ensure.at = "copying" /\ Ensured
          /\ \/ ModuleBecomes("good") /\ UNCHANGED misplaced
             \/ misplaced' = TRUE /\ UNCHANGED file
    /\ UNCHANGED <<patch, result, output, uploadVars, install, unpacked,
                   removing, removals, torn,
                   shut>>

\* FetchCanonicalModule: a verified download; the target is removed, if it can be,
\* and then the download takes its name.
FetchModule ==
    /\ \/ /\ ensure.at = "fetch"
          /\ \/ (ModuleBecomes("none") \/ UNCHANGED file) /\ EnsureGoes("placing")
             \/ Ensured /\ UNCHANGED file
          /\ UNCHANGED misplaced
       \/ /\ ensure.at = "placing" /\ Ensured
          /\ \/ ModuleBecomes("good") /\ UNCHANGED misplaced
             \/ misplaced' = TRUE /\ UNCHANGED file
    /\ UNCHANGED <<patch, result, output, uploadVars, install, unpacked,
                   removing, removals, torn,
                   shut>>

-----------------------------------------------------------------------------
(* handleAndroidComponentsDownload (the plain ones, unless all are there)   *)
(* and handleAndroidEnvInstallAll; then DownloadComponentsWithSpecs.        *)
BeginInstall(specs) ==
    /\ ~shut /\ ~install.active /\ install.runs < MaxInstalls
    /\ install' = [active |-> TRUE, cancel |-> TRUE, cancelled |-> FALSE, at |-> "next",
                   specs |-> specs, todo |-> specs, told |-> "none", runs |-> install.runs + 1]
    /\ torn' = FALSE /\ misplaced' = FALSE
    /\ UNCHANGED <<patchVars, uploadVars, file, unpacked, removing, removals, shut>>

InstallEnds(told) == install' = [install EXCEPT !.active = FALSE, !.cancel = FALSE,
                                                !.at = "idle", !.told = told]
TakesNext(c) == install' = [install EXCEPT !.at = "next", !.todo = @ \ {c}]
InstallAt(stage) == install.active /\ install.at = stage

\* Who asks without force is told at once when everything is there.
DownloadComponents == BeginInstall(Plain)
InstallAllComponents == BeginInstall(Components)

\* No right to write, cancelled, or an error anywhere.
FailInstall ==
    /\ install.active /\ InstallEnds("error")
    /\ UNCHANGED <<patchVars, uploadVars, file, unpacked, removing, removals,
                   torn, misplaced, shut>>

SetUp(c) == c \in Zipped /\ (c \in Provided \/ unpacked[c] = "yes")

\* A file that passes its checksum, or a tool that is found, is not installed again.
SkipComponent(c) ==
    /\ InstallAt("next") /\ c \in install.todo /\ ~install.cancelled
    /\ file[c] = "good" \/ SetUp(c)
    /\ TakesNext(c)
    /\ UNCHANGED <<patchVars, uploadVars, file, unpacked, removing, removals,
                   torn, misplaced, shut>>

Wanted(c) ==
    /\ InstallAt("next") /\ c \in install.todo /\ ~install.cancelled
    /\ file[c] # "good" /\ ~SetUp(c)
HasFile(c) == IF c \in Zipped THEN install' = [install EXCEPT !.at = c] ELSE TakesNext(c)

\* A verified copy is found elsewhere; copying it may leave a part.
CopyComponent(c) ==
    /\ Wanted(c)
    /\ \/ file' = [file EXCEPT ![c] = "good"] /\ HasFile(c)
       \/ file' \in {[file EXCEPT ![c] = "bad"], file} /\ InstallEnds("error")
    /\ UNCHANGED <<patchVars, uploadVars, unpacked, removing, removals, torn,
                   misplaced, shut>>

\* Into a temporary file, which takes the name if its checksum is right; else what
\* has the name is removed.
\* Faulty variant: the checksum is not compared.
PlacesAnything == {"good", "bad"}
Placed == {"good"}

DownloadComponent(c) ==
    /\ Wanted(c)
    /\ \/ /\ \E got \in Placed : file' = [file EXCEPT ![c] = got]
          /\ HasFile(c)
       \/ file' \in {[file EXCEPT ![c] = "none"], file} /\ InstallEnds("error")
    /\ UNCHANGED <<patchVars, uploadVars, unpacked, removing, removals, torn,
                   misplaced, shut>>

UnpackArchive(c) ==
    /\ InstallAt(c)
    /\ \/ unpacked' = [unpacked EXCEPT ![c] = "yes"] /\ TakesNext(c)
       \/ unpacked' = [unpacked EXCEPT ![c] = "part"] /\ InstallEnds("error")
    /\ UNCHANGED <<patchVars, uploadVars, file, removing, removals, torn,
                   misplaced, shut>>

EndInstall ==
    /\ InstallAt("next") /\ install.todo = {} /\ InstallEnds("done")
    /\ UNCHANGED <<patchVars, uploadVars, file, unpacked, removing, removals,
                   torn, misplaced, shut>>

CancelInstall ==
    /\ install.active /\ install.cancel
    /\ install' = [install EXCEPT !.cancelled = TRUE]
    /\ UNCHANGED <<patchVars, uploadVars, file, unpacked, removing, removals,
                   torn, misplaced, shut>>

\* handleAndroidEnvUninstallAll lets go of the lock before it removes anything,
\* in several steps, and reports no file that it could not remove.
AskUninstall ==
    /\ ~shut /\ ~removing /\ ~install.active /\ removals < MaxRemovals
    /\ removing' = TRUE /\ removals' = removals + 1
    /\ UNCHANGED <<patchVars, uploadVars, install, file, unpacked, torn,
                   misplaced, shut>>

Uninstall ==
    /\ removing /\ removing' \in BOOLEAN
    /\ \E gone \in SUBSET Components :
          /\ file' = [c \in Components |-> IF c \in gone THEN "none" ELSE file[c]]
          /\ unpacked' = [a \in Zipped |-> IF a \in gone THEN "no" ELSE unpacked[a]]
    /\ torn' = TRUE
    /\ UNCHANGED <<patchVars, uploadVars, install, removals, misplaced, shut>>

\* handleAndroidAdbDownloadTools takes no lock: adb is unpacked, or torn.
DownloadPlatformTools ==
    /\ ~shut /\ PlatformTools \in Zipped
    /\ \/ unpacked' = [unpacked EXCEPT ![PlatformTools] = "yes"] /\ UNCHANGED torn
       \/ unpacked' = [unpacked EXCEPT ![PlatformTools] = "part"] /\ torn' = TRUE
    /\ UNCHANGED <<patchVars, uploadVars, install, file, removing, removals,
                   misplaced, shut>>

\* ControlServer.Stop: everything is cancelled, nothing is waited for.
StopPatching ==
    /\ ~shut /\ shut' = TRUE
    /\ work' = IF patch.cancel = 0 THEN work
               ELSE [work EXCEPT ![patch.cancel].cancelled = TRUE]
    /\ patch' = [patch EXCEPT !.cancel = 0]
    /\ install' = [install EXCEPT !.cancelled = @ \/ install.cancel, !.cancel = FALSE]
    /\ kept' = {} /\ onDisk' = onDisk \ kept
    /\ UNCHANGED <<asked, ensure, result, output, upload, file, unpacked,
                   removing, removals, torn,
                   misplaced>>

RequestStep(r) == \/ \E d \in Uploads : AskPatch(r, d)
                  \/ Reserve(r) \/ CheckReady(r) \/ Launch(r)
JobStep(j) == \/ FindTools(j) \/ InspectInput(j) \/ ExecuteLSPatch(j) \/ BundleOutput(j)
              \/ Audit(j) \/ FailJob(j) \/ FinishJob(j)
EnsureStep == (\E who \in Callers : EnsureModule(who)) \/ CopyModule \/ FetchModule
InstallStep == \/ DownloadComponents \/ InstallAllComponents
               \/ \E c \in Components : SkipComponent(c) \/ CopyComponent(c)
                                      \/ DownloadComponent(c)
               \/ \E c \in Zipped : UnpackArchive(c)
               \/ FailInstall \/ EndInstall \/ CancelInstall

AndroidNext == \/ \E d \in Uploads : SaveUpload(d) \/ ExtractFromDevice(d)
               \/ RejectUpload \/ LookRunning \/ RegisterUpload
               \/ \E r \in Requesters : RequestStep(r)
               \/ \E j \in Jobs : JobStep(j)
               \/ EnsureStep
               \/ CancelPatch \/ InstallStep \/ AskUninstall \/ Uninstall
               \/ DownloadPlatformTools \/ StopPatching

AndroidSpec == AndroidInit /\ [][AndroidNext]_androidVars

-----------------------------------------------------------------------------
\* What is reported as done is there.  A job shown as successful left the package
\* in the output directory, whole and its own, whatever was asked for, cancelled
\* or timed out beside it; and an installation shown as done left every component
\* verified or found, unless something was removed meanwhile, or the module is
\* being replaced by a request or a job that had looked at it before, or such a
\* replacement failed.
Replacing == ensure.at \in {"copying", "placing"} \/ misplaced
ReportedIsThere ==
    /\ result.is = "ok" => output = [by |-> result.job, whole |-> TRUE]
    /\ install.told = "done" /\ ~torn =>
          \A c \in install.specs : \/ file[c] = "good" \/ SetUp(c)
                                   \/ c = Module /\ Replacing

\* "atomically places it into toolsDir" (components.go:967-968): while a download of
\* the module takes its place, the tools that an installation reported stay there.
PlacedAtomically ==
    ensure.at = "placing" /\ install.told = "done" /\ ~torn /\ ~misplaced =>
        (Module \in install.specs => file[Module] = "good")

\* Every directory of an upload that is on the disk is registered, or belongs to the
\* upload under way, and what is registered is there: uploads that are rejected,
\* that find a job running before or after they looked, and Stop beside them leave no
\* directory behind that nobody knows of (registerAndroidTempDir, Stop).
UploadsAccounted == kept \subseteq onDisk /\ onDisk \subseteq kept \union {upload.dir}

\* "InstallAllComponents downloads, validates, and sets up all components"
\* (components.go:1087): after it is done the tools can be used.
DoneIsSetUp ==
    install.told = "done" /\ ~torn => \A a \in install.specs \intersect Zipped : SetUp(a)
=============================================================================
