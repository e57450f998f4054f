--------------------------- MODULE ControlConfig ---------------------------
(***************************************************************************)
(* The configuration and what must follow it (engine/control/control.go,   *)
(* engine/config, engine/main.go): the saved file, the two listeners, the  *)
(* cache directory, the PAC address of the system and the autostart entry. *)
(* Handlers hold applyMu for a whole transaction, whose steps may fail and *)
(* be taken back; the tray and the console start and stop the proxy beside *)
(* it, main follows what it has loaded while requests come in already,     *)
(* cache maintenance comes and goes, and the program may die between two   *)
(* steps.                                                                  *)
(*                                                                         *)
(* A setting is the part of the configuration that something else follows. *)
(* A listener moves to another port (that a rebinding of the same port may *)
(* leave none is ProxyListener's).                                         *)
(***************************************************************************)
EXTENDS SystemProxy

CONSTANTS Settings,    \* [port, cport, dir, pac, start]
          MaxFaults,   \* bound: how many steps fail
          MaxCrashes,  \* bound: how often the program dies
          MaxForeign,  \* bound: how often others change the PAC address
          MaxTx,       \* bound: how many transactions begin
          NoTx

\* The two switches are set whatever the rest of a configuration is.
ASSUME SettingsAssumption ==
    /\ Settings \subseteq [port : Ports, cport : {s.cport : s \in Settings},
                            dir : {s.dir : s \in Settings}, pac : BOOLEAN, start : BOOLEAN]
    /\ \A s \in Settings, b \in BOOLEAN :
          [s EXCEPT !.pac = b] \in Settings /\ [s EXCEPT !.start = b] \in Settings

VARIABLES cfg,          \* Manager.cfg and its snapshot
          disk,         \* config.json
          alive,
          lport,        \* the port the proxy listens on; 0 when it is stopped
          cport,        \* the port of the control server
          base,         \* Manager.cacheBase of the cache
          autostart,    \* the entry of the system
          pac,          \* SystemProxy's state
          maintenance,  \* another cache task is active
          tx,           \* the transaction that holds applyMu
          loaded,       \* main's curCfg: what it has loaded ...
          boot,         \* ... and what it has still to set from it
          count,        \* of transactions, faults, crashes, changes by others
          told,         \* history: a taking back failed, or a warning was given
          theirs,       \* history: the PAC address without us
          spoiled,      \* history: it was changed while ours, or left ours at the end
          stale,        \* history: it was changed while an earlier one was remembered
          early,        \* history: the proxy was started on a port that may be taken back
          overtaken,    \* history: a request came before main had set everything
          crashed       \* history

runtimeVars == <<lport, cport, base, autostart, pac>>
bootVars == <<loaded, boot, overtaken>>
pacHistory == <<theirs, spoiled, stale>>
configVars == <<cfg, disk, alive, runtimeVars, maintenance, tx, bootVars, count, told,
                pacHistory, early, crashed>>

Kinds == {"apply", "startup", "pac"}
Stages == {"commit", "save", "proxy", "control", "unproxy", "undo", "unsave", "runtime", "pac",
           "startup", "recommit", "resave", "update", "updateSave", "putBack"}

NewTx(kind, new, at) == [kind |-> kind, at |-> at, old |-> cfg, new |-> new, again |-> FALSE]

Transactions == [kind : Kinds, at : Stages, old : Settings, new : Settings, again : BOOLEAN]

ASSUME NoTxAssumption == NoTx \notin Transactions

ConfigTypeOK ==
    /\ {cfg, disk, loaded} \subseteq Settings /\ {alive, maintenance} \subseteq BOOLEAN
    /\ lport \in Ports \union {0} /\ autostart \in BOOLEAN /\ pac \in PACState
    /\ tx \in Transactions \union {NoTx} /\ boot \in {"pac", "startup", "over"}
    /\ theirs \in PACs
    /\ {told, spoiled, stale, early, overtaken, crashed} \subseteq BOOLEAN

Counts == [tx |-> 0, faults |-> 0, crashes |-> 0, foreign |-> 0]

ConfigInit ==
    /\ cfg \in {s \in Settings : ~s.pac /\ ~s.start} /\ disk = cfg /\ alive = TRUE
    /\ lport = cfg.port /\ cport = cfg.cport /\ base = cfg.dir /\ autostart = FALSE
    /\ theirs \in Foreign \union {NoPAC}
    /\ pac = FreshPAC(theirs, NoFile)
    /\ maintenance = FALSE /\ tx = NoTx /\ count = Counts
    /\ loaded = cfg /\ boot = "over"
    /\ told = FALSE /\ spoiled = FALSE /\ stale = FALSE
    /\ early = FALSE /\ overtaken = FALSE /\ crashed = FALSE

-----------------------------------------------------------------------------
MayFail == count.faults < MaxFaults
Fails == MayFail /\ count' = [count EXCEPT !.faults = @ + 1]
Works == UNCHANGED count
GoOn(at) == tx' = [tx EXCEPT !.at = at]
End == tx' = NoTx
TxAt(stage) == tx # NoTx /\ tx.at = stage

\* A request that takes applyMu.
Begins == alive /\ tx = NoTx /\ count.tx < MaxTx
Counted == count' = [count EXCEPT !.tx = @ + 1]
Overtakes == overtaken' = (overtaken \/ boot # "over")

\* The address in the system.  A call fails only where the registry is written.
SwitchPAC(on, port) == pac' = IF on THEN EnablePACProxy(pac, port) ELSE DisablePACProxy(pac)
PACFails(on, port) == /\ on \/ HasToGiveBack(pac)
                      /\ pac' = IF on THEN EnableFails(pac, port) ELSE DisableFails(pac)

\* The transaction claims the cache tasks when it changes the directory.
Switching == tx # NoTx /\ tx.kind = "apply" /\ tx.new.dir # tx.old.dir
\* Faulty variant: a task that runs is no obstacle.
AdmittedAlways(new) == TRUE
Admitted(new) == new.dir # cfg.dir => ~maintenance

BeginApply(new) ==
    /\ Begins /\ Counted /\ Overtakes
    /\ new # cfg /\ Admitted(new)
    /\ tx' = NewTx("apply", new, "commit")
    /\ UNCHANGED <<cfg, disk, alive, runtimeVars, maintenance, loaded, boot, told, pacHistory,
                   early, crashed>>

\* Manager.Commit: first the memory, which everybody reads, then the file.
Memory(stage, value, next) ==
    /\ TxAt(stage)
    /\ cfg' = value /\ GoOn(next)
    /\ UNCHANGED <<disk, alive, runtimeVars, maintenance, bootVars, count, told, pacHistory,
                   early, crashed>>

Commit == Memory("commit", tx.new, "save")

\* Save: a temporary file that is renamed; when that fails the memory goes back.
Save ==
    /\ TxAt("save")
    /\ \/ Works /\ disk' = cfg /\ GoOn("proxy") /\ UNCHANGED cfg
          /\ early' = (early /\ lport # cfg.port)
       \/ Fails /\ cfg' = tx.old /\ End /\ UNCHANGED <<disk, early>>
    /\ UNCHANGED <<alive, runtimeVars, maintenance, bootVars, told, pacHistory, crashed>>

\* ReloadListener of the proxy does nothing when it is stopped.
Moved(port) == IF lport = 0 THEN 0 ELSE port

ReloadProxy ==
    /\ TxAt("proxy")
    /\ \/ /\ Works /\ GoOn("control")
          /\ lport' = IF tx.new.port # tx.old.port THEN Moved(tx.new.port) ELSE lport
          /\ early' = (early /\ lport' # cfg.port)
       \/ /\ tx.new.port # tx.old.port /\ lport \notin {0, tx.new.port}
          /\ Fails /\ GoOn("undo") /\ UNCHANGED <<lport, early>>
    /\ UNCHANGED <<cfg, disk, alive, cport, base, autostart, pac, maintenance, bootVars, told,
                   pacHistory, crashed>>

\* Faulty variant: the proxy stays at the new port.
ForgetProxy == "undo"
AfterControlFailed == IF tx.new.port # tx.old.port THEN "unproxy" ELSE "undo"

ReloadControl ==
    /\ TxAt("control")
    /\ \/ /\ Works /\ GoOn("runtime")
          /\ cport' = IF tx.new.cport # tx.old.cport THEN tx.new.cport ELSE cport
       \/ /\ tx.new.cport # tx.old.cport
          /\ Fails /\ GoOn(AfterControlFailed) /\ UNCHANGED cport
    /\ UNCHANGED <<cfg, disk, alive, lport, base, autostart, pac, maintenance, bootVars, told,
                   pacHistory, early, crashed>>

\* Taking back the proxy's port, and then the configuration, as far as it goes.
ReloadProxyBack ==
    /\ TxAt("unproxy") /\ GoOn("undo")
    /\ \/ Works /\ lport' = Moved(tx.old.port) /\ UNCHANGED told
       \/ /\ lport \notin {0, tx.old.port}
          /\ Fails /\ told' = TRUE /\ UNCHANGED lport
    /\ UNCHANGED <<cfg, disk, alive, cport, base, autostart, pac, maintenance, bootVars,
                   pacHistory, early, crashed>>

CommitBack == Memory("undo", tx.old, "unsave")

SaveBack ==
    /\ TxAt("unsave") /\ End
    /\ \/ Works /\ disk' = cfg /\ UNCHANGED <<cfg, told>>
       \/ Fails /\ cfg' = tx.new /\ told' = TRUE /\ UNCHANGED disk
    /\ UNCHANGED <<alive, runtimeVars, maintenance, bootVars, pacHistory, early, crashed>>

\* The rest follows the configuration as well as it can.
SetCacheBase ==
    /\ TxAt("runtime") /\ GoOn("pac")
    /\ base' = IF tx.new.dir # tx.old.dir THEN tx.new.dir ELSE base
    /\ UNCHANGED <<cfg, disk, alive, lport, cport, autostart, pac, maintenance, bootVars, count,
                   told, pacHistory, early, crashed>>

NeedsPAC == tx.new.pac # tx.old.pac \/ (tx.new.pac /\ tx.new.port # tx.old.port)

SyncPAC ==
    /\ TxAt("pac")
    /\ \/ /\ Works /\ GoOn("startup") /\ UNCHANGED told
          /\ IF NeedsPAC THEN SwitchPAC(tx.new.pac, tx.new.port) ELSE UNCHANGED pac
       \/ /\ NeedsPAC /\ Fails /\ PACFails(tx.new.pac, tx.new.port)
          /\ told' = (told \/ tx.old.pac)
          /\ tx' = [tx EXCEPT !.at = "startup", !.new.pac = tx.old.pac,
                              !.again = (tx.new.pac # tx.old.pac)]
    /\ UNCHANGED <<cfg, disk, alive, lport, cport, base, autostart, maintenance, bootVars,
                   pacHistory, early, crashed>>

SyncStartup ==
    /\ TxAt("startup")
    /\ \/ Works /\ GoOn("recommit") /\ autostart' = IF tx.new.start # tx.old.start
                                                     THEN tx.new.start ELSE autostart
       \/ /\ tx.new.start # tx.old.start /\ Fails /\ UNCHANGED autostart
          /\ tx' = [tx EXCEPT !.at = "recommit", !.new.start = tx.old.start, !.again = TRUE]
    /\ UNCHANGED <<cfg, disk, alive, lport, cport, base, pac, maintenance, bootVars, told,
                   pacHistory, early, crashed>>

Recommit == tx # NoTx /\ tx.again /\ Memory("recommit", tx.new, "resave")

NoRecommit ==
    /\ TxAt("recommit") /\ ~tx.again /\ End
    /\ UNCHANGED <<cfg, disk, alive, runtimeVars, maintenance, bootVars, count, told, pacHistory,
                   early, crashed>>

SaveAgain ==
    /\ TxAt("resave") /\ End
    /\ \/ Works /\ disk' = cfg /\ UNCHANGED <<cfg, told>>
       \/ Fails /\ cfg' = disk /\ told' = TRUE /\ UNCHANGED disk
    /\ UNCHANGED <<alive, runtimeVars, maintenance, bootVars, pacHistory, early, crashed>>

-----------------------------------------------------------------------------
(* handleStartupSet, handleSysProxyEnable and -Disable: the system first;   *)
(* when that fails the request does.                                        *)
SetStartup(on) ==
    /\ Begins /\ Overtakes
    /\ \/ /\ Counted /\ autostart' = on
          /\ tx' = NewTx("startup", [cfg EXCEPT !.start = on], "update")
       \/ /\ MayFail /\ count' = [count EXCEPT !.tx = @ + 1, !.faults = @ + 1]
          /\ UNCHANGED <<autostart, tx>>
    /\ UNCHANGED <<cfg, disk, alive, lport, cport, base, pac, maintenance, loaded, boot, told,
                   pacHistory, early, crashed>>

SetPAC(on) ==
    /\ Begins /\ Overtakes
    /\ \/ /\ Counted /\ SwitchPAC(on, cfg.port)
          /\ tx' = NewTx("pac", [cfg EXCEPT !.pac = on], "update")
       \/ /\ MayFail /\ count' = [count EXCEPT !.tx = @ + 1, !.faults = @ + 1]
          /\ PACFails(on, cfg.port) /\ UNCHANGED tx
    /\ UNCHANGED <<cfg, disk, alive, lport, cport, base, autostart, maintenance, loaded, boot,
                   told, pacHistory, early, crashed>>

\* UpdateWithError; when it fails the system is put back.
Update == Memory("update", tx.new, "updateSave")

SaveUpdate ==
    /\ TxAt("updateSave")
    /\ \/ Works /\ disk' = cfg /\ End /\ UNCHANGED cfg
       \/ Fails /\ cfg' = tx.old /\ GoOn("putBack") /\ UNCHANGED disk
    /\ UNCHANGED <<alive, runtimeVars, maintenance, bootVars, told, pacHistory, early, crashed>>

\* Disabling what was disabled before is not put back.
PutsPACBack == tx.kind = "pac" /\ (tx.old.pac \/ tx.new.pac)

PutBack ==
    /\ TxAt("putBack") /\ End
    /\ \/ /\ Works /\ UNCHANGED told
          /\ autostart' = IF tx.kind = "startup" THEN tx.old.start ELSE autostart
          /\ IF PutsPACBack THEN SwitchPAC(tx.old.pac, tx.old.port) ELSE UNCHANGED pac
       \/ /\ Fails /\ told' = TRUE /\ UNCHANGED autostart
          /\ \/ tx.kind = "startup" /\ UNCHANGED pac
             \/ PutsPACBack /\ PACFails(tx.old.pac, tx.old.port)
    /\ UNCHANGED <<cfg, disk, alive, lport, cport, base, maintenance, bootVars, pacHistory, early,
                   crashed>>

-----------------------------------------------------------------------------
(* What goes on beside the transactions.                                    *)
ToggleMaintenance ==
    /\ alive /\ ~Switching
    /\ maintenance' = ~maintenance
    /\ UNCHANGED <<cfg, disk, alive, runtimeVars, tx, bootVars, count, told, pacHistory, early,
                   crashed>>

\* The tray and the buttons of the console start and stop the proxy under no lock
\* of the configuration: it starts on the port that is in memory at that moment.
TrayStarts == /\ alive /\ lport = 0
              /\ lport' = cfg.port
              /\ early' = (TxAt("save") \/ TxAt("undo"))
              /\ UNCHANGED <<cfg, disk, alive, cport, base, autostart, pac, maintenance, tx,
                             bootVars, count, told, pacHistory, crashed>>

TrayStops == /\ alive /\ lport # 0
             /\ lport' = 0 /\ early' = FALSE
             /\ UNCHANGED <<cfg, disk, alive, cport, base, autostart, pac, maintenance, tx,
                            bootVars, count, told, pacHistory, crashed>>

\* Somebody else sets the PAC address.
SetForeign(url) ==
    /\ count.foreign < MaxForeign /\ url # pac.sys
    /\ count' = [count EXCEPT !.foreign = @ + 1]
    /\ spoiled' = (spoiled \/ pac.sys \in Ports)
    /\ stale' = (stale \/ (pac.sys \notin Ports /\ pac.original # NoPAC))
    /\ pac' = [pac EXCEPT !.sys = url] /\ theirs' = url
    /\ UNCHANGED <<cfg, disk, alive, lport, cport, base, autostart, maintenance, tx, bootVars,
                   told, early, crashed>>

Dead == /\ alive' = FALSE /\ lport' = 0 /\ tx' = NoTx /\ maintenance' = FALSE
        /\ boot' = "over" /\ early' = FALSE
        /\ UNCHANGED <<cfg, disk, base, cport, autostart, loaded, told, theirs, stale, overtaken>>

Crash == /\ alive /\ count.crashes < MaxCrashes
         /\ count' = [count EXCEPT !.crashes = @ + 1]
         /\ Dead /\ pac' = FreshPAC(pac.sys, pac.file)
         /\ crashed' = TRUE /\ spoiled' = TRUE

\* main: CleanupOnExit, whose error is dropped, and the servers stop.  A request
\* that outlasts them is one that a crash ends.
Exit == /\ alive /\ tx = NoTx /\ boot = "over"
        /\ Dead /\ UNCHANGED crashed
        /\ \/ /\ pac' = FreshPAC(CleanupOnExit(pac).sys, CleanupOnExit(pac).file)
              /\ Works /\ UNCHANGED spoiled
           \/ /\ HasToCleanUp(pac) /\ HasToGiveBack(pac) /\ Fails /\ spoiled' = TRUE
              /\ pac' = FreshPAC(pac.sys, pac.file)

\* main again: it loads the file and starts everything on the configured ports; ...
Restart ==
    /\ ~alive /\ alive' = TRUE
    /\ cfg' = disk /\ lport' = disk.port /\ cport' = disk.cport /\ base' = disk.dir
    /\ loaded' = disk /\ boot' = "pac"
    /\ UNCHANGED <<disk, autostart, pac, maintenance, tx, overtaken, count, told, pacHistory,
                   early, crashed>>

\* ... then, without applyMu, it sets what it has loaded where that asks for
\* something, and only logs what fails.
FollowPAC ==
    /\ alive /\ boot = "pac" /\ boot' = "startup"
    /\ \/ /\ Works /\ UNCHANGED told
          /\ IF loaded.pac THEN SwitchPAC(TRUE, loaded.port) ELSE UNCHANGED pac
       \/ loaded.pac /\ Fails /\ told' = TRUE /\ PACFails(TRUE, loaded.port)
    /\ UNCHANGED <<cfg, disk, alive, lport, cport, base, autostart, maintenance, tx, loaded,
                   overtaken, pacHistory, early, crashed>>

FollowStartup ==
    /\ alive /\ boot = "startup" /\ boot' = "over"
    /\ \/ Works /\ autostart' = (autostart \/ loaded.start) /\ UNCHANGED told
       \/ loaded.start /\ Fails /\ told' = TRUE /\ UNCHANGED autostart
    /\ UNCHANGED <<cfg, disk, alive, lport, cport, base, pac, maintenance, tx, loaded, overtaken,
                   pacHistory, early, crashed>>

ApplyStep == Commit \/ Save \/ ReloadProxy \/ ReloadControl \/ ReloadProxyBack \/ CommitBack
             \/ SaveBack \/ SetCacheBase \/ SyncPAC \/ SyncStartup \/ Recommit \/ NoRecommit
             \/ SaveAgain
SwitchStep == Update \/ SaveUpdate \/ PutBack

ConfigNext == \/ \E new \in Settings : BeginApply(new)
              \/ \E on \in BOOLEAN : SetStartup(on) \/ SetPAC(on)
              \/ ApplyStep \/ SwitchStep
              \/ ToggleMaintenance \/ TrayStarts \/ TrayStops
              \/ \E url \in Foreign \union {NoPAC} : SetForeign(url)
              \/ Crash \/ Exit \/ Restart \/ FollowPAC \/ FollowStartup

ConfigSpec == ConfigInit /\ [][ConfigNext]_configVars

-----------------------------------------------------------------------------
Resting == alive /\ tx = NoTx /\ boot = "over"

\* When no request is under way, the saved file, both listeners and the cache
\* directory are those of the configuration that the program answers with, also
\* after a step failed and others were taken back, and after a crash; unless
\* taking back failed itself, which was reported.  The PAC address and the entry
\* follow as well, but for two exceptions: the proxy may have been started on a
\* port that a failing request then took back (early), and main may have set what
\* it loaded over what a request asked for in the meantime (overtaken).
AppliedTogether ==
    (Resting /\ ~told) =>
        /\ disk = cfg /\ cport = cfg.cport /\ base = cfg.dir
        /\ ~early => lport \in {0, cfg.port}
        /\ cfg.start => autostart
        /\ ~crashed /\ ~overtaken =>
              /\ autostart = cfg.start
              /\ pac.sys \in Ports => cfg.pac /\ pac.sys = cfg.port

\* The same without the first exception: "proxy is unexpectedly still listening on
\* port %d after rollback" (control_test.go:817) is what a test reports.
PortTakenBack == (Resting /\ ~told) => lport \in {0, cfg.port}

\* The same without the second: "the port read, the system side effect and the commit
\* must be one unit" (control.go:2501-2502).
AddressConfigured ==
    (Resting /\ ~told /\ ~crashed /\ pac.sys \in Ports) => cfg.pac /\ pac.sys = cfg.port

\* The cache directory changes only while no other cache task is active: the
\* transaction claims the tasks before it commits and holds the claim until its end.
AloneOnDirectory == base' # base => ~maintenance \/ ~alive
SwitchedAlone == [][AloneOnDirectory]_configVars

\* A program that ends leaves the PAC address that is there without it: what was
\* set before, through changes of the port, requests and taking back that failed,
\* and starts that could not set it; unless the address was changed by somebody
\* else while it was ours, the program died or could not give it back at its end
\* (spoiled), or somebody changed it while the program remembered an earlier one,
\* which an enabling that failed leaves behind (stale).
TheirsGivenBack == (~alive /\ ~spoiled /\ ~stale) => pac.sys = theirs

\* The same without the last exception: "CleanupOnExit safely restores system proxy
\* settings on application shutdown" (sysproxy.go:154).
LatestGivenBack == (~alive /\ ~spoiled) => pac.sys = theirs

\* A program that ends properly leaves none of its own addresses behind.
NoneOfOursLeft == (~alive /\ pac.file = NoFile) => pac.sys \notin Ports
=============================================================================
