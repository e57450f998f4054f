---------------------------- MODULE HealthRepair ----------------------------
(***************************************************************************)
(* The health check and the repairs (engine/health) over the proxy's       *)
(* listener: Repair checks everything, chooses the items it may repair,    *)
(* and works through them by priority; items that need the data plane are  *)
(* skipped when it is down.  It holds applyMu, so the configuration stays, *)
(* while the user may start and stop the proxy from the tray.              *)
(*                                                                         *)
(* A check is one step here.  Whether a probe is answered, a directory can *)
(* be made or the user confirms is the environment's choice.  Items about  *)
(* the version, invalid ports and the address of the control server are    *)
(* left out: nothing the program does changes them.                        *)
(***************************************************************************)
EXTENDS ProxyListener

VARIABLES cacheDir,  \* the cache directory: "ok", "missing" or "denied"
          rootCA,    \* the root certificate: "ok", "absent" (not trusted) or "expired"
          firewall,  \* TRUE when the firewall admits the port
          repair,    \* the repair under way
          tray       \* history: the user started or stopped the proxy during it

worldVars == <<cacheDir, rootCA, firewall>>
healthVars == <<worldVars, repair, tray>>

\* ServerRepairMap: what is done about a code, and whether the user has to confirm.
RepairMap == [
    CACHE_DIR_MISSING           |-> [does |-> "mkdir",    confirm |-> FALSE, rank |-> 10],
    CA_NOT_INSTALLED            |-> [does |-> "install",  confirm |-> TRUE,  rank |-> 20],
    CA_EXPIRED                  |-> [does |-> "renew",    confirm |-> TRUE,  rank |-> 20],
    FIREWALL_RULE_MISSING       |-> [does |-> "admit",    confirm |-> TRUE,  rank |-> 30],
    DATA_PLANE_STOPPED          |-> [does |-> "start",    confirm |-> FALSE, rank |-> 40],
    DATA_PLANE_PROBE_FAILED     |-> [does |-> "reload",   confirm |-> FALSE, rank |-> 40],
    DATA_PLANE_PORT_MISMATCH    |-> [does |-> "reload",   confirm |-> FALSE, rank |-> 40],
    PAC_PORT_MISMATCH           |-> [does |-> "pac",      confirm |-> FALSE, rank |-> 50],
    CA_ENDPOINT_FAILED          |-> [does |-> "endpoint", confirm |-> FALSE, rank |-> 50],
    LAN_DATA_PLANE_NOT_BOUND    |-> [does |-> "lan",      confirm |-> FALSE, rank |-> 60]]

Codes == DOMAIN RepairMap
PlaneActions == {"start", "reload"}
NeedPlane == {"endpoint", "pac", "lan"}

NoRepair == [at |-> "idle", todo |-> {}, planeFailed |-> FALSE, planeFixed |-> FALSE,
             caFailed |-> FALSE, fixed |-> {}, failed |-> {}, skipped |-> {}]

HealthTypeOK ==
    /\ cacheDir \in {"ok", "missing", "denied"} /\ rootCA \in {"ok", "absent", "expired"}
    /\ firewall \in BOOLEAN /\ tray \in BOOLEAN
    /\ repair \in [at : {"idle", "working"}, todo : SUBSET Codes, planeFailed : BOOLEAN,
                   planeFixed : BOOLEAN, caFailed : BOOLEAN, fixed : SUBSET Codes,
                   failed : SUBSET Codes, skipped : SUBSET Codes]

HealthInit == /\ cacheDir \in {"ok", "missing"} /\ rootCA \in {"ok", "absent", "expired"}
              /\ firewall \in BOOLEAN /\ repair = NoRepair /\ tray = FALSE

-----------------------------------------------------------------------------
(* The checks: the code each of them finds, if it finds one.                *)
CheckCache == IF cacheDir = "missing" THEN {"CACHE_DIR_MISSING"} ELSE {}

CheckRootCA == CASE rootCA = "expired" -> {"CA_EXPIRED"}
                 [] rootCA = "absent" -> {"CA_NOT_INSTALLED"}
                 [] OTHER -> {}

\* Two probes of the port the listener really has.
CheckDataPlane(answered) ==
    CASE ~running -> {"DATA_PLANE_STOPPED"}
      [] running /\ ~answered -> {"DATA_PLANE_PROBE_FAILED"}
      [] running /\ answered /\ sock.addr.port # want.port -> {"DATA_PLANE_PORT_MISMATCH"}
      [] OTHER -> {}

\* The script that was fetched is compared with the configuration; without one
\* it is generated from it.
CheckPAC(answered) ==
    IF running /\ answered /\ sock.addr.port # want.port THEN {"PAC_PORT_MISMATCH"} ELSE {}

CheckLANFirewall ==
    CASE want.host # "any" -> {}
      [] want.host = "any" /\ running /\ sock.addr.host # "any" -> {"LAN_DATA_PLANE_NOT_BOUND"}
      [] want.host = "any" /\ ~(running /\ sock.addr.host # "any") /\ ~firewall
           -> {"FIREWALL_RULE_MISSING"}
      [] OTHER -> {}

Check(answered) == CheckCache \union CheckRootCA \union CheckDataPlane(answered)
                   \union CheckPAC(answered) \union CheckLANFirewall

\* A batch repairs what needs no confirmation; a request names one code, found or not.
Batch(found) == {c \in found : ~RepairMap[c].confirm}

RequestRepair ==
    /\ repair.at = "idle"
    /\ \E answered \in BOOLEAN :
          \E chosen \in {Batch(Check(answered))} \union {{c} : c \in Codes} :
              repair' = [NoRepair EXCEPT !.at = IF chosen = {} THEN "idle" ELSE "working",
                                         !.todo = chosen]
    /\ tray' = FALSE
    /\ UNCHANGED <<worldVars, listenerVars>>

-----------------------------------------------------------------------------
First(c) == \A d \in repair.todo : RepairMap[c].rank <= RepairMap[d].rank

Skipped(c) ==
    \/ /\ RepairMap[c].does \in NeedPlane
       /\ repair.planeFailed \/ (~running /\ ~repair.planeFixed)
    \/ RepairMap[c].does = "endpoint" /\ repair.caFailed

SkipItem(c) ==
    /\ repair.at = "working" /\ c \in repair.todo /\ First(c) /\ Skipped(c)
    /\ repair' = [repair EXCEPT !.todo = @ \ {c}, !.skipped = @ \union {c}]
    /\ UNCHANGED <<worldVars, tray, listenerVars>>

Done(c, ok) ==
    repair' = [repair EXCEPT
        !.todo = @ \ {c},
        !.fixed = IF ok THEN @ \union {c} ELSE @,
        !.failed = IF ok THEN @ ELSE @ \union {c},
        !.planeFailed = @ \/ (~ok /\ RepairMap[c].does \in PlaneActions),
        !.planeFixed = @ \/ (ok /\ RepairMap[c].does \in PlaneActions),
        !.caFailed = @ \/ (~ok /\ RepairMap[c].does \in {"install", "renew"})]

\* ReloadListener to the configured address: it succeeds without doing anything
\* when the proxy does not run, or listens there already.
NothingToReload == ~running \/ sock.addr = want
\* Back on its old address the listener serves, but the reload has failed.
Reports(c) == IF sock.addr = want /\ sock'.addr = want THEN \E ok \in BOOLEAN : Done(c, ok)
              ELSE Done(c, sock'.addr = want)
Rebinds(c) ==
    \/ NothingToReload /\ Done(c, TRUE) /\ UNCHANGED listenerVars
    \/ ReloadListener(want) /\ Reports(c)
    \/ /\ ~NothingToReload /\ sock.addr.port # want.port
       /\ Done(c, FALSE) /\ UNCHANGED listenerVars

\* Somebody else may have the port: then Start is not tried.
Starts(c) == \/ StartProxy /\ Done(c, TRUE)
             \/ StartFails /\ Done(c, FALSE)
             \/ ~running /\ Done(c, FALSE) /\ UNCHANGED listenerVars

StartsPlane(c) == IF running THEN Done(c, TRUE) /\ UNCHANGED listenerVars ELSE Starts(c)
\* Faulty variant: a stopped proxy is reloaded, not started.
RebindsAnyway(c) == Rebinds(c)
ReloadsPlane(c) == IF running THEN Rebinds(c) ELSE Starts(c)

\* The error of this reload is dropped.
ReloadsEndpoint(c) ==
    IF ~running THEN Done(c, FALSE) /\ UNCHANGED listenerVars
    ELSE /\ Done(c, TRUE)
         /\ \/ UNCHANGED listenerVars
            \/ ReloadListener(want)

ListensOnLAN(c) == IF want.host # "any" THEN Done(c, FALSE) /\ UNCHANGED listenerVars
                   ELSE Rebinds(c)

RepairListener(c) ==
    /\ repair.at = "working" /\ c \in repair.todo /\ First(c) /\ ~Skipped(c)
    /\ \/ RepairMap[c].does = "start" /\ StartsPlane(c)
       \/ RepairMap[c].does = "reload" /\ ReloadsPlane(c)
       \/ RepairMap[c].does = "pac" /\ Rebinds(c)
       \/ RepairMap[c].does = "endpoint" /\ ReloadsEndpoint(c)
       \/ RepairMap[c].does = "lan" /\ ListensOnLAN(c)
    /\ UNCHANGED <<worldVars, tray>>

RepairWorld(c) ==
    /\ repair.at = "working" /\ c \in repair.todo /\ First(c) /\ ~Skipped(c)
    /\ \/ /\ RepairMap[c].does = "mkdir"
          /\ \/ cacheDir' = "ok" /\ Done(c, TRUE)
             \/ cacheDir' = "denied" /\ Done(c, FALSE)
          /\ UNCHANGED <<rootCA, firewall>>
       \/ /\ RepairMap[c].does = "install"
          /\ \/ rootCA' = (IF rootCA = "absent" THEN "ok" ELSE rootCA) /\ Done(c, TRUE)
             \/ UNCHANGED rootCA /\ Done(c, FALSE)
          /\ UNCHANGED <<cacheDir, firewall>>
       \/ /\ RepairMap[c].does = "renew"
          /\ \/ rootCA' = "ok" /\ Done(c, TRUE)
             \/ rootCA' \in {"absent", rootCA} /\ Done(c, FALSE)
          /\ UNCHANGED <<cacheDir, firewall>>
       \/ /\ RepairMap[c].does = "admit"
          /\ \/ firewall' = TRUE /\ Done(c, TRUE)
             \/ UNCHANGED firewall /\ Done(c, FALSE)
          /\ UNCHANGED <<cacheDir, rootCA>>
    /\ UNCHANGED <<tray, listenerVars>>

\* The last check of Repair changes nothing; applyMu is released.
EndRepair ==
    /\ repair.at = "working" /\ repair.todo = {}
    /\ repair' = [repair EXCEPT !.at = "idle"]
    /\ UNCHANGED <<worldVars, tray, listenerVars>>

\* The tray's menu starts and stops the proxy; configuration changes wait for applyMu.
Toggle == /\ StartProxy \/ StopProxy
          /\ tray' = TRUE
          /\ UNCHANGED <<worldVars, repair>>

ChangeConfig == /\ repair.at = "idle"
                /\ \E a \in Addrs : Reconfigure(a)
                /\ repair' = NoRepair
                /\ UNCHANGED <<worldVars, tray>>

HealthNext == \/ RequestRepair \/ EndRepair \/ Toggle \/ ChangeConfig
              \/ \E c \in Codes : SkipItem(c) \/ RepairListener(c) \/ RepairWorld(c)

HealthSpec == HealthInit /\ ListenerInit /\ [][HealthNext]_<<healthVars, listenerVars>>

-----------------------------------------------------------------------------
\* A repair that reports the data plane as fixed and no failure leaves the proxy
\* running on the configured address, unless the user stopped it meanwhile:
\* ReloadListener succeeds on a stopped proxy, a start may find the port taken,
\* and the items after it bind the listener again, and may lose it.
FixedPlaneServes ==
    (/\ repair.at = "idle" /\ ~tray /\ repair.failed = {}
     /\ \E c \in repair.fixed : RepairMap[c].does \in PlaneActions)
        => running /\ (sock.addr = want \/ repair.fixed = {"DATA_PLANE_STOPPED"})
=============================================================================
