---------------------------- MODULE Proxy_proofs ----------------------------
(***************************************************************************)
(* Proofs about the parts of the proxy that work beside its requests:      *)
(*   ProxyListener and HealthRepair, for any addresses, any number of      *)
(*     connections and of listeners that replace each other: one listener  *)
(*     while the proxy runs and none afterwards, nobody is served after a  *)
(*     stop, and a repair that says it has fixed the data plane leaves it  *)
(*     serving;                                                            *)
(*   IdleGate, for any number of requests and waiters: no wakeup is lost;  *)
(*   Prefetch, for any assets, references and capacities: the in-flight    *)
(*     map holds what is under way, and nothing else.                      *)
(***************************************************************************)
EXTENDS HealthRepair, IdleGate, Prefetch, FiniteSetTheorems, SequenceTheorems, TLAPS

-----------------------------------------------------------------------------
(***************************************************************************)
(* The listener.                                                           *)
(***************************************************************************)
\* A running proxy knows the listener it has to close.
HasSocket == running => sock \in Socks

\* A proxy that has stopped has taken every connection it tracked.
RestsCut == ~running /\ ~lost => Tracked \subseteq doomed
HaltedRests == halted => ~running

ListenerIInv == ListenerTypeOK /\ HasSocket /\ OneListener /\ RestsCut /\ HaltedRests

-----------------------------------------------------------------------------
LEMMA ListenerInitIInv == ListenerInit => ListenerIInv
<1> SUFFICES ASSUME ListenerInit PROVE ListenerIInv
  OBVIOUS
<1>1. ListenerTypeOK
  <2>1. /\ loop \in [Gens -> {"none", "accepting", "holding", "refused", "over"}]
        /\ 0 \in 0 .. MaxLGen
    BY GensAssumption DEF ListenerInit
  <2>2. conn \in [Conns -> [at : {"none", "held", "tracked", "closed"}, by : 0 .. MaxLGen]]
    BY <2>1 DEF ListenerInit
  <2> QED  BY <2>1, <2>2 DEF ListenerInit, ListenerTypeOK
<1>2. Tracked = {}
  BY DEF ListenerInit, Tracked
<1> QED
  BY <1>1, <1>2 DEF ListenerInit, ListenerIInv, HasSocket, OneListener, RestsCut, HaltedRests

\* A new listener and its loop belong to the new generation (Start, ReloadListener).
LEMMA ServeNext ==
  ASSUME ListenerTypeOK, NEW a \in Addrs, lgen < MaxLGen, Serve(a)
  PROVE  /\ sock' \in Socks /\ sock'.gen = lgen' /\ lgen' \in 0 .. MaxLGen
         /\ loop' \in [Gens -> {"none", "accepting", "holding", "refused", "over"}]
         /\ loop'[lgen'] = "accepting"
<1>1. lgen + 1 \in Gens /\ lgen \in Nat
  BY GensAssumption DEF ListenerTypeOK, Gens
<1> QED  BY <1>1 DEF Serve, ListenerTypeOK, Socks, Gens

LEMMA StartIInv ==
  ASSUME ListenerIInv, StartProxy
  PROVE  ListenerIInv'
<1>1. /\ ListenerTypeOK /\ ~running /\ open = {} /\ want \in Addrs /\ Serve(want)
      /\ lgen < MaxLGen /\ open' = open \union {sock'} /\ running' = TRUE
      /\ engine' = "running" /\ lost' = FALSE /\ halted' = FALSE
      /\ UNCHANGED <<want, conn, doomed>>
  BY DEF ListenerIInv, OneListener, StartProxy, ListenerTypeOK
<1>2. /\ sock' \in Socks /\ sock'.gen = lgen' /\ lgen' \in 0 .. MaxLGen
      /\ loop' \in [Gens -> {"none", "accepting", "holding", "refused", "over"}]
      /\ loop'[lgen'] = "accepting"
  BY <1>1, ServeNext
<1>3. ListenerTypeOK'
  BY <1>1, <1>2 DEF ListenerTypeOK
<1> QED  BY <1>1, <1>2, <1>3 DEF ListenerIInv, HasSocket, OneListener, RestsCut, HaltedRests

\* The listener moves, or is bound again, at its own address when the new one
\* fails; when both fail the proxy has stopped.
LEMMA ReloadIInv ==
  ASSUME ListenerIInv, NEW a \in Addrs, ReloadListener(a)
  PROVE  ListenerIInv'
<1>1. /\ ListenerTypeOK /\ running /\ open = {sock} /\ sock \in Socks /\ lgen < MaxLGen
      /\ sock.addr \in Addrs /\ ~halted
      /\ UNCHANGED <<want, conn, doomed, engine, halted>>
  BY DEF ListenerIInv, HasSocket, OneListener, ReloadListener, HaltedRests, Socks
<1>2. ASSUME NEW b \in Addrs, Serve(b), open' = (open \ Retired) \union {sock'},
             UNCHANGED <<running, lost>>
      PROVE  ListenerIInv'
  <2>1. /\ sock' \in Socks /\ sock'.gen = lgen' /\ lgen' \in 0 .. MaxLGen
        /\ loop' \in [Gens -> {"none", "accepting", "holding", "refused", "over"}]
        /\ loop'[lgen'] = "accepting"
    BY <1>1, <1>2, ServeNext
  <2>2. open' = {sock'}
    BY <1>1, <1>2 DEF Retired
  <2>3. ListenerTypeOK'
    BY <1>1, <1>2, <2>1, <2>2 DEF ListenerTypeOK
  <2> QED  BY <1>1, <1>2, <2>1, <2>2, <2>3
           DEF ListenerIInv, HasSocket, OneListener, RestsCut, HaltedRests
<1>3. ASSUME sock' = NoSock, lgen' = lgen + 1, open' = open \ Retired, running' = FALSE,
             lost' = TRUE, UNCHANGED loop
      PROVE  ListenerIInv'
  <2>1. open' = {} /\ lgen' \in 0 .. MaxLGen
    BY <1>1, <1>3, GensAssumption DEF Retired, ListenerTypeOK
  <2>2. ListenerTypeOK'
    BY <1>1, <1>3, <2>1 DEF ListenerTypeOK
  <2> QED  BY <1>1, <1>3, <2>1, <2>2
           DEF ListenerIInv, HasSocket, OneListener, RestsCut, HaltedRests
<1>4. CASE MovePort(a)
  BY <1>2, <1>4 DEF MovePort
<1>5. CASE Rebind(a)
  BY <1>1, <1>2, <1>3, <1>5 DEF Rebind
<1> QED  BY <1>4, <1>5 DEF ReloadListener

LEMMA StopIInv ==
  ASSUME ListenerIInv, StopProxy
  PROVE  ListenerIInv'
<1>1. /\ ListenerTypeOK /\ halted' = TRUE /\ engine' \in {"none", "stopped"}
      /\ UNCHANGED <<want, loop, conn, lost>>
  BY DEF ListenerIInv, StopProxy, ListenerTypeOK
<1>2. CASE running
  <2>1. /\ lgen < MaxLGen /\ running' = FALSE /\ lgen' = lgen + 1 /\ sock' = NoSock
        /\ open' = open \ {sock} /\ doomed' = doomed \union Tracked
    BY <1>2 DEF StopProxy
  <2>2. open' = {} /\ lgen' \in 0 .. MaxLGen
    BY <1>1, <1>2, <2>1, GensAssumption DEF ListenerIInv, OneListener, ListenerTypeOK
  <2>3. Tracked' = Tracked /\ Tracked \subseteq Conns
    BY <1>1 DEF Tracked
  <2>4. ListenerTypeOK'
    BY <1>1, <2>1, <2>2, <2>3 DEF ListenerTypeOK
  <2> QED  BY <1>1, <2>1, <2>2, <2>3, <2>4
           DEF ListenerIInv, HasSocket, OneListener, RestsCut, HaltedRests
<1>3. CASE ~running
  <2>1. UNCHANGED <<running, lgen, sock, open, doomed>>
    BY <1>3 DEF StopProxy
  <2>2. Tracked' = Tracked
    BY <1>1 DEF Tracked
  <2>3. ListenerTypeOK'
    BY <1>1, <2>1 DEF ListenerTypeOK
  <2> QED  BY <1>1, <1>3, <2>1, <2>2, <2>3
           DEF ListenerIInv, HasSocket, OneListener, RestsCut, HaltedRests
<1> QED  BY <1>2, <1>3

\* Start that fails, and a configuration that nobody has applied yet.
LEMMA AskedIInv ==
  ASSUME ListenerIInv, StartFails \/ \E a \in Addrs : Reconfigure(a)
  PROVE  ListenerIInv'
<1>1. /\ UNCHANGED <<running, sock, lgen, open, loop, conn, doomed, lost>>
      /\ want' \in Addrs /\ engine' \in {"none", "running", "stopped"} /\ halted' \in {halted, FALSE}
  BY DEF ListenerIInv, ListenerTypeOK, StartFails, Reconfigure
<1>2. ListenerTypeOK'
  <2>1. halted' \in BOOLEAN
    BY <1>1 DEF ListenerIInv, ListenerTypeOK
  <2> QED  BY <1>1, <2>1 DEF ListenerIInv, ListenerTypeOK
<1>3. HaltedRests'
  BY <1>1 DEF ListenerIInv, HaltedRests
<1> QED
  BY <1>1, <1>2, <1>3 DEF ListenerIInv, HasSocket, OneListener, RestsCut, Tracked

\* The serve loop of a generation: it ends only when its generation is over, and
\* tracks nobody for a proxy that has stopped.
LEMMA LoopIInv ==
  ASSUME ListenerIInv, NEW g \in Gens, LoopStep(g)
  PROVE  ListenerIInv'
<1>1. /\ ListenerTypeOK /\ UNCHANGED <<want, running, sock, lgen, open, doomed, engine, lost, halted>>
  BY DEF ListenerIInv, LoopStep, AcceptFails, AfterError, Accept, Track
<1>2. /\ loop' \in [Gens -> {"none", "accepting", "holding", "refused", "over"}]
      /\ running => loop'[lgen] \in {"accepting", "holding", "refused"}
  <2>1. running => lgen \in Gens /\ loop[lgen] \in {"accepting", "holding", "refused"}
    BY DEF ListenerIInv, OneListener, HasSocket, Socks
  <2>2. \E place \in {"holding", "accepting", "refused", "over"} :
           /\ loop' = [loop EXCEPT ![g] = place]
           /\ place = "over" => ~running \/ g # lgen
    BY DEF LoopStep, AcceptFails, AfterError, Accept, Track
  <2> QED  BY <1>1, <2>1, <2>2 DEF ListenerTypeOK
<1>3. /\ conn' \in [Conns -> [at : {"none", "held", "tracked", "closed"}, by : 0 .. MaxLGen]]
      /\ ~running => Tracked' \subseteq Tracked
  <2>1. CASE AcceptFails(g) \/ AfterError(g)
    BY <1>1, <2>1 DEF AcceptFails, AfterError, ListenerTypeOK, Tracked
  <2>2. ASSUME NEW c \in Conns, Accept(g, c)
        PROVE  <1>3!1 /\ <1>3!2
    BY <1>1, <2>2, GensAssumption DEF Accept, ListenerTypeOK, Tracked, Gens
  <2>3. ASSUME NEW c \in Conns, Track(g, c)
        PROVE  <1>3!1 /\ <1>3!2
    <3>1. \E place \in {"tracked", "closed"} :
             /\ conn' = [conn EXCEPT ![c].at = place]
             /\ place = "tracked" => running
      BY <2>3 DEF Track, Welcome
    <3> QED  BY <1>1, <3>1 DEF ListenerTypeOK, Tracked
  <2> QED  BY <2>1, <2>2, <2>3 DEF LoopStep
<1>4. ListenerTypeOK'
  BY <1>1, <1>2, <1>3 DEF ListenerTypeOK
<1> QED
  BY <1>1, <1>2, <1>3, <1>4 DEF ListenerIInv, HasSocket, OneListener, RestsCut, HaltedRests

\* Connections end.
LEMMA LeaveIInv ==
  ASSUME ListenerIInv, NEW c \in Conns, CloseDoomed(c) \/ HangUp(c)
  PROVE  ListenerIInv'
<1>1. /\ ListenerTypeOK /\ conn' = [conn EXCEPT ![c].at = "closed"] /\ doomed' = doomed \ {c}
      /\ UNCHANGED <<want, running, sock, lgen, open, loop, engine, lost, halted>>
  BY DEF ListenerIInv, CloseDoomed, HangUp
<1>2. /\ conn' \in [Conns -> [at : {"none", "held", "tracked", "closed"}, by : 0 .. MaxLGen]]
      /\ Tracked' = Tracked \ {c}
  BY <1>1 DEF ListenerTypeOK, Tracked
<1>3. ListenerTypeOK'
  BY <1>1, <1>2 DEF ListenerTypeOK
<1> QED  BY <1>1, <1>2, <1>3 DEF ListenerIInv, HasSocket, OneListener, RestsCut, HaltedRests

LEMMA ListenerNextIInv == ListenerIInv /\ [ListenerNext]_listenerVars => ListenerIInv'
<1> SUFFICES ASSUME ListenerIInv, [ListenerNext]_listenerVars PROVE ListenerIInv'
  OBVIOUS
<1>1. CASE StartProxy
  BY <1>1, StartIInv
<1>2. CASE StopProxy
  BY <1>2, StopIInv
<1>3. ASSUME NEW a \in Addrs, ReloadListener(a) PROVE ListenerIInv'
  BY <1>3, ReloadIInv
<1>4. CASE StartFails \/ \E a \in Addrs : Reconfigure(a)
  BY <1>4, AskedIInv
<1>5. ASSUME NEW g \in Gens, LoopStep(g) PROVE ListenerIInv'
  BY <1>5, LoopIInv
<1>6. ASSUME NEW c \in Conns, CloseDoomed(c) \/ HangUp(c) PROVE ListenerIInv'
  BY <1>6, LeaveIInv
<1>7. CASE UNCHANGED listenerVars
  BY <1>7 DEF listenerVars, ListenerIInv, ListenerTypeOK, HasSocket, OneListener, RestsCut, HaltedRests,
              Tracked
<1> QED  BY <1>1, <1>2, <1>3, <1>4, <1>5, <1>6, <1>7 DEF ListenerNext

\* The invariant holds in every reachable state.
THEOREM ListenerIInvAlways == ListenerSpec => []ListenerIInv
<1>1. ListenerInit => ListenerIInv
  BY ListenerInitIInv
<1>2. ListenerIInv /\ [ListenerNext]_listenerVars => ListenerIInv'
  BY ListenerNextIInv
<1> QED  BY <1>1, <1>2, PTL DEF ListenerSpec

\* However often ReloadListener replaces the listener, and whatever binding fails:
\* a running proxy has one socket and a loop that serves it, a stopped one none.
THEOREM OneListenerAlways == ListenerSpec => []OneListener
<1>1. ListenerIInv => OneListener
  BY DEF ListenerIInv
<1> QED  BY <1>1, ListenerIInvAlways, PTL

\* Stop and trackConn leave nobody connected between them, unless a reload had
\* lost the listener before.
THEOREM StopAlwaysCuts == ListenerSpec => []StopCutsAll
<1>1. ListenerIInv => StopCutsAll
  BY DEF ListenerIInv, RestsCut, HaltedRests, StopCutsAll
<1> QED  BY <1>1, ListenerIInvAlways, PTL

-----------------------------------------------------------------------------
(***************************************************************************)
(* The repairs.                                                            *)
(***************************************************************************)
PlaneCodes == {"DATA_PLANE_STOPPED", "DATA_PLANE_PROBE_FAILED", "DATA_PLANE_PORT_MISMATCH"}

\* A repair that has fixed the data plane, and what it still has to do.
FixedServes ==
    repair.failed = {} /\ repair.fixed \intersect PlaneCodes # {} =>
        /\ running
        /\ sock.addr = want \/ (repair.fixed = {"DATA_PLANE_STOPPED"} /\ repair.todo = {})

\* No check finds this code: it is repaired only when it is the one asked for.
EndpointAlone ==
    "CA_ENDPOINT_FAILED" \in repair.todo =>
        repair.todo = {"CA_ENDPOINT_FAILED"} /\ repair.fixed = {}

\* The check has found the proxy stopped, and no other item starts it; or somebody
\* has asked for a start.
StoppedFound ==
    "DATA_PLANE_STOPPED" \in repair.todo =>
        \/ ~running /\ repair.todo \subseteq {"CACHE_DIR_MISSING", "DATA_PLANE_STOPPED"}
        \/ repair.todo = {"DATA_PLANE_STOPPED"} /\ repair.fixed = {}

HealthIInv == /\ ListenerIInv /\ HealthTypeOK
              /\ ~tray => FixedServes /\ EndpointAlone /\ StoppedFound

LEMMA CodesAre ==
  Codes = {"CACHE_DIR_MISSING", "CA_NOT_INSTALLED", "CA_EXPIRED", "FIREWALL_RULE_MISSING",
           "DATA_PLANE_STOPPED", "DATA_PLANE_PROBE_FAILED", "DATA_PLANE_PORT_MISMATCH",
           "PAC_PORT_MISMATCH", "CA_ENDPOINT_FAILED", "LAN_DATA_PLANE_NOT_BOUND"}
BY DEF Codes, RepairMap

\* What is done about each code.
LEMMA MapIs ==
  ASSUME NEW c \in Codes
  PROVE  /\ RepairMap[c].does \in PlaneActions <=> c \in PlaneCodes
         /\ RepairMap[c].does = "start" <=> c = "DATA_PLANE_STOPPED"
         /\ RepairMap[c].does = "endpoint" <=> c = "CA_ENDPOINT_FAILED"
BY CodesAre DEF RepairMap, PlaneActions, PlaneCodes

LEMMA NoRepairIs ==
  /\ NoRepair.at = "idle" /\ NoRepair.todo = {} /\ NoRepair.fixed = {} /\ NoRepair.failed = {}
  /\ NoRepair \in [at : {"idle", "working"}, todo : SUBSET Codes, planeFailed : BOOLEAN,
                   planeFixed : BOOLEAN, caFailed : BOOLEAN, fixed : SUBSET Codes,
                   failed : SUBSET Codes, skipped : SUBSET Codes]
BY DEF NoRepair

\* What is found about the data plane.
LEMMA Found ==
  ASSUME NEW answered \in BOOLEAN
  PROVE  /\ Check(answered) \subseteq Codes
         /\ "CA_ENDPOINT_FAILED" \notin Check(answered)
         /\ "DATA_PLANE_STOPPED" \in Check(answered) =>
              /\ ~running
              /\ Batch(Check(answered)) \subseteq {"CACHE_DIR_MISSING", "DATA_PLANE_STOPPED"}
<1>1. CheckCache \subseteq {"CACHE_DIR_MISSING"}
  BY DEF CheckCache
<1>2. CheckRootCA \subseteq {"CA_EXPIRED", "CA_NOT_INSTALLED"}
  BY DEF CheckRootCA
<1>3. /\ CheckDataPlane(answered) \subseteq PlaneCodes
      /\ ~running => CheckDataPlane(answered) = {"DATA_PLANE_STOPPED"}
      /\ running => "DATA_PLANE_STOPPED" \notin CheckDataPlane(answered)
  BY DEF CheckDataPlane, PlaneCodes
<1>4. CheckPAC(answered) \subseteq {"PAC_PORT_MISMATCH"} /\ (~running => CheckPAC(answered) = {})
  BY DEF CheckPAC
<1>5. /\ CheckLANFirewall \subseteq {"LAN_DATA_PLANE_NOT_BOUND", "FIREWALL_RULE_MISSING"}
      /\ ~running => "LAN_DATA_PLANE_NOT_BOUND" \notin CheckLANFirewall
  BY DEF CheckLANFirewall
<1>6. /\ RepairMap["CA_EXPIRED"].confirm /\ RepairMap["CA_NOT_INSTALLED"].confirm
      /\ RepairMap["FIREWALL_RULE_MISSING"].confirm
  BY DEF RepairMap
<1> QED  BY <1>1, <1>2, <1>3, <1>4, <1>5, <1>6, CodesAre DEF Check, Batch, PlaneCodes

LEMMA HealthInitIInv == ListenerInit /\ HealthInit => HealthIInv
BY ListenerInitIInv, NoRepairIs
   DEF HealthInit, HealthIInv, HealthTypeOK, FixedServes, EndpointAlone, StoppedFound

\* The request, and what it is to repair.
LEMMA RequestIInv == ASSUME HealthIInv, RequestRepair PROVE HealthIInv'
<1>1. /\ UNCHANGED <<cacheDir, rootCA, firewall>> /\ UNCHANGED listenerVars /\ tray' = FALSE
      /\ ListenerIInv /\ HealthTypeOK
  BY DEF RequestRepair, HealthIInv, worldVars
<1>2. UNCHANGED <<want, running, sock>> /\ ListenerIInv'
  BY <1>1, ListenerNextIInv DEF listenerVars
<1>3. PICK answered \in BOOLEAN :
        \E chosen \in {Batch(Check(answered))} \union {{c} : c \in Codes} :
          repair' = [NoRepair EXCEPT !.at = IF chosen = {} THEN "idle" ELSE "working",
                                     !.todo = chosen]
  BY DEF RequestRepair
<1>4. PICK chosen \in {Batch(Check(answered))} \union {{c} : c \in Codes} :
        repair' = [NoRepair EXCEPT !.at = IF chosen = {} THEN "idle" ELSE "working",
                                   !.todo = chosen]
  BY <1>3
<1>5. /\ chosen \subseteq Codes
      /\ "CA_ENDPOINT_FAILED" \in chosen => chosen = {"CA_ENDPOINT_FAILED"}
      /\ "DATA_PLANE_STOPPED" \in chosen =>
           \/ ~running /\ chosen \subseteq {"CACHE_DIR_MISSING", "DATA_PLANE_STOPPED"}
           \/ chosen = {"DATA_PLANE_STOPPED"}
  <2>1. CASE chosen = Batch(Check(answered))
    BY <2>1, Found DEF Batch
  <2>2. CASE chosen \in {{c} : c \in Codes}
    BY <2>2
  <2> QED  BY <1>4, <2>1, <2>2
<1>6. /\ repair'.todo = chosen /\ repair'.fixed = {} /\ repair'.failed = {}
      /\ HealthTypeOK'
  BY <1>1, <1>4, <1>5, NoRepairIs DEF HealthTypeOK
<1> QED  BY <1>1, <1>2, <1>5, <1>6
         DEF HealthIInv, FixedServes, EndpointAlone, StoppedFound

\* An item is done with.
LEMMA DoneIs ==
  ASSUME HealthTypeOK, NEW c \in repair.todo, NEW ok \in BOOLEAN, Done(c, ok)
  PROVE  /\ c \in Codes
         /\ repair'.at = repair.at /\ repair'.todo = repair.todo \ {c}
         /\ repair'.fixed = (IF ok THEN repair.fixed \union {c} ELSE repair.fixed)
         /\ repair'.failed = (IF ok THEN repair.failed ELSE repair.failed \union {c})
         /\ repair' \in [at : {"idle", "working"}, todo : SUBSET Codes, planeFailed : BOOLEAN,
                         planeFixed : BOOLEAN, caFailed : BOOLEAN, fixed : SUBSET Codes,
                         failed : SUBSET Codes, skipped : SUBSET Codes]
<1>1. /\ repair.todo \subseteq Codes
      /\ repair \in [at : {"idle", "working"}, todo : SUBSET Codes, planeFailed : BOOLEAN,
                     planeFixed : BOOLEAN, caFailed : BOOLEAN, fixed : SUBSET Codes,
                     failed : SUBSET Codes, skipped : SUBSET Codes]
  BY DEF HealthTypeOK
<1> QED  BY <1>1 DEF Done

\* What an item keeps of the invariant: it fails, or the listener serves on the
\* configured address, or is left alone by an item that is not about it, or by a
\* start that was asked for although the proxy runs.
LEMMA ItemKeeps ==
  ASSUME HealthTypeOK, FixedServes, EndpointAlone, StoppedFound, want' = want,
         NEW c \in repair.todo, NEW ok \in BOOLEAN, Done(c, ok),
         c = "CACHE_DIR_MISSING" => UNCHANGED running,
         \/ ~ok
         \/ c = "CA_ENDPOINT_FAILED"
         \/ running' /\ sock'.addr = want
         \/ /\ UNCHANGED <<running, sock>>
            /\ c \in PlaneCodes => c = "DATA_PLANE_STOPPED" /\ running
  PROVE  FixedServes' /\ EndpointAlone' /\ StoppedFound'
<1>1. /\ repair'.todo = repair.todo \ {c}
      /\ repair'.fixed = (IF ok THEN repair.fixed \union {c} ELSE repair.fixed)
      /\ repair'.failed = (IF ok THEN repair.failed ELSE repair.failed \union {c})
  BY DoneIs
<1>2. EndpointAlone'
  BY <1>1 DEF EndpointAlone
<1>3. StoppedFound'
  BY <1>1 DEF StoppedFound
<1>4. FixedServes'
  <2>1. CASE ~ok
    BY <1>1, <2>1 DEF FixedServes
  <2>2. CASE ok /\ c = "CA_ENDPOINT_FAILED"
    BY <1>1, <2>2 DEF FixedServes, EndpointAlone, PlaneCodes
  <2>3. CASE running' /\ sock'.addr = want
    BY <2>3 DEF FixedServes
  <2>4. CASE ok /\ UNCHANGED <<running, sock>> /\ c \notin PlaneCodes
    BY <1>1, <2>4 DEF FixedServes
  <2>5. CASE ok /\ UNCHANGED <<running, sock>> /\ c = "DATA_PLANE_STOPPED" /\ running
    BY <1>1, <2>5 DEF FixedServes, StoppedFound
  <2> QED  BY <2>1, <2>2, <2>3, <2>4, <2>5
<1> QED  BY <1>2, <1>3, <1>4

LEMMA ListenerKept == ASSUME ListenerIInv, UNCHANGED listenerVars
                      PROVE  ListenerIInv' /\ UNCHANGED <<want, running, sock>>
BY ListenerNextIInv DEF listenerVars

\* A listener that is bound to the configured address, or is lost.
LEMMA ReloadIs ==
  ASSUME ListenerIInv, ReloadListener(want)
  PROVE  ListenerIInv' /\ want' = want /\ (sock'.addr = want => running')
<1>1. want \in Addrs /\ running
  BY DEF ListenerIInv, ListenerTypeOK, ReloadListener
<1>2. sock' = NoSock => sock'.addr # want
  BY <1>1, AddrAssumption DEF NoSock
<1> QED  BY <1>1, <1>2, ReloadIInv DEF ReloadListener, MovePort, Rebind

LEMMA RebindsIs ==
  ASSUME ListenerIInv, NEW c, Rebinds(c)
  PROVE  /\ ListenerIInv' /\ want' = want
         /\ \E ok \in BOOLEAN :
              /\ Done(c, ok)
              /\ \/ ~ok
                 \/ running' /\ sock'.addr = want
                 \/ ~running /\ UNCHANGED <<running, sock>>
<1>1. CASE NothingToReload /\ Done(c, TRUE) /\ UNCHANGED listenerVars
  <2>1. ListenerIInv' /\ want' = want /\ running' = running /\ sock' = sock
    BY <1>1, ListenerKept
  <2>2. running => sock.addr = want
    BY <1>1 DEF NothingToReload
  <2>3. Done(c, TRUE) /\ TRUE \in BOOLEAN
    BY <1>1
  <2>4. CASE running
    <3>1. running' /\ sock'.addr = want
      BY <2>1, <2>2, <2>4
    <3> QED  BY <2>1, <2>3, <3>1
  <2>5. CASE ~running
    BY <2>1, <2>3, <2>5
  <2> QED  BY <2>4, <2>5
<1>2. CASE ReloadListener(want) /\ Reports(c)
  <2>1. ListenerIInv' /\ want' = want /\ (sock'.addr = want => running')
    BY <1>2, ReloadIs
  <2>2. CASE sock'.addr = want
    <3>1. Done(c, TRUE) \/ Done(c, FALSE)
      BY <1>2, <2>2 DEF Reports, Done
    <3> QED  BY <2>1, <2>2, <3>1
  <2>3. CASE sock'.addr # want
    <3>1. Done(c, FALSE)
      BY <1>2, <2>3 DEF Reports, Done
    <3> QED  BY <2>1, <3>1
  <2> QED  BY <2>2, <2>3
<1>3. CASE Done(c, FALSE) /\ UNCHANGED listenerVars
  BY <1>3, ListenerKept
<1> QED  BY <1>1, <1>2, <1>3 DEF Rebinds

LEMMA StartsIs ==
  ASSUME ListenerIInv, NEW c, Starts(c)
  PROVE  /\ ListenerIInv' /\ want' = want
         /\ \E ok \in BOOLEAN : Done(c, ok) /\ (~ok \/ (running' /\ sock'.addr = want))
<1>1. CASE StartProxy /\ Done(c, TRUE)
  BY <1>1, StartIInv DEF StartProxy, Serve
<1>2. CASE StartFails /\ Done(c, FALSE)
  BY <1>2, AskedIInv DEF StartFails
<1>3. CASE Done(c, FALSE) /\ UNCHANGED listenerVars
  BY <1>3, ListenerKept
<1> QED  BY <1>1, <1>2, <1>3 DEF Starts

LEMMA RepairListenerIInv ==
  ASSUME HealthIInv, NEW c \in Codes, RepairListener(c)
  PROVE  HealthIInv'
<1>1. /\ c \in repair.todo /\ ListenerIInv /\ HealthTypeOK
      /\ UNCHANGED <<cacheDir, rootCA, firewall, tray>>
  BY DEF RepairListener, HealthIInv, worldVars
<1>2. /\ ListenerIInv' /\ want' = want /\ c # "CACHE_DIR_MISSING"
      /\ \E ok \in BOOLEAN :
           /\ Done(c, ok)
           /\ \/ ~ok
              \/ c = "CA_ENDPOINT_FAILED"
              \/ running' /\ sock'.addr = want
              \/ /\ UNCHANGED <<running, sock>>
                 /\ c \in PlaneCodes => c = "DATA_PLANE_STOPPED" /\ running
  <2>1. CASE RepairMap[c].does = "start" /\ StartsPlane(c)
    <3>1. c = "DATA_PLANE_STOPPED"
      BY <2>1, MapIs
    <3>2. CASE running /\ Done(c, TRUE) /\ UNCHANGED listenerVars
      BY <1>1, <3>1, <3>2, ListenerKept
    <3>3. CASE Starts(c)
      BY <1>1, <3>1, <3>3, StartsIs
    <3> QED  BY <2>1, <3>2, <3>3 DEF StartsPlane
  <2>2. CASE RepairMap[c].does = "reload" /\ ReloadsPlane(c)
    <3>1. c # "CACHE_DIR_MISSING"
      BY <2>2, MapIs DEF PlaneActions, PlaneCodes
    <3>2. CASE running /\ Rebinds(c)
      BY <1>1, <3>1, <3>2, RebindsIs
    <3>3. CASE Starts(c)
      BY <1>1, <3>1, <3>3, StartsIs
    <3> QED  BY <2>2, <3>2, <3>3 DEF ReloadsPlane
  <2>3. CASE RepairMap[c].does = "pac" /\ Rebinds(c)
    <3>1. c # "CACHE_DIR_MISSING" /\ c \notin PlaneCodes
      BY <2>3, MapIs DEF PlaneActions, RepairMap
    <3> QED  BY <1>1, <2>3, <3>1, RebindsIs
  <2>4. CASE RepairMap[c].does = "endpoint" /\ ReloadsEndpoint(c)
    <3>1. c = "CA_ENDPOINT_FAILED"
      BY <2>4, MapIs
    <3>2. CASE UNCHANGED listenerVars
      BY <1>1, <2>4, <3>1, <3>2, ListenerKept DEF ReloadsEndpoint
    <3>3. CASE ReloadListener(want)
      BY <1>1, <2>4, <3>1, <3>3, ReloadIs DEF ReloadsEndpoint
    <3> QED  BY <2>4, <3>2, <3>3 DEF ReloadsEndpoint
  <2>5. CASE RepairMap[c].does = "lan" /\ ListensOnLAN(c)
    <3>1. c # "CACHE_DIR_MISSING" /\ c \notin PlaneCodes
      BY <2>5, MapIs DEF PlaneActions, RepairMap
    <3>2. CASE Done(c, FALSE) /\ UNCHANGED listenerVars
      BY <1>1, <3>1, <3>2, ListenerKept
    <3>3. CASE Rebinds(c)
      BY <1>1, <3>1, <3>3, RebindsIs
    <3> QED  BY <2>5, <3>2, <3>3 DEF ListensOnLAN
  <2> QED  BY <2>1, <2>2, <2>3, <2>4, <2>5 DEF RepairListener
<1>3. HealthTypeOK'
  BY <1>1, <1>2, DoneIs DEF HealthTypeOK
<1>4. ~tray => FixedServes' /\ EndpointAlone' /\ StoppedFound'
  BY <1>1, <1>2, ItemKeeps DEF HealthIInv
<1> QED  BY <1>1, <1>2, <1>3, <1>4 DEF HealthIInv

LEMMA RepairWorldIInv ==
  ASSUME HealthIInv, NEW c \in Codes, RepairWorld(c)
  PROVE  HealthIInv'
<1>1. /\ c \in repair.todo /\ ListenerIInv /\ HealthTypeOK /\ UNCHANGED tray
      /\ ListenerIInv' /\ UNCHANGED <<want, running, sock>>
  BY ListenerKept DEF RepairWorld, HealthIInv
<1>2. RepairMap[c].does \in {"mkdir", "install", "renew", "admit"} /\ c \notin PlaneCodes
  BY MapIs DEF RepairWorld, PlaneActions
<1>3. \E ok \in BOOLEAN : Done(c, ok)
  BY DEF RepairWorld
<1>4. /\ cacheDir' \in {"ok", "missing", "denied"} /\ rootCA' \in {"ok", "absent", "expired"}
      /\ firewall' \in BOOLEAN
  BY <1>1 DEF RepairWorld, HealthTypeOK
<1>5. HealthTypeOK'
  BY <1>1, <1>3, <1>4, DoneIs DEF HealthTypeOK
<1>6. ~tray => FixedServes' /\ EndpointAlone' /\ StoppedFound'
  BY <1>1, <1>2, <1>3, ItemKeeps DEF HealthIInv
<1> QED  BY <1>1, <1>5, <1>6 DEF HealthIInv

\* Items that are skipped, and the end of a repair.
LEMMA PassedIInv ==
  ASSUME HealthIInv, EndRepair \/ \E c \in Codes : SkipItem(c)
  PROVE  HealthIInv'
<1>1. /\ ListenerIInv /\ HealthTypeOK /\ UNCHANGED <<cacheDir, rootCA, firewall, tray>>
      /\ ListenerIInv' /\ UNCHANGED <<want, running, sock>>
  BY ListenerKept DEF SkipItem, EndRepair, HealthIInv, worldVars
<1>2. /\ repair'.fixed = repair.fixed /\ repair'.failed = repair.failed
      /\ repair'.todo \subseteq repair.todo
      /\ repair' \in [at : {"idle", "working"}, todo : SUBSET Codes, planeFailed : BOOLEAN,
                      planeFixed : BOOLEAN, caFailed : BOOLEAN, fixed : SUBSET Codes,
                      failed : SUBSET Codes, skipped : SUBSET Codes]
  <2>1. repair \in [at : {"idle", "working"}, todo : SUBSET Codes, planeFailed : BOOLEAN,
                    planeFixed : BOOLEAN, caFailed : BOOLEAN, fixed : SUBSET Codes,
                    failed : SUBSET Codes, skipped : SUBSET Codes]
    BY <1>1 DEF HealthTypeOK
  <2>2. CASE EndRepair
    BY <2>1, <2>2 DEF EndRepair
  <2>3. ASSUME NEW c \in Codes, SkipItem(c)
        PROVE  <1>2!1 /\ <1>2!2 /\ <1>2!3
    BY <2>1, <2>3 DEF SkipItem
  <2> QED  BY <2>2, <2>3
<1>3. HealthTypeOK'
  BY <1>1, <1>2 DEF HealthTypeOK
<1>4. ~tray => FixedServes' /\ EndpointAlone' /\ StoppedFound'
  BY <1>1, <1>2 DEF HealthIInv, FixedServes, EndpointAlone, StoppedFound
<1> QED  BY <1>1, <1>3, <1>4 DEF HealthIInv

LEMMA UserIInv == ASSUME HealthIInv, Toggle \/ ChangeConfig PROVE HealthIInv'
<1>1. CASE Toggle
  <2>1. /\ ListenerIInv' /\ tray' = TRUE /\ UNCHANGED <<cacheDir, rootCA, firewall, repair>>
    BY <1>1, StartIInv, StopIInv DEF Toggle, HealthIInv, worldVars
  <2> QED  BY <2>1 DEF HealthIInv, HealthTypeOK
<1>2. CASE ChangeConfig
  <2>1. /\ ListenerIInv' /\ repair' = NoRepair /\ UNCHANGED <<cacheDir, rootCA, firewall, tray>>
    BY <1>2, AskedIInv DEF ChangeConfig, HealthIInv, worldVars
  <2> QED  BY <2>1, NoRepairIs
           DEF HealthIInv, HealthTypeOK, FixedServes, EndpointAlone, StoppedFound
<1> QED  BY <1>1, <1>2

LEMMA HealthNextIInv ==
  HealthIInv /\ [HealthNext]_<<healthVars, listenerVars>> => HealthIInv'
<1> SUFFICES ASSUME HealthIInv, [HealthNext]_<<healthVars, listenerVars>> PROVE HealthIInv'
  OBVIOUS
<1>1. CASE HealthNext
  BY <1>1, RequestIInv, PassedIInv, UserIInv, RepairListenerIInv, RepairWorldIInv
     DEF HealthNext
<1>2. CASE UNCHANGED <<healthVars, listenerVars>>
  <2>1. /\ UNCHANGED <<cacheDir, rootCA, firewall, repair, tray>>
        /\ ListenerIInv' /\ UNCHANGED <<want, running, sock>>
    BY <1>2, ListenerKept DEF healthVars, worldVars, HealthIInv
  <2> QED  BY <2>1 DEF HealthIInv, HealthTypeOK, FixedServes, EndpointAlone, StoppedFound
<1> QED  BY <1>1, <1>2

LEMMA HealthIInvAlways == HealthSpec => []HealthIInv
<1>1. ListenerInit /\ HealthInit => HealthIInv
  BY HealthInitIInv
<1>2. HealthIInv /\ [HealthNext]_<<healthVars, listenerVars>> => HealthIInv'
  BY HealthNextIInv
<1> QED  BY <1>1, <1>2, PTL DEF HealthSpec

\* Whatever Repair was asked for and whatever fails, the listener is one listener.
THEOREM RepairsKeepOneListener == HealthSpec => []OneListener
<1>1. HealthIInv => OneListener
  BY DEF HealthIInv, ListenerIInv
<1> QED  BY <1>1, HealthIInvAlways, PTL

\* A repair that reports the data plane as fixed, and no failure, has left the
\* proxy running on the configured address, whatever else it repaired after it.
THEOREM FixedPlaneAlwaysServes == HealthSpec => []FixedPlaneServes
<1>1. ASSUME HealthIInv, ~tray, repair.failed = {},
             NEW c \in repair.fixed, RepairMap[c].does \in PlaneActions
      PROVE  running /\ (sock.addr = want \/ repair.fixed = {"DATA_PLANE_STOPPED"})
  <2>1. c \in PlaneCodes /\ c \in Codes
    BY <1>1, MapIs DEF HealthIInv, HealthTypeOK
  <2> QED  BY <1>1, <2>1 DEF HealthIInv, FixedServes
<1>2. HealthIInv => FixedPlaneServes
  BY <1>1 DEF FixedPlaneServes
<1> QED  BY <1>2, HealthIInvAlways, PTL

-----------------------------------------------------------------------------
(***************************************************************************)
(* The foreground gate.                                                    *)
(***************************************************************************)
In(S) == {r \in S : gateAt[r] = "in"}
Others == Requests \ Dynamic

\* The counters count the requests that are being served.
Exact == api = Cardinality(In(Dynamic)) /\ fg = Cardinality(In(Others))

IInv == GateTypeOK /\ Exact /\ NoLostWakeup

-----------------------------------------------------------------------------
\* The sets that are counted are finite (Requests is).
LEMMA InFinite ==
  ASSUME NEW S \in SUBSET Requests
  PROVE  IsFiniteSet(In(S))
<1>1. IsFiniteSet(S)
  BY GateAssumption, FS_Subset
<1> QED
  BY <1>1, FS_Subset DEF In

\* A counter that is above zero counts somebody (IsForegroundIdle).
LEMMA Served ==
  ASSUME Exact, api > 0 \/ fg > 0
  PROVE  \E r \in Requests : gateAt[r] = "in"
<1>1. In(Dynamic) # {} \/ In(Others) # {}
  BY FS_EmptySet DEF Exact
<1> QED
  BY <1>1, GateAssumption DEF In, Others

\* A request that arrives in a set counts once more (AddActiveAPI, AddActiveFG).
LEMMA InGrows ==
  ASSUME GateTypeOK, NEW S \in SUBSET Requests, NEW r \in Requests,
         gateAt[r] # "in", gateAt' = [gateAt EXCEPT ![r] = "in"]
  PROVE  Cardinality(In(S)') = Cardinality(In(S)) + (IF r \in S THEN 1 ELSE 0)
<1>1. CASE r \in S
  <2>1. In(S)' = In(S) \cup {r}
    BY <1>1 DEF In, GateTypeOK
  <2>2. r \notin In(S)
    BY DEF In
  <2> QED  BY <1>1, <2>1, <2>2, InFinite, FS_AddElement
<1>2. CASE r \notin S
  <2>1. In(S)' = In(S)
    BY <1>2 DEF In, GateTypeOK
  <2>2. Cardinality(In(S)) \in Nat
    BY InFinite, FS_CardinalityType
  <2> QED  BY <1>2, <2>1, <2>2
<1> QED  BY <1>1, <1>2

\* A request that departs counts once less.
LEMMA InShrinks ==
  ASSUME GateTypeOK, NEW S \in SUBSET Requests, NEW r \in Requests, NEW place,
         gateAt[r] = "in", place # "in", gateAt' = [gateAt EXCEPT ![r] = place]
  PROVE  /\ Cardinality(In(S)') = Cardinality(In(S)) - (IF r \in S THEN 1 ELSE 0)
         /\ r \in S => Cardinality(In(S)) > 0
<1>1. CASE r \in S
  <2>1. In(S)' = In(S) \ {r} /\ r \in In(S)
    BY <1>1 DEF In, GateTypeOK
  <2>2. Cardinality(In(S)) \in Nat /\ Cardinality(In(S)) # 0
    BY <2>1, InFinite, FS_CardinalityType, FS_EmptySet
  <2>3. Cardinality(In(S) \ {r}) = Cardinality(In(S)) - 1
    BY <2>1, InFinite, FS_RemoveElement
  <2> QED  BY <1>1, <2>1, <2>2, <2>3
<1>2. CASE r \notin S
  <2>1. In(S)' = In(S)
    BY <1>2 DEF In, GateTypeOK
  <2>2. Cardinality(In(S)) \in Nat
    BY InFinite, FS_CardinalityType
  <2> QED  BY <1>2, <2>1, <2>2
<1> QED  BY <1>1, <1>2

\* Whoever moves between other places changes no count.
LEMMA InStays ==
  ASSUME GateTypeOK, NEW p \in Requests \cup Waiters, NEW place, place # "in",
         gateAt[p] # "in", gateAt' = [gateAt EXCEPT ![p] = place]
  PROVE  In(Dynamic)' = In(Dynamic) /\ In(Others)' = In(Others)
BY GateAssumption DEF In, Others, GateTypeOK

LEMMA InitIInv == GateInit => IInv
<1> SUFFICES ASSUME GateInit PROVE IInv
  OBVIOUS
<1>1. GateTypeOK
  BY DEF GateInit, GateTypeOK, RequestPlaces, WaiterPlaces
<1>2. In(Dynamic) = {} /\ In(Others) = {}
  BY GateAssumption DEF GateInit, In, Others
<1>3. Exact
  BY <1>2, FS_EmptySet DEF GateInit, Exact
<1>4. NoLostWakeup
  BY GateAssumption DEF GateInit, NoLostWakeup
<1> QED  BY <1>1, <1>3, <1>4 DEF IInv

-----------------------------------------------------------------------------
(***************************************************************************)
(* One lemma per group of steps.                                           *)
(***************************************************************************)

\* A request arrives.
LEMMA ArriveIInv ==
  ASSUME IInv, NEW r \in Requests, Arrive(r)
  PROVE  IInv'
<1>1. /\ GateTypeOK /\ Exact /\ NoLostWakeup
      /\ gateAt[r] = "out" /\ gateAt' = [gateAt EXCEPT ![r] = "in"]
  BY DEF IInv, Arrive, Goes
<1>2. GateTypeOK'
  BY <1>1, GateAssumption DEF GateTypeOK, Arrive, RequestPlaces, WaiterPlaces
<1>3. /\ Cardinality(In(Dynamic)') = Cardinality(In(Dynamic))
                                       + (IF r \in Dynamic THEN 1 ELSE 0)
      /\ Cardinality(In(Others)') = Cardinality(In(Others))
                                       + (IF r \in Others THEN 1 ELSE 0)
  BY <1>1, InGrows, GateAssumption DEF Others
<1>4. Exact'
  BY <1>1, <1>3, GateAssumption DEF Exact, Arrive, Others, GateTypeOK
<1>5. gateAt'[r] = "in"
  BY <1>1 DEF GateTypeOK
<1>6. NoLostWakeup'
  BY <1>5 DEF NoLostWakeup
<1> QED  BY <1>2, <1>4, <1>6 DEF IInv

\* A request departs: it is not out before it has looked at the counters.
LEMMA DepartIInv ==
  ASSUME IInv, NEW r \in Requests, Depart(r)
  PROVE  IInv'
<1>1. /\ GateTypeOK /\ Exact /\ NoLostWakeup
      /\ gateAt[r] = "in" /\ gateAt' = [gateAt EXCEPT ![r] = "api1"]
  BY DEF IInv, Depart, Goes
<1>2. /\ Cardinality(In(Dynamic)') = Cardinality(In(Dynamic))
                                       - (IF r \in Dynamic THEN 1 ELSE 0)
      /\ r \in Dynamic => Cardinality(In(Dynamic)) > 0
  BY <1>1, InShrinks, GateAssumption
<1>3. /\ Cardinality(In(Others)') = Cardinality(In(Others))
                                       - (IF r \in Others THEN 1 ELSE 0)
      /\ r \in Others => Cardinality(In(Others)) > 0
  BY <1>1, InShrinks DEF Others
<1>4. Exact'
  BY <1>1, <1>2, <1>3 DEF Exact, Depart, Lowered, Others, GateTypeOK
<1>5. api' \in Nat /\ fg' \in Nat
  BY <1>1, <1>2, <1>3 DEF Exact, Depart, Lowered, Others, GateTypeOK
<1>6. GateTypeOK'
  BY <1>1, <1>5, GateAssumption
     DEF GateTypeOK, Depart, RequestPlaces, WaiterPlaces, Leaving
<1>7. gateAt'[r] = "api1"
  BY <1>1 DEF GateTypeOK
<1>8. NoLostWakeup'
  BY <1>7 DEF NoLostWakeup
<1> QED  BY <1>4, <1>6, <1>8 DEF IInv

\* What no step of a request or a waiter between other places disturbs.
LEMMA MoveKeeps ==
  ASSUME IInv, NEW p \in Requests \cup Waiters, NEW place,
         p \in Requests => place \in RequestPlaces,
         p \in Waiters => place \in WaiterPlaces,
         place # "in", gateAt[p] # "in", gateAt' = [gateAt EXCEPT ![p] = place],
         UNCHANGED <<api, fg>>
  PROVE  /\ gateAt' \in [Requests \cup Waiters -> RequestPlaces \cup WaiterPlaces]
         /\ \A r \in Requests : gateAt'[r] \in RequestPlaces
         /\ \A w \in Waiters : gateAt'[w] \in WaiterPlaces
         /\ Exact'
<1>1. GateTypeOK /\ Exact
  BY DEF IInv
<1>2. In(Dynamic)' = In(Dynamic) /\ In(Others)' = In(Others)
  BY <1>1, InStays
<1>3. Exact'
  BY <1>1, <1>2 DEF Exact
<1> QED  BY <1>1, <1>3 DEF GateTypeOK

\* A request that departed looks at the counters and gives up only when it saw
\* one above zero, or when it has closed the channel.
LEMMA RequestStepIInv ==
  ASSUME IInv, NEW r \in Requests, RequestStep(r)
  PROVE  IInv'
<1> USE DEF Goes, Loads
<1>1. GateTypeOK /\ Exact /\ NoLostWakeup
  BY DEF IInv
<1>2. PICK place \in RequestPlaces :
        /\ place # "in" /\ gateAt[r] # "in" /\ gateAt' = [gateAt EXCEPT ![r] = place]
        /\ place = "out" => closed \/ api > 0 \/ fg > 0 \/ holds' = Woken
  BY <1>1 DEF RequestStep, Look, Lock, LookLocked, Notify, RequestPlaces, Leaving, GateTypeOK
<1>3. UNCHANGED <<api, fg, closed, stopped>>
  BY DEF RequestStep, Look, Lock, LookLocked, Notify
<1>4. holds' \in {holds, Woken}
  BY DEF RequestStep, Look, Lock, LookLocked, Notify
<1>5. idleMu' \in Requests \cup {Nobody}
  BY <1>1 DEF RequestStep, Look, Lock, LookLocked, Notify, GateTypeOK
<1>6. GateTypeOK' /\ Exact'
  <2>1. holds' \in [Waiters -> BOOLEAN]
    BY <1>1, <1>4 DEF GateTypeOK, Woken
  <2>2. /\ gateAt' \in [Requests \cup Waiters -> RequestPlaces \cup WaiterPlaces]
        /\ \A q \in Requests : gateAt'[q] \in RequestPlaces
        /\ \A w \in Waiters : gateAt'[w] \in WaiterPlaces
        /\ Exact'
    BY <1>2, <1>3, MoveKeeps, GateAssumption
  <2> QED  BY <1>1, <1>3, <1>5, <2>1, <2>2 DEF GateTypeOK
<1>7. NoLostWakeup'
  <2> SUFFICES ASSUME ~closed', NEW w \in Waiters, gateAt'[w] = "waiting", holds'[w]
               PROVE  \E q \in Requests : gateAt'[q] # "out"
    BY DEF NoLostWakeup
  <2>1. holds' = holds /\ holds[w]
    BY <1>4 DEF Woken
  <2>2. gateAt[w] = "waiting"
    BY <1>1, <1>2, GateAssumption DEF GateTypeOK
  <2>3. CASE place # "out"
    BY <1>1, <1>2, <2>3 DEF GateTypeOK
  <2>4. CASE place = "out"
    <3>1. api > 0 \/ fg > 0
      BY <1>2, <1>3, <2>1, <2>4 DEF Woken
    <3>2. PICK q \in Requests : gateAt[q] = "in"
      BY <1>1, <3>1, Served
    <3> QED  BY <1>1, <1>2, <3>2 DEF GateTypeOK
  <2> QED  BY <2>3, <2>4
<1> QED  BY <1>6, <1>7 DEF IInv

\* A waiter waits only when it saw a counter above zero.
LEMMA WaiterIInv ==
  ASSUME IInv, NEW w \in Waiters, Call(w) \/ WaiterStep(w)
  PROVE  IInv'
<1> USE DEF Goes, Loads
<1>1. GateTypeOK /\ Exact /\ NoLostWakeup
  BY DEF IInv
<1>2. PICK place \in WaiterPlaces :
        /\ place # "in" /\ gateAt[w] # "in" /\ gateAt' = [gateAt EXCEPT ![w] = place]
        /\ place = "waiting" => api > 0 \/ fg > 0
  BY <1>1 DEF Call, WaiterStep, CheckIdle, Take, Recheck, GiveUp, Wake, NextCheck,
              WaiterPlaces, GateTypeOK
<1>3. UNCHANGED <<api, fg, idleMu, closed, stopped>>
  BY DEF Call, WaiterStep, CheckIdle, Take, Recheck, GiveUp, Wake
<1>4. /\ holds' \in [Waiters -> BOOLEAN]
      /\ \A v \in Waiters : v # w => holds'[v] = holds[v]
  BY <1>1 DEF Call, WaiterStep, CheckIdle, Take, Recheck, GiveUp, Wake, GateTypeOK
<1>5. GateTypeOK' /\ Exact'
  <2>1. /\ gateAt' \in [Requests \cup Waiters -> RequestPlaces \cup WaiterPlaces]
        /\ \A q \in Requests : gateAt'[q] \in RequestPlaces
        /\ \A v \in Waiters : gateAt'[v] \in WaiterPlaces
        /\ Exact'
    BY <1>2, <1>3, MoveKeeps, GateAssumption
  <2> QED  BY <1>1, <1>3, <1>4, <2>1 DEF GateTypeOK
<1>6. NoLostWakeup'
  <2> SUFFICES ASSUME ~closed', NEW v \in Waiters, gateAt'[v] = "waiting", holds'[v]
               PROVE  \E q \in Requests : gateAt'[q] # "out"
    BY DEF NoLostWakeup
  <2>1. \A q \in Requests : gateAt'[q] = gateAt[q]
    BY <1>1, <1>2, GateAssumption DEF GateTypeOK
  <2>2. CASE v = w
    <3>1. api > 0 \/ fg > 0
      BY <1>1, <1>2, <2>2 DEF GateTypeOK
    <3> QED  BY <1>1, <2>1, <3>1, Served
  <2>3. CASE v # w
    BY <1>1, <1>2, <1>3, <1>4, <2>1, <2>3 DEF GateTypeOK, NoLostWakeup
  <2> QED  BY <2>2, <2>3
<1> QED  BY <1>5, <1>6 DEF IInv

LEMMA NextIInv == IInv /\ [GateNext]_gateVars => IInv'
<1> SUFFICES ASSUME IInv, [GateNext]_gateVars PROVE IInv'
  OBVIOUS
<1>1. ASSUME NEW r \in Requests, Arrive(r) PROVE IInv'
  BY <1>1, ArriveIInv
<1>2. ASSUME NEW r \in Requests, Depart(r) PROVE IInv'
  BY <1>2, DepartIInv
<1>3. ASSUME NEW r \in Requests, RequestStep(r) PROVE IInv'
  BY <1>3, RequestStepIInv
<1>4. ASSUME NEW w \in Waiters, Call(w) \/ WaiterStep(w) PROVE IInv'
  BY <1>4, WaiterIInv
<1>5. CASE Stop
  BY <1>5 DEF Stop, IInv, GateTypeOK, Exact, In, NoLostWakeup
<1>6. CASE Close
  BY <1>6 DEF Close, IInv, GateTypeOK, Exact, In, NoLostWakeup
<1>7. CASE UNCHANGED gateVars
  BY <1>7 DEF gateVars, IInv, GateTypeOK, Exact, In, NoLostWakeup
<1> QED  BY <1>1, <1>2, <1>3, <1>4, <1>5, <1>6, <1>7 DEF GateNext

\* The invariant holds in every reachable state of the gate.
THEOREM IInvAlways == GateSpec => []IInv
<1> QED  BY InitIInv, NextIInv, PTL DEF GateSpec

\* The counters never fall below zero and everything else keeps its type.
THEOREM TypeOKAlways == GateSpec => []GateTypeOK
<1>1. IInv => GateTypeOK
  BY DEF IInv
<1> QED  BY <1>1, IInvAlways, PTL

\* No wakeup of WaitForegroundIdle is lost, whatever the number of requests and
\* waiters and whatever the counters show between two loads.
THEOREM NoLostWakeupAlways == GateSpec => []NoLostWakeup
<1>1. IInv => NoLostWakeup
  BY DEF IInv
<1> QED  BY <1>1, IInvAlways, PTL

-----------------------------------------------------------------------------
(***************************************************************************)
(* The prefetch queues.  Sequences are looked at through their positions:  *)
(* what sits at which place of which queue.                                *)
(***************************************************************************)
Queues == [Prios -> Seq(Assets)]
ItemsOf(q) == UNION {Items(q[p]) : p \in Prios}
PlacesOf(q) == {x \in Prios \X (1 .. QueueCap) : x[2] <= Len(q[x[1]])}
Longer(q, p, a) == [q EXCEPT ![p] = Append(@, a)]
Shorter(q, p) == [q EXCEPT ![p] = Tail(@)]
EachOnce(q) == \A p, r \in Prios : \A i \in 1 .. Len(q[p]), j \in 1 .. Len(q[r]) :
                  q[p][i] = q[r][j] => p = r /\ i = j

PrefetchTyped ==
  /\ discoveries \in Seq(Responses)
  /\ searching \in [at : {"idle", "checked", "claimed", "over"}, todo : SUBSET Assets,
                    asset : Assets \union {NoAsset}]
  /\ searching.at \in {"checked", "claimed"} => searching.asset \in Assets
  /\ queue \in Queues /\ \A p \in Prios : Len(queue[p]) <= QueueCap
  /\ fetching \in [at : {"first", "second", "third", "waiting", "checking", "fetching",
                         "pacing", "over"},
                   asset : Assets \union {NoAsset}]
  /\ fetching.at \in {"first", "second", "third", "over"} <=> fetching.asset = NoAsset

\* A key under way is at one place: at one position of one queue, with the fetch
\* worker, or with the discovery worker that has claimed it.
OnePlace ==
  /\ EachOnce(queue)
  /\ Current \intersect Queued = {}
  /\ searching.at = "claimed" => searching.asset # fetching.asset

Held == inflight = Queued \union Current

PrefetchIInv == PrefetchTyped /\ OnePlace /\ Held

-----------------------------------------------------------------------------
\* What is queued sits somewhere.
LEMMA Sits ==
  ASSUME NEW q \in Queues, NEW a
  PROVE  a \in ItemsOf(q) <=> \E p \in Prios : \E i \in 1 .. Len(q[p]) : q[p][i] = a
<1>1. \A p \in Prios : DOMAIN q[p] = 1 .. Len(q[p])
  BY DEF Queues
<1> QED  BY <1>1 DEF ItemsOf, Items

\* enqueueTask puts a key that is nowhere else at the end of a queue.
LEMMA Enqueued ==
  ASSUME NEW q \in Queues, NEW p \in Prios, NEW a \in Assets, a \notin ItemsOf(q), EachOnce(q),
         NEW q2, q2 = Longer(q, p, a)
  PROVE  /\ q2 \in Queues /\ EachOnce(q2) /\ ItemsOf(q2) = ItemsOf(q) \union {a}
         /\ Len(q2[p]) = Len(q[p]) + 1 /\ \A r \in Prios : r # p => q2[r] = q[r]
<1>1. /\ q2 \in Queues /\ q2[p] = Append(q[p], a)
      /\ \A r \in Prios : r # p => q2[r] = q[r]
  BY DEF Queues, Longer
<1>2. /\ q[p] \in Seq(Assets) /\ Len(q[p]) \in Nat /\ Len(q2[p]) = Len(q[p]) + 1
      /\ q2[p][Len(q[p]) + 1] = a
      /\ \A i \in 1 .. Len(q[p]) : q2[p][i] = q[p][i]
  BY <1>1 DEF Queues
<1>3. \A b : b \in ItemsOf(q2) <=> b \in ItemsOf(q) \/ b = a
  <2> SUFFICES ASSUME NEW b PROVE b \in ItemsOf(q2) <=> b \in ItemsOf(q) \/ b = a
    OBVIOUS
  <2>1. ASSUME b \in ItemsOf(q2) PROVE b \in ItemsOf(q) \/ b = a
    <3>1. PICK r \in Prios : \E i \in 1 .. Len(q2[r]) : q2[r][i] = b
      BY <1>1, <2>1, Sits
    <3>2. CASE r = p
      BY <1>2, <3>1, <3>2, Sits
    <3>3. CASE r # p
      BY <1>1, <3>1, <3>3, Sits
    <3> QED  BY <3>2, <3>3
  <2>2. ASSUME b \in ItemsOf(q) PROVE b \in ItemsOf(q2)
    <3>1. PICK r \in Prios : \E i \in 1 .. Len(q[r]) : q[r][i] = b
      BY <2>2, Sits
    <3>2. \E i \in 1 .. Len(q2[r]) : q2[r][i] = b
      BY <1>1, <1>2, <3>1
    <3> QED  BY <1>1, <3>2, Sits
  <2>3. a \in ItemsOf(q2)
    <3>1. Len(q[p]) + 1 \in 1 .. Len(q2[p])
      BY <1>2
    <3>2. \E i \in 1 .. Len(q2[p]) : q2[p][i] = a
      BY <1>2, <3>1
    <3> QED  BY <1>1, <3>2, Sits
  <2> QED  BY <2>1, <2>2, <2>3
<1>4. EachOnce(q2)
  <2> SUFFICES ASSUME NEW r \in Prios, NEW s \in Prios, NEW i \in 1 .. Len(q2[r]),
                      NEW j \in 1 .. Len(q2[s]), q2[r][i] = q2[s][j]
               PROVE  r = s /\ i = j
    BY DEF EachOnce
  <2>1. \A t \in Prios, k \in Nat :
           k \in 1 .. Len(q2[t]) =>
             \/ k \in 1 .. Len(q[t]) /\ q2[t][k] = q[t][k] /\ q[t][k] # a
             \/ t = p /\ k = Len(q[p]) + 1 /\ q2[t][k] = a
    <3> SUFFICES ASSUME NEW t \in Prios, NEW k \in Nat, k \in 1 .. Len(q2[t])
                 PROVE  \/ k \in 1 .. Len(q[t]) /\ q2[t][k] = q[t][k] /\ q[t][k] # a
                        \/ t = p /\ k = Len(q[p]) + 1 /\ q2[t][k] = a
      OBVIOUS
    <3>1. CASE t = p /\ k = Len(q[p]) + 1
      BY <1>2, <3>1
    <3>2. CASE ~(t = p /\ k = Len(q[p]) + 1)
      <4>1. k \in 1 .. Len(q[t]) /\ q2[t][k] = q[t][k]
        <5>1. CASE t = p
          BY <1>2, <3>2, <5>1
        <5>2. CASE t # p
          BY <1>1, <5>2
        <5> QED  BY <5>1, <5>2
      <4>2. q[t][k] # a
        BY <4>1, Sits
      <4> QED  BY <4>1, <4>2
    <3> QED  BY <3>1, <3>2
  <2>2. \/ i \in 1 .. Len(q[r]) /\ q2[r][i] = q[r][i] /\ q[r][i] # a
        \/ r = p /\ i = Len(q[p]) + 1 /\ q2[r][i] = a
    BY <1>1, <2>1 DEF Queues
  <2>3. \/ j \in 1 .. Len(q[s]) /\ q2[s][j] = q[s][j] /\ q[s][j] # a
        \/ s = p /\ j = Len(q[p]) + 1 /\ q2[s][j] = a
    BY <1>1, <2>1 DEF Queues
  <2> QED  BY <2>2, <2>3 DEF EachOnce
<1> QED  BY <1>1, <1>2, <1>3, <1>4

\* getNextTask takes the first key of a queue, which is in no other place.
LEMMA Taken ==
  ASSUME NEW q \in Queues, NEW p \in Prios, q[p] # <<>>, EachOnce(q),
         NEW q2, q2 = Shorter(q, p)
  PROVE  /\ q2 \in Queues /\ EachOnce(q2) /\ Head(q[p]) \in Assets
         /\ ItemsOf(q2) = ItemsOf(q) \ {Head(q[p])} /\ Head(q[p]) \in ItemsOf(q)
         /\ Len(q2[p]) = Len(q[p]) - 1 /\ \A r \in Prios : r # p => q2[r] = q[r]
<1>1. /\ q[p] \in Seq(Assets) /\ q2 \in Queues /\ q2[p] = Tail(q[p])
      /\ \A r \in Prios : r # p => q2[r] = q[r]
  BY DEF Queues, Shorter
<1>2. /\ Len(q[p]) \in Nat /\ Len(q[p]) > 0 /\ Len(q2[p]) = Len(q[p]) - 1
      /\ Head(q[p]) = q[p][1] /\ Head(q[p]) \in Assets
      /\ \A i \in 1 .. Len(q2[p]) : i + 1 \in 1 .. Len(q[p]) /\ q2[p][i] = q[p][i + 1]
      /\ \A i \in 1 .. Len(q[p]) : i # 1 => i - 1 \in 1 .. Len(q2[p]) /\ q2[p][i - 1] = q[p][i]
  <2>1. /\ Len(q[p]) \in Nat /\ Len(q[p]) > 0 /\ Len(q2[p]) = Len(q[p]) - 1
        /\ Head(q[p]) = q[p][1] /\ Head(q[p]) \in Assets
    <3>1. q[p] \in Seq(Assets) /\ q[p] # <<>> /\ q2[p] = Tail(q[p])
      BY <1>1
    <3>2. Len(q[p]) \in Nat \ {0}
      BY <3>1, EmptySeq
    <3>3. Head(q[p]) = q[p][1]
      BY <3>1
    <3>4. Head(q[p]) \in Assets /\ Len(Tail(q[p])) = Len(q[p]) - 1
      BY <3>1, HeadTailProperties, Zenon
    <3>5. Len(q2[p]) = Len(q[p]) - 1
      BY <3>1, <3>4, Zenon
    <3>6. Len(q[p]) \in Nat /\ Len(q[p]) > 0
      BY <3>2
    <3> QED  BY <3>3, <3>4, <3>5, <3>6, Zenon
  <2>2. ASSUME NEW i \in 1 .. Len(q2[p])
        PROVE  i + 1 \in 1 .. Len(q[p]) /\ q2[p][i] = q[p][i + 1]
    BY <1>1, <2>1
  <2>3. ASSUME NEW i \in 1 .. Len(q[p]), i # 1
        PROVE  i - 1 \in 1 .. Len(q2[p]) /\ q2[p][i - 1] = q[p][i]
    <3>1. i - 1 \in 1 .. Len(q2[p]) /\ (i - 1) + 1 = i
      BY <2>1, <2>3
    <3> QED  BY <2>2, <3>1
  <2> QED  BY <2>1, <2>2, <2>3
<1>3. \A b : b \in ItemsOf(q2) <=> b \in ItemsOf(q) /\ b # Head(q[p])
  <2> SUFFICES ASSUME NEW b PROVE b \in ItemsOf(q2) <=> b \in ItemsOf(q) /\ b # Head(q[p])
    OBVIOUS
  <2>0. 1 \in 1 .. Len(q[p])
    BY <1>2
  <2>1. ASSUME b \in ItemsOf(q2) PROVE b \in ItemsOf(q) /\ b # Head(q[p])
    <3>1. PICK r \in Prios : \E i \in 1 .. Len(q2[r]) : q2[r][i] = b
      BY <1>1, <2>1, Sits
    <3>2. PICK k \in 1 .. Len(q[r]) : q[r][k] = b /\ (r = p => k # 1)
      <4>1. PICK i \in 1 .. Len(q2[r]) : q2[r][i] = b
        BY <3>1
      <4>2. CASE r = p
        <5>1. i + 1 \in 1 .. Len(q[r]) /\ q[r][i + 1] = b /\ i + 1 # 1
          BY <1>2, <4>1, <4>2
        <5> QED  BY <5>1
      <4>3. CASE r # p
        BY <1>1, <4>1, <4>3
      <4> QED  BY <4>2, <4>3
    <3>3. b # Head(q[p])
      BY <1>2, <2>0, <3>2 DEF EachOnce
    <3> QED  BY <3>2, <3>3, Sits
  <2>2. ASSUME b \in ItemsOf(q), b # Head(q[p]) PROVE b \in ItemsOf(q2)
    <3>1. PICK r \in Prios : \E i \in 1 .. Len(q[r]) : q[r][i] = b
      BY <2>2, Sits
    <3>2. \E k \in 1 .. Len(q2[r]) : q2[r][k] = b
      <4>1. PICK i \in 1 .. Len(q[r]) : q[r][i] = b
        BY <3>1
      <4>2. CASE r = p
        <5>1. i - 1 \in 1 .. Len(q2[r]) /\ q2[r][i - 1] = b
          BY <1>2, <2>2, <4>1, <4>2
        <5> QED  BY <5>1
      <4>3. CASE r # p
        BY <1>1, <4>1, <4>3
      <4> QED  BY <4>2, <4>3
    <3> QED  BY <1>1, <3>2, Sits
  <2> QED  BY <2>1, <2>2
<1>4. Head(q[p]) \in ItemsOf(q)
  <2>1. 1 \in 1 .. Len(q[p])
    BY <1>2
  <2> QED  BY <1>2, <2>1, Sits
<1>5. EachOnce(q2)
  <2> SUFFICES ASSUME NEW r \in Prios, NEW s \in Prios, NEW i \in 1 .. Len(q2[r]),
                      NEW j \in 1 .. Len(q2[s]), q2[r][i] = q2[s][j]
               PROVE  r = s /\ i = j
    BY DEF EachOnce
  <2> DEFINE Was(t, k) == IF t = p THEN k + 1 ELSE k
  <2>1. Was(r, i) \in 1 .. Len(q[r]) /\ q[r][Was(r, i)] = q2[r][i]
    BY <1>1, <1>2
  <2>2. Was(s, j) \in 1 .. Len(q[s]) /\ q[s][Was(s, j)] = q2[s][j]
    BY <1>1, <1>2
  <2>3. r = s /\ Was(r, i) = Was(s, j)
    BY <2>1, <2>2 DEF EachOnce
  <2> QED  BY <2>3
<1> QED  BY <1>1, <1>2, <1>3, <1>4, <1>5

\* As many keys are queued as positions are taken, three queues full at most.
LEMMA CountQueued ==
  ASSUME NEW q \in Queues, EachOnce(q), \A p \in Prios : Len(q[p]) <= QueueCap
  PROVE  /\ IsFiniteSet(ItemsOf(q)) /\ Cardinality(ItemsOf(q)) = Cardinality(PlacesOf(q))
         /\ Cardinality(PlacesOf(q)) \in Nat /\ Cardinality(PlacesOf(q)) <= 3 * QueueCap
<1>1. /\ IsFiniteSet(Prios \X (1 .. QueueCap))
      /\ Cardinality(Prios \X (1 .. QueueCap)) = 3 * QueueCap
  <2>1. IsFiniteSet(Prios) /\ Cardinality(Prios) = 3
    <3>1. ASSUME NEW n \in Nat
          PROVE  IsFiniteSet(1 .. n) /\ Cardinality(1 .. n) = n
      BY FS_Interval
    <3> QED  BY <3>1 DEF Prios
  <2>2. IsFiniteSet(1 .. QueueCap) /\ Cardinality(1 .. QueueCap) = QueueCap
    BY FS_Interval, PrefetchAssumption
  <2> QED  BY <2>1, <2>2, FS_Product
<1>2. /\ IsFiniteSet(PlacesOf(q)) /\ Cardinality(PlacesOf(q)) \in Nat
      /\ Cardinality(PlacesOf(q)) <= 3 * QueueCap
  <2>1. PlacesOf(q) \in SUBSET (Prios \X (1 .. QueueCap))
    BY DEF PlacesOf
  <2> QED  BY <1>1, <2>1, FS_Subset, FS_CardinalityType
<1>3. ExistsBijection(PlacesOf(q), ItemsOf(q))
  <2> DEFINE f == [x \in PlacesOf(q) |-> q[x[1]][x[2]]]
  <2>0. \A p \in Prios : Len(q[p]) \in Nat
    BY DEF Queues
  <2>1. \A x \in PlacesOf(q) : /\ x = <<x[1], x[2]>> /\ x[1] \in Prios
                               /\ x[2] \in 1 .. Len(q[x[1]])
    BY <2>0, PrefetchAssumption DEF PlacesOf
  <2>2. \A p \in Prios : \A i \in 1 .. Len(q[p]) : <<p, i>> \in PlacesOf(q)
    BY <2>0, PrefetchAssumption DEF PlacesOf
  <2>3. f \in [PlacesOf(q) -> ItemsOf(q)]
    BY <2>1, Sits
  <2>4. \A x, y \in PlacesOf(q) : f[x] = f[y] => x = y
    BY <2>1 DEF EachOnce
  <2>5. \A a \in ItemsOf(q) : \E x \in PlacesOf(q) : f[x] = a
    <3> SUFFICES ASSUME NEW a \in ItemsOf(q) PROVE \E x \in PlacesOf(q) : f[x] = a
      OBVIOUS
    <3>1. PICK p \in Prios : \E i \in 1 .. Len(q[p]) : q[p][i] = a
      BY Sits
    <3>2. PICK i \in 1 .. Len(q[p]) : q[p][i] = a
      BY <3>1
    <3>3. <<p, i>> \in PlacesOf(q) /\ f[<<p, i>>] = a
      BY <2>2, <3>2
    <3> QED  BY <3>3
  <2> QED  BY <2>3, <2>4, <2>5
          DEF ExistsBijection, Bijection, Injection, IsInjective, Surjection
<1> QED  BY <1>2, <1>3, FS_Bijection

\* The map holds what is queued and one or two keys more.
LEMMA CountInflight ==
  ASSUME PrefetchIInv
  PROVE  /\ Cardinality(inflight) = Cardinality(Positions) + Cardinality(Current)
         /\ Cardinality(inflight) \in Nat /\ Cardinality(inflight) <= 3 * QueueCap + 2
         /\ searching.at # "claimed" => Cardinality(inflight) <= 3 * QueueCap + 1
<1>1. /\ IsFiniteSet(Queued) /\ Cardinality(Queued) = Cardinality(Positions)
      /\ Cardinality(Positions) \in Nat /\ Cardinality(Positions) <= 3 * QueueCap
  BY CountQueued DEF PrefetchIInv, PrefetchTyped, OnePlace, Queued, ItemsOf, Positions, PlacesOf
<1>2. /\ IsFiniteSet(Current) /\ Cardinality(Current) \in Nat /\ Cardinality(Current) <= 2
      /\ searching.at # "claimed" => Cardinality(Current) <= 1
  <2> DEFINE S == IF searching.at = "claimed" THEN {searching.asset} ELSE {}
             F == {fetching.asset} \ {NoAsset}
  <2>1. /\ IsFiniteSet(S) /\ Cardinality(S) \in 0 .. 1
        /\ searching.at # "claimed" => S = {} /\ Cardinality(S) = 0
    <3>1. IF searching.at = "claimed" THEN S = {searching.asset} ELSE S = {}
      OBVIOUS
    <3>2. IsFiniteSet({searching.asset}) /\ Cardinality({searching.asset}) = 1
      BY FS_Singleton
    <3> HIDE DEF S
    <3> QED  BY <3>1, <3>2, FS_EmptySet
  <2>2. IsFiniteSet(F) /\ Cardinality(F) \in 0 .. 1
    <3>1. F = {} \/ F = {fetching.asset}
      OBVIOUS
    <3>2. IsFiniteSet({fetching.asset}) /\ Cardinality({fetching.asset}) = 1
      BY FS_Singleton
    <3> HIDE DEF F
    <3> QED  BY <3>1, <3>2, FS_EmptySet
  <2>3. S \intersect F = {}
    BY DEF PrefetchIInv, OnePlace
  <2>4. Current = S \union F
    BY DEF Current
  <2> HIDE DEF S, F
  <2>5. IsFiniteSet(Current) /\ Cardinality(Current) = Cardinality(S) + Cardinality(F)
    BY <2>1, <2>2, <2>3, <2>4, FS_Union, FS_EmptySet
  <2> QED  BY <2>1, <2>2, <2>5
<1>3. Cardinality(inflight) = Cardinality(Queued) + Cardinality(Current)
  <2>1. Queued \intersect Current = {} /\ inflight = Queued \union Current
    BY DEF PrefetchIInv, OnePlace, Held
  <2> QED  BY <1>1, <1>2, <2>1, FS_Union, FS_EmptySet
<1> QED  BY <1>1, <1>2, <1>3, PrefetchAssumption

-----------------------------------------------------------------------------
LEMMA PrefetchInitIInv == PrefetchInit => PrefetchIInv
<1> SUFFICES ASSUME PrefetchInit PROVE PrefetchIInv
  OBVIOUS
<1>1. \A p \in Prios : queue[p] = <<>>
  BY DEF PrefetchInit
<1>2. PrefetchTyped
  BY <1>1, PrefetchAssumption DEF PrefetchInit, PrefetchTyped, Queues, Idle
<1>3. EachOnce(queue) /\ Queued = {} /\ Current = {}
  BY <1>1, PrefetchAssumption DEF PrefetchInit, EachOnce, Queued, Items, Current, Idle
<1> QED  BY <1>2, <1>3 DEF PrefetchInit, PrefetchIInv, OnePlace, Held

\* What the keys of the map are held for depends on few variables.
LEMMA PlacesKept ==
  ASSUME PrefetchIInv, UNCHANGED <<queue, inflight>>, PrefetchTyped',
         Current' = Current,
         searching'.at = "claimed" => searching'.asset # fetching'.asset
  PROVE  PrefetchIInv'
BY DEF PrefetchIInv, OnePlace, EachOnce, Held, Queued

\* Responses are offered and searched.
LEMMA OfferIInv ==
  ASSUME PrefetchIInv,
         \/ \E r \in Scripts : EnqueueDiscovery(r)
         \/ \E r \in GameData : EnqueueGameData(r)
  PROVE  PrefetchIInv'
<1>1. /\ PrefetchIInv /\ PrefetchTyped /\ OnePlace
      /\ UNCHANGED <<searching, inflight, queue, fetching>>
  BY DEF PrefetchIInv, EnqueueDiscovery, EnqueueGameData
<1>2. discoveries' \in Seq(Responses)
  <2>1. PICK r \in Responses : discoveries' = Offered(r)
    BY DEF EnqueueDiscovery, EnqueueGameData, Responses
  <2>2. discoveries \in Seq(Responses)
    BY <1>1 DEF PrefetchTyped
  <2> QED  BY <2>1, <2>2 DEF Offered
<1>3. PrefetchTyped'
  BY <1>1, <1>2 DEF PrefetchTyped
<1>4. Current' = Current /\ (searching'.at = "claimed" => searching'.asset # fetching'.asset)
  BY <1>1 DEF OnePlace, Current
<1> QED  BY <1>1, <1>3, <1>4, PlacesKept

LEMMA SearchIInv ==
  ASSUME PrefetchIInv, Search
  PROVE  PrefetchIInv'
<1>1. /\ PrefetchIInv /\ PrefetchTyped /\ searching.at = "idle"
      /\ UNCHANGED <<inflight, queue, fetching>>
  BY DEF PrefetchIInv, Search
<1>2. /\ discoveries' \in Seq(Responses)
      /\ searching'.at \in {"idle", "over"}
      /\ searching' \in [at : {"idle", "checked", "claimed", "over"}, todo : SUBSET Assets,
                         asset : Assets \union {NoAsset}]
  <2>1. CASE discoveries # <<>> /\ searching' = [searching EXCEPT !.todo = RefsOf[Head(discoveries)]]
                                /\ discoveries' = Tail(discoveries)
    <3>1. RefsOf[Head(discoveries)] \in SUBSET Assets /\ Tail(discoveries) \in Seq(Responses)
      BY <1>1, <2>1, PrefetchAssumption DEF PrefetchTyped
    <3> QED  BY <1>1, <2>1, <3>1 DEF PrefetchTyped
  <2>2. CASE searching' = [searching EXCEPT !.at = "over"] /\ UNCHANGED discoveries
    BY <1>1, <2>2 DEF PrefetchTyped
  <2> QED  BY <2>1, <2>2 DEF Search
<1>3. PrefetchTyped'
  BY <1>1, <1>2 DEF PrefetchTyped
<1>4. Current' = Current /\ searching'.at # "claimed"
  BY <1>1, <1>2 DEF Current
<1> QED  BY <1>1, <1>3, <1>4, PlacesKept

\* A reference passes its first two checks, or is skipped.
LEMMA CheckRefIInv ==
  ASSUME PrefetchIInv, NEW a \in Assets, CheckRef(a)
  PROVE  PrefetchIInv'
<1>1. /\ PrefetchIInv /\ PrefetchTyped /\ searching.at = "idle"
      /\ UNCHANGED <<discoveries, inflight, queue, fetching>>
  BY DEF PrefetchIInv, CheckRef
<1>2. /\ searching' \in [at : {"idle", "checked", "claimed", "over"}, todo : SUBSET Assets,
                         asset : Assets \union {NoAsset}]
      /\ searching'.at \in {"idle", "checked"}
      /\ searching'.at = "checked" => searching'.asset \in Assets
  BY <1>1 DEF PrefetchTyped, CheckRef
<1>3. PrefetchTyped'
  BY <1>1, <1>2 DEF PrefetchTyped
<1>4. Current' = Current
  BY <1>1, <1>2 DEF Current
<1> QED  BY <1>1, <1>2, <1>3, <1>4, PlacesKept

\* The discovery worker claims a key that nobody holds; the map is never at its
\* limit then.
LEMMA ClaimRefIInv ==
  ASSUME PrefetchIInv, ClaimRef
  PROVE  PrefetchIInv'
<1> DEFINE a == searching.asset
<1>1. /\ PrefetchTyped /\ OnePlace /\ Held
      /\ searching.at = "checked" /\ a \in Assets
      /\ UNCHANGED <<discoveries, queue, fetching>>
  BY DEF PrefetchIInv, PrefetchTyped, ClaimRef
<1>2. Queued' = Queued /\ EachOnce(queue')
  BY <1>1 DEF Queued, OnePlace
<1>3. CASE a \in inflight
  <2>1. /\ UNCHANGED inflight /\ searching' = [searching EXCEPT !.at = "idle", !.asset = NoAsset]
    BY <1>3 DEF ClaimRef
  <2>2. searching'.at = "idle"
    BY <1>1, <2>1 DEF PrefetchTyped
  <2>3. PrefetchTyped'
    BY <1>1, <2>1 DEF PrefetchTyped
  <2>4. Current' = Current
    BY <1>1, <2>2 DEF Current
  <2> QED  BY <1>1, <2>1, <2>2, <2>3, <2>4, PlacesKept
<1>4. CASE a \notin inflight
  <2>1. /\ inflight' = Claimed(a) /\ searching' = [searching EXCEPT !.at = "claimed"]
    BY <1>4 DEF ClaimRef
  <2>2. inflight' = inflight \union {a}
    <3>1. Cardinality(inflight) <= 3 * QueueCap + 1 /\ Cardinality(inflight) \in Nat
      BY <1>1, CountInflight
    <3>2. ~(Cardinality(inflight) > FlightLimit)
      BY <3>1, PrefetchAssumption
    <3> QED  BY <2>1, <3>2 DEF Claimed
  <2>3. searching'.at = "claimed" /\ searching'.asset = a
    BY <1>1, <2>1 DEF PrefetchTyped
  <2>4. PrefetchTyped'
    BY <1>1, <2>1, <2>3 DEF PrefetchTyped
  <2>5. Current = {fetching.asset} \ {NoAsset} /\ Current' = Current \union {a}
    BY <1>1, <2>3 DEF Current
  <2>6. a \notin Queued /\ a \notin Current
    BY <1>1, <1>4 DEF Held
  <2>7. a # fetching.asset
    BY <1>1, <2>5, <2>6, PrefetchAssumption
  <2>8. OnePlace'
    BY <1>1, <1>2, <2>3, <2>5, <2>6, <2>7 DEF OnePlace
  <2>9. Held'
    BY <1>1, <1>2, <2>2, <2>5 DEF Held
  <2> QED  BY <2>4, <2>8, <2>9 DEF PrefetchIInv
<1> QED  BY <1>3, <1>4

\* The claimed key moves to a queue, or back to nobody when the queue is full.
LEMMA EnqueueRefIInv ==
  ASSUME PrefetchIInv, EnqueueRef
  PROVE  PrefetchIInv'
<1> DEFINE a == searching.asset
           p == PrioOf[a]
           F == {fetching.asset} \ {NoAsset}
<1>1. /\ PrefetchTyped /\ OnePlace /\ Held
      /\ searching.at = "claimed" /\ a \in Assets /\ a # fetching.asset
      /\ UNCHANGED <<discoveries, fetching>>
      /\ searching' = [searching EXCEPT !.at = "idle", !.asset = NoAsset]
      /\ queue \in Queues /\ EachOnce(queue) /\ Queued = ItemsOf(queue)
  BY DEF PrefetchIInv, PrefetchTyped, OnePlace, EnqueueRef, Queued, ItemsOf
<1>2. p \in Prios
  BY <1>1, PrefetchAssumption
<1>3. searching'.at = "idle"
  BY <1>1 DEF PrefetchTyped
<1>4. Current = F \union {a} /\ Current' = F /\ a \notin F /\ a \notin Queued
  BY <1>1, <1>3 DEF Current, OnePlace
<1>5. CASE Len(queue[p]) < QueueCap
  <2>1. queue' = Longer(queue, p, a) /\ inflight' = inflight
    BY <1>5 DEF EnqueueRef, Longer
  <2>2. /\ queue' \in Queues /\ EachOnce(queue') /\ ItemsOf(queue') = ItemsOf(queue) \union {a}
        /\ Len(queue'[p]) = Len(queue[p]) + 1 /\ \A r \in Prios : r # p => queue'[r] = queue[r]
    BY <1>1, <1>2, <1>4, <2>1, Enqueued
  <2>3. \A r \in Prios : Len(queue'[r]) <= QueueCap
    <3>1. Len(queue[p]) \in Nat
      BY <1>1, <1>2 DEF Queues
    <3>2. Len(queue'[p]) <= QueueCap
      BY <1>5, <2>2, <3>1, PrefetchAssumption
    <3> QED  BY <1>1, <2>2, <3>2 DEF PrefetchTyped
  <2>4. PrefetchTyped'
    BY <1>1, <1>3, <2>2, <2>3 DEF PrefetchTyped
  <2>5. Queued' = Queued \union {a}
    BY <1>1, <2>2 DEF Queued, ItemsOf
  <2>6. OnePlace'
    BY <1>1, <1>3, <1>4, <2>2, <2>5 DEF OnePlace
  <2>7. Held'
    BY <1>1, <1>4, <2>1, <2>5 DEF Held
  <2> QED  BY <2>4, <2>6, <2>7 DEF PrefetchIInv
<1>6. CASE ~(Len(queue[p]) < QueueCap)
  <2>1. queue' = queue /\ inflight' = inflight \ {a}
    BY <1>6 DEF EnqueueRef, Dropped
  <2>2. PrefetchTyped'
    BY <1>1, <1>3, <2>1 DEF PrefetchTyped
  <2>3. Queued' = Queued
    BY <2>1 DEF Queued
  <2>4. OnePlace'
    BY <1>1, <1>3, <1>4, <2>1, <2>3 DEF OnePlace
  <2>5. Held'
    BY <1>1, <1>4, <2>1, <2>3 DEF Held
  <2> QED  BY <2>2, <2>4, <2>5 DEF PrefetchIInv
<1> QED  BY <1>5, <1>6

\* A key moves from its queue to the fetch worker.
LEMMA TakeTaskIInv ==
  ASSUME PrefetchIInv, NEW p \in Prios, TakeTask(p)
  PROVE  PrefetchIInv'
<1> DEFINE a == Head(queue[p])
           C == IF searching.at = "claimed" THEN {searching.asset} ELSE {}
<1>1. /\ PrefetchTyped /\ OnePlace /\ Held
      /\ queue[p] # <<>> /\ queue' = Shorter(queue, p)
      /\ fetching.at \in {"first", "second", "third"}
      /\ fetching' = [at |-> "waiting", asset |-> a]
      /\ UNCHANGED <<discoveries, searching, inflight>>
      /\ queue \in Queues /\ EachOnce(queue) /\ Queued = ItemsOf(queue)
  BY DEF PrefetchIInv, PrefetchTyped, OnePlace, TakeTask, Visible, Queued, ItemsOf, Shorter
<1>2. /\ queue' \in Queues
      /\ EachOnce(queue') /\ a \in Assets
      /\ ItemsOf(queue') = ItemsOf(queue) \ {a} /\ a \in ItemsOf(queue)
      /\ Len(queue'[p]) = Len(queue[p]) - 1 /\ \A r \in Prios : r # p => queue'[r] = queue[r]
  BY <1>1, Taken
<1>3. Queued' = Queued \ {a} /\ a \in Queued
  BY <1>1, <1>2 DEF Queued, ItemsOf
<1>4. \A r \in Prios : Len(queue'[r]) <= QueueCap
  <2>1. Len(queue[p]) \in Nat
    BY <1>1 DEF Queues
  <2>2. Len(queue'[p]) <= QueueCap
    BY <1>1, <1>2, <2>1, PrefetchAssumption DEF PrefetchTyped
  <2> QED  BY <1>1, <1>2, <2>2 DEF PrefetchTyped
<1>5. a # NoAsset /\ fetching.asset = NoAsset
  BY <1>1, <1>2, PrefetchAssumption DEF PrefetchTyped
<1>6. PrefetchTyped'
  BY <1>1, <1>2, <1>4, <1>5 DEF PrefetchTyped
<1>7. Current = C /\ Current' = C \union {a} /\ a \notin C
  BY <1>1, <1>3, <1>5 DEF Current, OnePlace
<1>8. OnePlace'
  BY <1>1, <1>2, <1>3, <1>7 DEF OnePlace
<1>9. Held'
  BY <1>1, <1>3, <1>7 DEF Held
<1> QED  BY <1>6, <1>8, <1>9 DEF PrefetchIInv

\* The fetch worker looks further, waits, checks and fetches: it keeps its key.
LEMMA FetchStepIInv ==
  ASSUME PrefetchIInv, LookFurther \/ EndFetching \/ ForegroundIdle \/ CheckTask \/ Fetch
  PROVE  PrefetchIInv'
<1>1. /\ PrefetchIInv /\ PrefetchTyped /\ OnePlace
      /\ UNCHANGED <<discoveries, searching, inflight, queue>>
  BY DEF PrefetchIInv, LookFurther, EndFetching, ForegroundIdle, CheckTask, Fetch
<1>2. \E place \in {"second", "third", "over", "checking", "fetching", "pacing"} :
        /\ fetching' = [fetching EXCEPT !.at = place]
        /\ fetching.at \in {"first", "second", "third"} <=> place \in {"second", "third", "over"}
        /\ fetching.at # "over"
  BY <1>1 DEF LookFurther, EndFetching, ForegroundIdle, CheckTask, Fetch, Visible, PrefetchTyped
<1>3. fetching'.asset = fetching.asset /\ PrefetchTyped'
  BY <1>1, <1>2 DEF PrefetchTyped
<1>4. Current' = Current /\ (searching'.at = "claimed" => searching'.asset # fetching'.asset)
  BY <1>1, <1>3 DEF OnePlace, Current
<1> QED  BY <1>1, <1>3, <1>4, PlacesKept

\* removeInflight gives back the key that was fetched, and no other.
LEMMA FinishTaskIInv ==
  ASSUME PrefetchIInv, FinishTask
  PROVE  PrefetchIInv'
<1> DEFINE a == fetching.asset
           C == IF searching.at = "claimed" THEN {searching.asset} ELSE {}
<1>1. /\ PrefetchTyped /\ OnePlace /\ Held
      /\ inflight' = inflight \ {a} /\ fetching.at = "pacing" /\ fetching' = Idle
      /\ UNCHANGED <<discoveries, searching, queue>>
  BY DEF PrefetchIInv, FinishTask
<1>2. PrefetchTyped'
  BY <1>1 DEF PrefetchTyped, Idle
<1>3. a # NoAsset
  BY <1>1 DEF PrefetchTyped
<1>4. Current = C \union {a} /\ a \notin C /\ Current' = C
  BY <1>1, <1>3 DEF Current, OnePlace, Idle
<1>5. Queued' = Queued /\ EachOnce(queue') /\ a \notin Queued
  BY <1>1, <1>4 DEF Queued, OnePlace
<1>6. searching'.at = "claimed" => searching'.asset # fetching'.asset
  BY <1>1, PrefetchAssumption DEF PrefetchTyped, Idle
<1>7. OnePlace'
  BY <1>1, <1>4, <1>5, <1>6 DEF OnePlace
<1>8. Held'
  BY <1>1, <1>4, <1>5 DEF Held
<1> QED  BY <1>2, <1>7, <1>8 DEF PrefetchIInv

LEMMA PrefetchNextIInv == PrefetchIInv /\ [PrefetchNext]_prefetchVars => PrefetchIInv'
<1> SUFFICES ASSUME PrefetchIInv, [PrefetchNext]_prefetchVars PROVE PrefetchIInv'
  OBVIOUS
<1>1. ASSUME NEW r \in Scripts, EnqueueDiscovery(r) PROVE PrefetchIInv'
  BY <1>1, OfferIInv
<1>2. ASSUME NEW r \in GameData, EnqueueGameData(r) PROVE PrefetchIInv'
  BY <1>2, OfferIInv
<1>3. ASSUME NEW p \in Prios, TakeTask(p) PROVE PrefetchIInv'
  BY <1>3, TakeTaskIInv
<1>4. ASSUME NEW a \in Assets, CheckRef(a) PROVE PrefetchIInv'
  BY <1>4, CheckRefIInv
<1>5. ASSUME \/ \E a \in Assets : Expire(a) \/ CacheChanges(a)
             \/ SwitchPrefetch \/ StopEngine \/ UNCHANGED prefetchVars
      PROVE  PrefetchIInv'
  <2>1. UNCHANGED <<discoveries, searching, inflight, queue, fetching>>
    BY <1>5 DEF Expire, CacheChanges, SwitchPrefetch, StopEngine, prefetchVars
  <2> QED  BY <2>1 DEF PrefetchIInv, PrefetchTyped, OnePlace, EachOnce, Held, Current, Queued
<1> QED  BY <1>1, <1>2, <1>3, <1>4, <1>5, SearchIInv, ClaimRefIInv, EnqueueRefIInv, FetchStepIInv,
            FinishTaskIInv
         DEF PrefetchNext

\* Every key under way is at one place, and the map holds those keys.
THEOREM PrefetchIInvAlways == PrefetchSpec => []PrefetchIInv
<1> QED  BY PrefetchInitIInv, PrefetchNextIInv, PTL DEF PrefetchSpec

\* The in-flight map is exact, for any assets, responses, references and priorities
\* and whatever the capacities: no key stays in it, none is in two queues, and it
\* never reaches the limit at which it is thrown away.
THEOREM InflightAlwaysExact == PrefetchSpec => []InflightExact
<1>1. PrefetchIInv => InflightExact
  BY CountInflight DEF PrefetchIInv, Held, InflightExact
<1> QED  BY <1>1, PrefetchIInvAlways, PTL
=============================================================================
