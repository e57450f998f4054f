--------------------------- MODULE ProxyListener ---------------------------
(***************************************************************************)
(* The listener of the proxy and the connections it accepted               *)
(* (engine/proxy/proxy.go).  Start, ReloadListener and Stop run under      *)
(* s.mu; serve loops and connection handlers run beside them, and a loop   *)
(* learns that its listener is gone from Accept's error and from the       *)
(* generation.                                                             *)
(*                                                                         *)
(* An address is a host and a port.  Whether net.Listen succeeds is the    *)
(* environment's choice at every call.                                     *)
(***************************************************************************)
EXTENDS Integers, FiniteSets

CONSTANTS Addrs,     \* the addresses that the configuration may ask for
          Conns,     \* the connections that clients open
          MaxLGen,   \* bound: how many generations of the listener
          NoAddr

ASSUME GensAssumption == MaxLGen \in Nat
ASSUME AddrAssumption == NoAddr \notin Addrs

VARIABLES want,      \* the address in the configuration
          running,   \* ProxyServer.running
          sock,      \* ProxyServer.listener
          lgen,      \* listenerGen
          open,      \* the listening sockets that are open: [addr, gen]
          loop,      \* loop[g]: the serve loop that was started with generation g
          conn,      \* conn[c]: where connection c is, and the loop that accepted it
          doomed,    \* what Stop has taken out of activeConns and will close
          engine,    \* the prefetch engine: "none", "running" or "stopped"
          lost,      \* history: a reload could bind neither address since the last Start
          halted     \* history: Stop was the last thing the user asked for

listenerVars == <<want, running, sock, lgen, open, loop, conn, doomed, engine, lost, halted>>

Gens == 1 .. MaxLGen
NoSock == [addr |-> NoAddr, gen |-> 0]
Socks == [addr : Addrs, gen : Gens]

ListenerTypeOK ==
    /\ want \in Addrs /\ running \in BOOLEAN /\ sock \in Socks \union {NoSock}
    /\ lgen \in 0 .. MaxLGen /\ open \subseteq Socks
    /\ loop \in [Gens -> {"none", "accepting", "holding", "refused", "over"}]
    /\ conn \in [Conns -> [at : {"none", "held", "tracked", "closed"}, by : 0 .. MaxLGen]]
    /\ doomed \subseteq Conns /\ engine \in {"none", "running", "stopped"} /\ {lost, halted} \subseteq BOOLEAN

ListenerInit ==
    /\ want \in Addrs /\ running = FALSE /\ sock = NoSock /\ lgen = 0 /\ open = {}
    /\ loop = [g \in Gens |-> "none"] /\ conn = [c \in Conns |-> [at |-> "none", by |-> 0]]
    /\ doomed = {} /\ engine = "none" /\ lost = FALSE /\ halted = FALSE

-----------------------------------------------------------------------------
\* A new listener on address a: the next generation, with a serve loop of its own.
Serve(a) == /\ sock' = [addr |-> a, gen |-> lgen + 1]
            /\ lgen' = lgen + 1
            /\ loop' = [loop EXCEPT ![lgen + 1] = "accepting"]

StartProxy ==
    /\ ~running /\ lgen < MaxLGen
    /\ Serve(want)
    /\ open' = open \union {sock'}
    /\ running' = TRUE /\ engine' = "running"
    /\ lost' = FALSE /\ halted' = FALSE
    /\ UNCHANGED <<want, conn, doomed>>

StartFails ==
    /\ ~running
    /\ engine' = IF engine = "none" THEN "none" ELSE "stopped"
    /\ halted' = FALSE
    /\ UNCHANGED <<want, running, sock, lgen, open, loop, conn, doomed, lost>>

\* What becomes of the old listener once its successor is bound.
\* Faulty variant: the old listener stays open.
NotRetired == {}
Retired == {sock}

\* Another port: the new address is bound first, then the old listener is closed.
MovePort(a) ==
    /\ a.port # sock.addr.port
    /\ Serve(a)
    /\ open' = (open \ Retired) \union {sock'}
    /\ UNCHANGED <<running, lost>>

\* The same port: close the old one first, and go back to it when the new fails.
\* When that fails too, the proxy stops running and the loop's generation is over.
Rebind(a) ==
    /\ a.port = sock.addr.port
    /\ \/ Serve(a) /\ open' = (open \ Retired) \union {sock'} /\ UNCHANGED <<running, lost>>
       \/ Serve(sock.addr) /\ open' = (open \ Retired) \union {sock'} /\ UNCHANGED <<running, lost>>
       \/ /\ sock' = NoSock /\ lgen' = lgen + 1 /\ open' = open \ Retired
          /\ running' = FALSE /\ lost' = TRUE /\ UNCHANGED loop

\* A listener on every interface calls its address [::], never 0.0.0.0, unless the
\* host has no IPv6 (proxy_reload_test.go:81), and is bound anew each time.
MayDiffer(a) == sock.addr # a \/ a.host = "any"

\* ReloadListener: nothing when it does not run, or listens there already.
ReloadListener(a) ==
    /\ running /\ MayDiffer(a) /\ lgen < MaxLGen
    /\ MovePort(a) \/ Rebind(a)
    /\ UNCHANGED <<want, conn, doomed, engine, halted>>

\* The configuration changes; that ReloadListener follows is ControlConfig's.
Reconfigure(a) ==
    /\ want' = a
    /\ UNCHANGED <<running, sock, lgen, open, loop, conn, doomed, engine, lost, halted>>

Tracked == {c \in Conns : conn[c].at = "tracked"}

\* Stop, up to s.mu.Unlock; the connections are closed after it.
StopProxy ==
    /\ engine' = IF engine = "none" THEN "none" ELSE "stopped"
    /\ IF running
          THEN /\ lgen < MaxLGen
               /\ running' = FALSE /\ lgen' = lgen + 1
               /\ sock' = NoSock /\ open' = open \ {sock}
               /\ doomed' = doomed \union Tracked
          ELSE UNCHANGED <<running, lgen, sock, open, doomed>>
    /\ halted' = TRUE
    /\ UNCHANGED <<want, loop, conn, lost>>

CloseDoomed(c) ==
    /\ c \in doomed
    /\ doomed' = doomed \ {c} /\ conn' = [conn EXCEPT ![c].at = "closed"]
    /\ UNCHANGED <<want, running, sock, lgen, open, loop, engine, lost, halted>>

-----------------------------------------------------------------------------
(* The serve loop of generation g.                                          *)
Listens(g) == \E s \in open : s.gen = g

Accept(g, c) ==
    /\ loop[g] = "accepting" /\ Listens(g) /\ conn[c].at = "none"
    /\ loop' = [loop EXCEPT ![g] = "holding"]
    /\ conn' = [conn EXCEPT ![c] = [at |-> "held", by |-> g]]
    /\ UNCHANGED <<want, running, sock, lgen, open, doomed, engine, lost, halted>>

\* isClientAllowed refuses, or trackConn: under s.mu, so that Stop finds the
\* connection in activeConns or trackConn finds that the proxy has stopped.
\* Faulty variant: a stopped proxy keeps the connection.
WelcomeAnyway == TRUE
Welcome == running

Track(g, c) ==
    /\ conn[c] = [at |-> "held", by |-> g]
    /\ loop' = [loop EXCEPT ![g] = "accepting"]
    /\ \/ conn' = [conn EXCEPT ![c].at = IF Welcome THEN "tracked" ELSE "closed"]
       \/ conn' = [conn EXCEPT ![c].at = "closed"]
    /\ UNCHANGED <<want, running, sock, lgen, open, doomed, engine, lost, halted>>

\* Accept fails when the listener is closed, and now and then without that.
AcceptFails(g) ==
    /\ loop[g] = "accepting"
    /\ loop' = [loop EXCEPT ![g] = "refused"]
    /\ UNCHANGED <<want, running, sock, lgen, open, conn, doomed, engine, lost, halted>>

\* The loop ends if its generation is over, else it sleeps and accepts again.
AfterError(g) ==
    /\ loop[g] = "refused"
    /\ loop' = [loop EXCEPT ![g] = IF ~running \/ g # lgen THEN "over" ELSE "accepting"]
    /\ UNCHANGED <<want, running, sock, lgen, open, conn, doomed, engine, lost, halted>>

\* The handler of a connection ends: untrackConn.
HangUp(c) ==
    /\ conn[c].at = "tracked"
    /\ conn' = [conn EXCEPT ![c].at = "closed"] /\ doomed' = doomed \ {c}
    /\ UNCHANGED <<want, running, sock, lgen, open, loop, engine, lost, halted>>

LoopStep(g) == AcceptFails(g) \/ AfterError(g) \/ \E c \in Conns : Accept(g, c) \/ Track(g, c)

ListenerNext == \/ StartProxy \/ StartFails \/ StopProxy
                \/ \E a \in Addrs : ReloadListener(a) \/ Reconfigure(a)
                \/ \E g \in Gens : LoopStep(g)
                \/ \E c \in Conns : CloseDoomed(c) \/ HangUp(c)

ListenerSpec == ListenerInit /\ [][ListenerNext]_listenerVars

-----------------------------------------------------------------------------
\* A running proxy has one open socket, that of the current generation, and one
\* loop that will not end before it; a stopped one holds no port, so that Start
\* and the rollback of ReloadListener find the port free.
OneListener ==
    /\ open = IF running THEN {sock} ELSE {}
    /\ running => sock.gen = lgen /\ loop[lgen] \in {"accepting", "holding", "refused"}

\* Once the user has stopped the proxy no client is served any more, not even one
\* that was being accepted meanwhile; a proxy that a reload had left without any
\* listener is the exception.
StopCutsAll == (halted /\ ~lost) => Tracked \subseteq doomed

\* The same without the exception: "Stop must terminate already-accepted client
\* connections too" (proxy.go:828).
StoppedServesNobody == halted => Tracked \subseteq doomed
=============================================================================
