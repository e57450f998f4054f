----------------------------- MODULE MCServices -----------------------------
(***************************************************************************)
(* Instances for TLC of the services around the cache: the maintenance     *)
(* tasks, the listener of the proxy, its upstreams, health repair,         *)
(* prefetching, the migration on macOS, and the self-update.  They share   *)
(* no state; a behaviour is one of a single service, and the others rest   *)
(* in their initial state.                                                 *)
(***************************************************************************)
EXTENDS HealthRepair, CacheTasks, CacheMigration, SelfUpdate, Prefetch, Failover,
        TLC

CONSTANTS Services,  \* the services to be checked
          a1, a2, a3, script, gameData, r1, r2

VARIABLE service

servicesVars == <<service, listenerVars, healthVars, taskVars, prefetchVars, migrationVars,
                  updateVars, vars>>

-----------------------------------------------------------------------------
\* Two ports of the loopback address, and one of them on every address.
ThreeAddrs == [host : {"lo"}, port : {1, 2}] \union [host : {"any"}, port : {1}]

\* Two assets of one queue; one of another, which is found again and again.
SomePrios == (a1 :> 1) @@ (a2 :> 1) @@ (a3 :> 3)
SomeRefs == (script :> {a1, a2}) @@ (gameData :> {a3})

Conf(on, second, auto, timed, limit) ==
    [enabled |-> on, backup |-> second, auto |-> auto, timed |-> timed, limit |-> limit]

\* Failover off, on without a backup, on without recovery or a threshold, and on
\* with limits 1 and 2.
AllConfs == {Conf(FALSE, TRUE, TRUE, TRUE, 2), Conf(TRUE, FALSE, TRUE, TRUE, 2),
             Conf(TRUE, TRUE, FALSE, FALSE, 2), Conf(TRUE, TRUE, TRUE, TRUE, 1),
             Conf(TRUE, TRUE, TRUE, TRUE, 2)}

\* Requests are alike.
RequestSymmetry == Permutations({r1, r2})

-----------------------------------------------------------------------------
ServicesInit ==
    /\ service \in Services
    /\ ListenerInit /\ (service \notin {"listener", "health"} => want = [host |-> "lo", port |-> 1])
    /\ HealthInit /\ (service # "health" => cacheDir = "ok" /\ rootCA = "ok" /\ firewall)
    /\ TasksInit /\ PrefetchInit
    /\ MigrationInit /\ (service # "migration" => source = Missing /\ target = Missing)
    /\ UpdateInit /\ (service # "update" => platform = "darwin")
    /\ Init /\ (service # "upstreams" => conf.limit = 1)

\* Every service but this one rests.
Only(s) ==
    /\ service = s /\ UNCHANGED service
    /\ IF s \in {"listener", "health"} THEN TRUE ELSE UNCHANGED listenerVars
    /\ IF s = "health" THEN TRUE ELSE UNCHANGED healthVars
    /\ IF s = "tasks" THEN TRUE ELSE UNCHANGED taskVars
    /\ IF s = "prefetch" THEN TRUE ELSE UNCHANGED prefetchVars
    /\ IF s = "migration" THEN TRUE ELSE UNCHANGED migrationVars
    /\ IF s = "update" THEN TRUE ELSE UNCHANGED updateVars
    /\ IF s = "upstreams" THEN TRUE ELSE UNCHANGED vars

ListenerStep == Only("listener") /\ ListenerNext
HealthStep == Only("health") /\ HealthNext
TasksStep == Only("tasks") /\ TasksNext
PrefetchStep == Only("prefetch") /\ PrefetchNext
MigrationStep == Only("migration") /\ MigrationNext
UpdateStep == Only("update") /\ UpdateNext
UpstreamsStep == Only("upstreams") /\ Next

ServicesNext == \/ ListenerStep \/ HealthStep \/ TasksStep \/ PrefetchStep
                \/ MigrationStep \/ UpdateStep \/ UpstreamsStep

ServicesSpec == ServicesInit /\ [][ServicesNext]_servicesVars

-----------------------------------------------------------------------------
\* The service that moves; the ones that rest never change.
Moving == CASE service \in {"listener", "health"} -> <<service, listenerVars, healthVars>>
            [] service = "tasks" -> <<service, taskVars>>
            [] service = "prefetch" -> <<service, prefetchVars>>
            [] service = "migration" -> <<service, migrationVars>>
            [] service = "update" -> <<service, updateVars>>
            [] service = "upstreams" -> <<service, vars>>
=============================================================================
