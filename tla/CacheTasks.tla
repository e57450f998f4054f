----------------------------- MODULE CacheTasks -----------------------------
(***************************************************************************)
(* The cache maintenance tasks of the control server (engine/control:      *)
(* control.go, breakdown_handlers.go).  A handler begins a task under      *)
(* cacheTaskMu, resets its progress in a second critical section and       *)
(* leaves the work to a goroutine; other handlers cancel it, close the     *)
(* RAM Boost pool, or stop the server at any moment in between.            *)
(*                                                                         *)
(* The work itself is CacheManager's, Breakdown's and ResidentPool's: here *)
(* a task ends in one of its outcomes, and a boost opens the pool, fills   *)
(* it and looks at the pool's generation as the prewarm worker does.  A    *)
(* request that a handler refuses (parameters, a stale snapshot, a cache   *)
(* directory that may not be deleted from) changes nothing.                *)
(***************************************************************************)
EXTENDS Integers, FiniteSets

CONSTANTS TaskKinds,  \* the tasks that are asked for
          Disablers,  \* the requests that switch Boost off
          MaxTasks,   \* bound: how many tasks begin
          MaxGen      \* bound: how often the pool changes its generation

Tasks == 1 .. MaxTasks
AllKinds == {"audit", "slim", "boost", "scan", "clear_category", "clear_all"}
\* The kinds that have a flag of their own (clear_all has none).
Flagged == AllKinds \ {"clear_all"}
Outcomes == {"completed", "partial", "partial_failed", "cancelled", "failed", "disabled"}

ASSUME TasksAssumption == TaskKinds \subseteq AllKinds /\ MaxTasks \in Nat /\ MaxGen \in Nat

VARIABLES begun,    \* ControlServer.taskSeq
          active,   \* activeTaskID, 0 for none
          flags,    \* the kinds whose is... flag is set
          channel,  \* the task whose cancel channel cacheCancelCh holds, or 0
          closed,   \* the tasks whose channel is closed
          job,      \* the goroutine of each task
          shown,    \* boostProgress.State
          summary,  \* lastTaskSummary: the task and its status
          pool,     \* the resident pool: generation, Enabled, and whose items it has
          off,      \* the disable handlers, and the boost each of them cut off
          cut,      \* history: the boosts that a finished reset of the pool cut off
          stopped

taskVars == <<begun, active, flags, channel, closed, job, shown, summary, pool, off, cut,
              stopped>>

NoJob == [kind |-> "none", at |-> "none", gen |-> 0, res |-> "none"]

TasksTypeOK ==
    /\ begun \in 0 .. MaxTasks /\ active \in 0 .. begun /\ channel \in 0 .. begun
    /\ flags \subseteq Flagged /\ closed \subseteq 1 .. begun /\ cut \subseteq 1 .. begun
    /\ job \in [Tasks -> [kind : AllKinds \union {"none"},
                          at : {"none", "begun", "ready", "opening", "working", "told",
                                "shown", "done"},
                          gen : 0 .. MaxGen, res : Outcomes \union {"none"}]]
    /\ shown \in Outcomes \union {"none", "loading"}
    /\ summary \in [task : 0 .. begun, status : Outcomes \union {"none"}]
    /\ pool \in [gen : 0 .. MaxGen, on : BOOLEAN, by : 0 .. begun]
    /\ off \in [Disablers -> [at : {"idle", "cut", "reset", "done"}, boost : 0 .. begun]]
    /\ stopped \in BOOLEAN

TasksInit ==
    /\ begun = 0 /\ active = 0 /\ flags = {} /\ channel = 0 /\ closed = {}
    /\ job = [t \in Tasks |-> NoJob] /\ shown = "none"
    /\ summary = [task |-> 0, status |-> "none"]
    /\ pool = [gen |-> 0, on |-> FALSE, by |-> 0]
    /\ off = [d \in Disablers |-> [at |-> "idle", boost |-> 0]] /\ cut = {} /\ stopped = FALSE

-----------------------------------------------------------------------------
\* Closing a channel, once, whoever asks for it.
WithClosed == IF channel # 0 THEN closed \union {channel} ELSE closed

\* Faulty variant: a task without a flag is not seen.
BusyByFlag == flags # {}
Busy == active # 0 \/ flags # {}

\* tryBeginCacheTask: the whole of it under cacheTaskMu.
TryBegin(kind) ==
    /\ begun < MaxTasks
    /\ ~Busy
    /\ begun' = begun + 1 /\ active' = begun + 1 /\ channel' = begun + 1
    /\ flags' = IF kind \in Flagged THEN flags \union {kind} ELSE flags
    /\ job' = [job EXCEPT ![begun + 1] = [kind |-> kind, at |-> "begun", gen |-> 0, res |-> "none"]]
    /\ UNCHANGED <<closed, shown, summary, pool, off, cut, stopped>>

\* The handler resets the progress the task will show, and starts its goroutine.
ShowStart(t) ==
    /\ job[t].at = "begun"
    /\ shown' = IF job[t].kind = "boost" THEN "loading" ELSE shown
    /\ job' = [job EXCEPT ![t].at = "ready"]
    /\ UNCHANGED <<begun, active, flags, channel, closed, summary, pool, off, cut, stopped>>

-----------------------------------------------------------------------------
(* The prewarm worker of a boost task, as far as the pool's life goes.      *)
NewGeneration(t) ==
    /\ job[t].at = "ready" /\ job[t].kind = "boost" /\ pool.gen < MaxGen
    /\ pool' = [pool EXCEPT !.gen = @ + 1]
    /\ job' = [job EXCEPT ![t] = [@ EXCEPT !.at = "opening", !.gen = pool.gen + 1]]
    /\ UNCHANGED <<begun, active, flags, channel, closed, shown, summary, off, cut, stopped>>

OpenPool(t) ==
    /\ job[t].at = "opening"
    /\ pool' = [gen |-> job[t].gen, on |-> TRUE, by |-> 0]
    /\ job' = [job EXCEPT ![t].at = "working"]
    /\ UNCHANGED <<begun, active, flags, channel, closed, shown, summary, off, cut, stopped>>

Mine(t) == pool.on /\ pool.gen = job[t].gen

\* An item is added: the walk and each batch looked at the cancel channel first.
LoadItem(t) ==
    /\ job[t].at = "working" /\ job[t].kind = "boost"
    /\ Mine(t) /\ t \notin closed
    /\ pool' = [pool EXCEPT !.by = t]
    /\ UNCHANGED <<begun, active, flags, channel, closed, job, shown, summary, off, cut, stopped>>

\* The progress callback.
TellProgress(t) ==
    /\ job[t].at = "working" /\ job[t].kind = "boost"
    /\ active = t /\ shown # "disabled"
    /\ shown' = "loading"
    /\ UNCHANGED <<begun, active, flags, channel, closed, job, summary, pool, off, cut, stopped>>

\* A worker that finds the pool closed, or a newer generation, ends as disabled.
BoostOutcomes(t) ==
    IF ~Mine(t) THEN {"disabled"}
    ELSE {"completed", "partial"} \union (IF t \in closed THEN {"cancelled"} ELSE {})

PrewarmReturns(t) ==
    /\ job[t].at = "working" /\ job[t].kind = "boost"
    /\ \E res \in BoostOutcomes(t) :
          job' = [job EXCEPT ![t] = [@ EXCEPT !.at = "told", !.res = res]]
    /\ UNCHANGED <<begun, active, flags, channel, closed, shown, summary, pool, off, cut, stopped>>

\* What the task shows last: disabled once anybody has shown that.
ShownAtEnd(res) == IF shown # "disabled" /\ res # "disabled" THEN res ELSE "disabled"

ShowEnd(t) ==
    /\ job[t].at = "told" /\ job[t].kind = "boost"
    /\ shown' = ShownAtEnd(job[t].res)
    /\ job' = [job EXCEPT ![t].at = "shown"]
    /\ UNCHANGED <<begun, active, flags, channel, closed, summary, pool, off, cut, stopped>>

\* How the cache manager's work ends.  A cancelled scan or deletion may have
\* been over before anybody looked; a cancelled audit never says it completed.
Late(t) == IF t \in closed THEN {"cancelled"} ELSE {}
AuditEnds(t) == {"failed"} \union (IF t \in closed THEN {"cancelled"} ELSE {"completed"})
ScanEnds(t) == {"completed", "failed"} \union Late(t)
SlimEnds(t) == {"completed", "partial_failed", "failed"} \union Late(t)
CategoryEnds(t) == {"completed", "partial_failed", "failed"} \union Late(t)

Work(t) ==
    /\ job[t].at = "ready"
    /\ \E res \in CASE job[t].kind = "audit" -> AuditEnds(t)
                     [] job[t].kind = "scan" -> ScanEnds(t)
                     [] job[t].kind = "slim" -> SlimEnds(t)
                     [] job[t].kind = "clear_category" -> CategoryEnds(t)
                     [] OTHER -> {} :
          job' = [job EXCEPT ![t] = [@ EXCEPT !.at = "shown", !.res = res]]
    /\ UNCHANGED <<begun, active, flags, channel, closed, shown, summary, pool, off, cut, stopped>>

PoolOff == [gen |-> pool.gen + 1, on |-> FALSE, by |-> 0]

\* handleCacheClear works in its handler: the pool is closed, or nothing was done.
ClearAll(t) ==
    /\ job[t].at = "ready" /\ job[t].kind = "clear_all"
    /\ \/ /\ pool.gen < MaxGen
          /\ pool' = PoolOff
          /\ job' = [job EXCEPT ![t] = [@ EXCEPT !.at = "told", !.res = "completed"]]
       \/ /\ job' = [job EXCEPT ![t] = [@ EXCEPT !.at = "shown", !.res = "failed"]]
          /\ UNCHANGED pool
    /\ UNCHANGED <<begun, active, flags, channel, closed, shown, summary, off, cut, stopped>>

ShowCleared(t) ==
    /\ job[t].at = "told" /\ job[t].kind = "clear_all"
    /\ shown' = "disabled"
    /\ job' = [job EXCEPT ![t].at = "shown"]
    /\ UNCHANGED <<begun, active, flags, channel, closed, summary, pool, off, cut, stopped>>

\* A boost that was partial or switched off counts as completed.
FinalStatus(t) == IF job[t].kind = "boost" /\ job[t].res # "cancelled" THEN "completed"
                  ELSE job[t].res

\* finishCacheTask, deferred: status and flag, unless another task is the active one.
Finish(t) ==
    /\ job[t].at = "shown"
    /\ job' = [job EXCEPT ![t].at = "done"]
    /\ IF active = t
          THEN /\ active' = 0 /\ flags' = flags \ {job[t].kind}
               /\ summary' = [task |-> t, status |-> FinalStatus(t)]
          ELSE UNCHANGED <<active, flags, summary>>
    /\ UNCHANGED <<begun, channel, closed, shown, pool, off, cut, stopped>>

-----------------------------------------------------------------------------
(* handleCacheBoostDisable: cancel the boost, close the pool, show it.      *)
\* Faulty variant: the boost is not cancelled.
LeftRunning == closed
Severed == IF "boost" \in flags THEN WithClosed ELSE closed

CutBoost(d) ==
    /\ off[d].at = "idle"
    /\ closed' = Severed
    /\ off' = [off EXCEPT ![d] = [at |-> "cut",
                                  boost |-> IF "boost" \in flags THEN active ELSE 0]]
    /\ UNCHANGED <<begun, active, flags, channel, job, shown, summary, pool, cut, stopped>>

ResetPool(d) ==
    /\ off[d].at = "cut" /\ pool.gen < MaxGen
    /\ pool' = PoolOff
    /\ off' = [off EXCEPT ![d].at = "reset"]
    /\ cut' = cut \union ({off[d].boost} \ {0})
    /\ UNCHANGED <<begun, active, flags, channel, closed, job, shown, summary, stopped>>

ShowDisabled(d) ==
    /\ off[d].at = "reset"
    /\ shown' = "disabled"
    /\ off' = [off EXCEPT ![d].at = "done"]
    /\ UNCHANGED <<begun, active, flags, channel, closed, job, summary, pool, cut, stopped>>

\* SetCacheBase and SetRAMLimit close the pool and show nothing.
PoolOffElsewhere ==
    /\ pool.gen < MaxGen /\ pool.on
    /\ pool' = PoolOff
    /\ UNCHANGED <<begun, active, flags, channel, closed, job, shown, summary, off, cut, stopped>>

\* handleCacheCancelTask; t = 0 is a request without task_id.
NamesAnother(t) == t # 0 /\ active # 0 /\ active # t
NamesFinished(t) == t # 0 /\ active = 0

CancelTask(t) ==
    /\ ~NamesAnother(t) /\ ~NamesFinished(t)
    /\ closed' = WithClosed
    /\ UNCHANGED <<begun, active, flags, channel, job, shown, summary, pool, off, cut, stopped>>

\* Stop closes the channel and drops it; running tasks are not waited for.
StopServer ==
    /\ ~stopped /\ stopped' = TRUE
    /\ closed' = WithClosed /\ channel' = 0
    /\ UNCHANGED <<begun, active, flags, job, shown, summary, pool, off, cut>>

TaskStep(t) == \/ ShowStart(t) \/ NewGeneration(t) \/ OpenPool(t) \/ LoadItem(t)
               \/ TellProgress(t) \/ PrewarmReturns(t) \/ ShowEnd(t) \/ Work(t)
               \/ ClearAll(t) \/ ShowCleared(t) \/ Finish(t)
DisableStep(d) == CutBoost(d) \/ ResetPool(d) \/ ShowDisabled(d)

TasksNext == \/ \E kind \in TaskKinds : TryBegin(kind)
             \/ \E t \in Tasks : TaskStep(t)
             \/ \E d \in Disablers : DisableStep(d)
             \/ \E t \in 0 .. begun : CancelTask(t)
             \/ PoolOffElsewhere \/ StopServer

TasksSpec == TasksInit /\ [][TasksNext]_taskVars

-----------------------------------------------------------------------------
Running == {t \in Tasks : job[t].at \notin {"none", "done"}}

\* One task at a time: from tryBeginCacheTask to finishCacheTask no other task
\* begins, whatever is cancelled or stopped in between, and the flags say which
\* kind it is; otherwise a deletion would run beside the scan it relies on.
OneTask == /\ Cardinality(Running) <= 1
           /\ Running = {active} \ {0}
           /\ flags = {job[t].kind : t \in Running} \intersect Flagged

\* A boost that was running when the user switched RAM Boost off puts nothing
\* into the pool after the handler has closed it, although the worker opens the
\* pool itself when it starts: the handler has to close its channel first.
SwitchedOffStaysOff == pool.by \notin cut

\* When no task runs and no request is being handled, a display that says Boost
\* is disabled tells the truth: the pool holds nothing (the answer of
\* handleCacheBoostDisable: state disabled, resident_bytes 0).
DisabledIsEmpty ==
    (Running = {} /\ (\A d \in Disablers : off[d].at \in {"idle", "done"}) /\ shown = "disabled")
        => pool.by = 0
=============================================================================
